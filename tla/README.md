# A TLA+ verification project for shopify-warehouse-sync

The service keeps the stock levels of Shopify stores equal to a warehouse feed.
A webhook or an operator asks for a sync; the service lists the store through a
bulk operation, compares it with the feed, writes the differences in batches and
keeps the history in PostgreSQL. Each of these parts is small. What is hard is
what happens between them: handlers and one worker around a channel, a dozen
remote calls in a row with a merchant, a warehouse, a second caller and the end
of the process in between, each of them retried and paced against a budget that
others draw on too, and installations that end while they are being set up. This project models that, checks it with TLC and proves the parts that
matter most with TLAPS.

Contents: [1 Inventory](#1-inventory) · [2 Modules](#2-modules) ·
[3 Correspondence](#3-how-the-modules-correspond-to-the-code) · [4 Runs](#4-runs)
· [5 Bounds](#5-bounds) · [6 Fairness](#6-fairness) · [7 Proofs](#7-proofs) ·
[8 Disagreements](#8-where-code-and-text-disagree) ·
[9 Not modelled](#9-what-is-not-modelled) · [10 Plan](#10-plan)

To reproduce: `tlc -config <run>.cfg <module>.tla` for a run of the table below,
`tlapm <module>_proofs.tla` for the proofs.

## 1 Inventory

| Component | Source | State it keeps | Operations |
|---|---|---|---|
| Webhook queue | `services/sync.go` 39-54, 204-276; `handlers/webhook.go` | a channel of 16, the map `waiting` under a mutex, both in memory | `Enqueue`, `release`, the loop of `StartWorker` |
| Reconciliation rules | `services/sync.go` 56-97 (`Diff`) | none | which items change, to what, in what order |
| Sync run | `services/sync.go` 99-190 (`Run`, `reconcile`) | one row of `sync_runs`, open until it is finished | feed, list, diff, apply, log and finish |
| Bulk operations | `shopify/bulk.go` | Shopify's, one running query per store | start, poll `currentBulkOperation`, read the file |
| Inventory writes | `shopify/inventory.go` 107-164 | Shopify's quantities | `Apply` in batches of 250 |
| Admin API client | `shopify/client.go` | none between calls; each answer reports the store's leaky bucket | one GraphQL call: attempts, 429, `Throttled`, the pause |
| Warehouse feed | `warehouse/feed.go` | none | `Stock` by HTTP or from a file |
| Sync history | `repository/sync.go`, `database/` | `sync_runs`, `inventory_changes` | `Start`, `Finish`, `LogChanges`, `History` |
| Installation | `services/install.go`, `shopify/oauth.go`, `shopify/webhook.go`, `repository/shop.go`, `handlers/install.go` | one row of `shops` per store, a cookie | `Begin`, `Complete`, `Uninstall` |
| GDPR webhooks | `handlers/gdpr.go` | none of their own | `ShopRedact` is `Uninstall`; two answers without effect |
| Manual sync and history handlers | `handlers/sync.go` | none | `POST /sync`, `GET /sync/history` |
| Process lifecycle | `cmd/api/main.go`, `api/build.go`, `database/database.go` | the lifetime context, the pool of connections | start, serving, graceful shutdown, exit |
| Signatures, configuration, HTTP plumbing | `shopify/hmac.go`, `config/`, `pkg/`, `routes/` | none | pure functions and wiring |

(Paths are below `src/internal/` unless they begin otherwise.)

**How they interact.** A webhook handler calls `Enqueue` and answers 202; the
worker goroutine takes stores from the channel and calls `Run` with a context of
ten minutes. `POST /sync` calls the same `Run` directly with the request's
context. `Run` finds the store in `shops`, opens a row, and `reconcile` calls the
feed, `List` (a bulk operation that is polled), `Diff` and `Apply`. One
transaction with a context of its own logs the changes and closes the row. `Apply`
changes quantities, and so causes `inventory_levels/update` webhooks of its own.
`Complete` writes the row of `shops` that `Run` reads and registers the webhooks;
`app/uninstalled` and `shop/redact` revoke that row. Every GraphQL call goes through
`graphql`; worker and manual syncs of one store draw on the same bucket. After a
signal `main` waits for handlers, cancels the worker's context, closes the pool and
leaves.

**What is hard, and what must hold.**

| Component | Hard behaviour | What makes it correct |
|---|---|---|
| Queue | the mutex is released between mark and send; the worker releases the mark before the sync; the channel may be full; requests are only in memory | a mark stands for exactly one outstanding request and is released; nothing is lost or duplicated while there is room |
| Rules | blank ids, shared SKUs, unknown SKUs, negative quantities, an unstable sort | the store ends as the warehouse describes it; a second sync is silent |
| Run | any call may fail, or lose its answer and be carried out before or after the row is closed; the context may end; the process may die; two runs of one store overlap | the history is true: a row claims what its log holds, the log says what Shopify carried out, closed rows are final, open rows belong to a run |
| Bulk | Shopify answers with *the current* operation, which may be an earlier or a later one | a run that was told its operation's id decides on its own, fresh listing; waiting ends |
| Writes | a batch may land, at once or later, and its answer be lost; the last batch is short | only the feed's word reaches the store |
| Client | 429 and `Throttled` in any order; an answer lost after the query was carried out; a context that ends in a wait; somebody else empties the bucket | a query is carried out at most once, and was when the call answers; a lone caller keeps above the threshold; every call returns |
| Lifecycle | a signal, a timeout of `Shutdown`, a closed pool or a crash at any step of a sync that holds, wants or does not need a connection | no webhook is lost while the process runs; a stop strands no manual sync; the process ends |
| Installation | four remote calls in a row, reloads of the callback, removal in the middle, webhooks delivered late and again | an installed row holds a token; nothing is subscribed before it is stored; a removed store is marked in the end |

`PROJECT.json` lists each of these hazards at the line where it bites, with the
properties that would catch it.

## 2 Modules

| Module | What it is | Built on |
|---|---|---|
| `SyncRequests` | abstract: which stores are owed a sync, and which is being synced | |
| `SyncQueue` | `Enqueue`, channel, worker, shutdown and restart | refines `SyncRequests` |
| `SyncQueue_proofs` | proofs | `SyncQueue` |
| `Reconcile` | `Diff` and what it is for | |
| `MCReconcile` | every small store and feed, grown item by item | `Reconcile` |
| `Reconcile_proofs`, `MCReconcile_proofs` | proofs | `Reconcile`, `MCReconcile` |
| `SyncRun` | `Run` with Shopify, PostgreSQL, feed, merchant and warehouse | `Reconcile` (its `Diff` is the one checked and proved there) |
| `MCSyncRun` | the instance: two variants, two feeds; and a smaller one for liveness | `SyncRun` |
| `SyncRun_proofs` | proofs | `SyncRun` |
| `SyncLedger` | abstract: what a reader of the history may believe | |
| `RemoteCall` | abstract: what a caller of the Admin API may believe | |
| `Throttle` | `graphql`: attempts, budget, waits | refines `RemoteCall` |
| `Throttle_proofs` | proofs | `Throttle` |
| `Lifecycle` | one process: queue, worker, manual syncs, pool, shutdown, crash, restart | extends `SyncQueue` and refines its fair specification |
| `Lifecycle_proofs` | proofs | `Lifecycle`, `SyncQueue_proofs` |
| `Installation` | how a store enters and leaves the table `shops` | |
| `Installation_proofs` | proofs | `Installation` |

The modules form three layers, and each interface between them is a specification:

* `SyncRequests` <- `SyncQueue` <- `Lifecycle`. The queue says "a sync ends" and puts
  it under fairness; `Lifecycle` opens that sync up into its two transactions and the
  work between them, and shows that it does end.
* `SyncLedger` <- `SyncRun`. `Lifecycle` and `SyncRun` divide `Run` between them: what
  happens to the store and the history is `SyncRun`'s, what happens to the goroutine,
  its connection and its process is `Lifecycle`'s. `SyncRun` is checked with two
  callers because nothing in the code keeps the worker and a manual sync of one store
  apart.
* `RemoteCall` <- `Throttle`. `SyncRun` takes each remote call as one step: it is carried
  out and answered, or it breaks, and then nobody can tell whether it was or will be
  carried out. `RemoteCall` says that a call has no other outcomes, and `Throttle` is shown
  to have none. That a broken request may be carried out *later* is `SyncRun`'s addition.

Operators whose comment begins with *Slip* are not part of any specification.
Each is a form of the definition below it that a plausible edit of the code would
produce (a check outside the lock, a forgotten batch, a `where` clause lost), and
for every property of a passing run there is one that TLC refutes it with. They
show that the properties depend on the code and not on the shape of the model.

## 3 How the modules correspond to the code

**`SyncQueue`.** `queue` is the channel's buffer, `waiting` the keys of the map,
`handler[h]` where a request is inside `Enqueue`, `worker` where the worker is,
`life` the process. The locked check-and-mark is one action (`EnqueueSkip`,
`EnqueueMark`), the `select` with its default is another (`EnqueueSend`,
`EnqueueFull`), and `release` after a full channel a third (`EnqueueDrop`), so
other handlers and the worker get in between exactly where the code lets go of the
mutex. The worker's steps are `WorkerTake`, `WorkerRelease` (before the sync),
`WorkerDone`, and `WorkerStop` when the lifetime is cancelled. `Exit` empties
everything that lives in memory. `owed` is a history variable: the stores with a
webhook that no sync has started after.

**`Reconcile`.** `Updates` is the loop of `Diff`: items without SKU, id or location
and SKUs the feed does not name are skipped, a negative quantity counts as zero,
equal quantities are no update. `sort.Slice` is not stable and Shopify's order is
arbitrary, so `Diff` is the *set* of lists the code can return. SKUs are numbers,
ordered as the code orders its strings. `Written` is what `Apply` does to a store;
`Described` says what is wanted without using `Updates` or `Wanted`.

**`SyncRun`.** `call[c]` is the invocation of `Run` caller `c` is in: its program
counter, its row's id, whether its context is live, the feed it read, the
operation it waits for, its updates and the next batch. `open` is `Find` and `Start`,
when there is no row yet; the context may end there already (`Cancel`).
Each remote call is a step that is carried out and answered, or fails without effect,
or loses its answer (`OpenLost`, `BulkRunLost`, `ApplyLost`). A failure needs a fault
from the budget, or a context that is done, which is free (`Breaks`): so a client that
hangs up while the commit of `Start` is in flight leaves a row nobody knows of, without
any fault. A request to Shopify whose answer is lost is neither done nor undone:
`http.Do` returns at once, `Run` goes on to close the row, and the request stays behind in
`late` or `lateQueries`, also when the process dies. Shopify carries it out at any
later time (`LateBatch`, `LateQuery`) or never.
`BulkRunUnnamed` is an answer to `bulkOperationRunQuery` with neither an operation nor
`userErrors` (or with `data` null): the id is empty, `op` is 0, and as in
`id != "" && op.ID != id` the call then takes whatever operation is current (`Awaits`).
`ops` is the list of the store's bulk operations and `shown` the one
`currentBulkOperation` answers with; it may lag behind (`CatchUp`), which is why
`awaitBulk` compares ids. The file holds the levels of the time the operation ends.
`LogChanges` and `Close` are the two halves of one transaction: nothing is visible
before the commit, and `CloseFails` rolls both back. `landed` (what Shopify carried
out for a run), `left` (the runs whose row was left open where the code cannot reach it) and
`quiet` (the callers whose store and feed nobody else touched since they read the feed)
are history variables.

`SyncLedger` is seen through `Recorded`: a row is open, succeeded or failed, and has
its log; `landed` is what the run has done; `Active` are the runs that still work on the
store, `Due` those that stopped and have a batch under way.

**`Throttle`.** `bucket` is Shopify's, in points; the unit of time is what it takes to
restore one, so `pause`'s shortfall divided by the rate is the shortfall. `call[c]` is
one invocation of `graphql`: `ready` before `http.Do`, `sent` while Shopify has it,
`served` with the answer at hand, `waiting` in a `sleep` before another attempt,
`pausing` in the one before the result. `Tick` restores a point and shortens every
wait. `sleep` returns no error, so a context that is done shortens the wait
(`WakeUp`), and the next attempt fails in `http.Do` (`NotSent`). `Pause` knows only the
budget the answer reports, if it does. `empty` is an answer without usable data, which
is found out after the pause; `failed` is everything that returns at once. `effect`
and `paced` are history variables: how often Shopify carried the query out, and who
has waited as told since and has the bucket to itself.

**`Lifecycle`.** `main` is where `run` of `main.go` is: serving, in `Shutdown`
(`draining`), and the deferred calls in their order: `stopWorkers`, then `db.Close`,
which waits for connections in use, then gone. `job[j]` is one call of `Run`: it wants
or holds a connection to open its row, works without one, wants or holds one to close
it. The actions of `SyncQueue` are conjuncts here: `Request`, `WorkerCalls` and
`RunReturns` are where the two meet. `stranded` records jobs that ended and left their
row open; `trouble` the excuses (a crash, a drain that took more than 30 seconds, a
database that did not answer when a transaction needed it).

**`Installation`.** `row` is the store's row, `call[h]` the invocation of
`Complete` a callback is in. Exchange, Save and each topic of `RegisterWebhooks`
are separate steps. Shopify numbers the installations and a token *is* that number,
so "the token is dead" is a comparison. A code buys one token and dies with the
installation. The webhooks `app/uninstalled` (only when it was subscribed) and
`shop/redact` wait in `mail` until they are answered; `carried` marks one whose
work was done but whose answer was lost and that therefore comes again.
`MarkUninstalled` keeps its `where uninstalled_at is null`.

`PROJECT.json` maps every definition to its lines.

## 4 Runs

| Run | Module | Properties | What it shows | States |
|---|---|---|---|---|
| `queue_tight` | SyncQueue | `TypeOK` `OneTokenPerMark` `MarkIsCleared` `QueuedIsServed` `ImplementsRequests` | three stores, two places: drops happen, and still a mark is one request, is always released, and the queue is `SyncRequests` | 1,408 |
| `queue_promise` | SyncQueue | `AcceptedIsQueued` (violated) | a 202 for a request that was dropped | |
| `diff` | MCReconcile | `ReconciledExactly` `SecondSyncIsSilent` `LogsComparable` | `Diff` on every store of up to three items and every feed of up to three lines, blank keys included | 671,168 |
| `syncrun` | MCSyncRun | `TypeOK` `ClaimMatchesLog` `LogMatchesStore` `OpenRowHasRun` `SuccessMeansReconciled` `ClosedRowsAreFinal` `WritesComeFromFeed` `ActsOnOwnListing` `EachItemOnce` `ImplementsLedger` | worker and manual sync at once, two batches, one change from outside, one fault, contexts that end at any step, requests carried out long after they were given up; the history is `SyncLedger`'s | 904,904 |
| `syncrun_live` | MCSyncRun | `WorkerRowsClose` | every row the worker opens is closed, also when another sync supersedes its bulk operation or the answer to a request is lost; only a row `OpenRowHasRun` excuses by name stays open | 80,568 |
| `syncrun_hang` | MCSyncRun | `ManualRowsClose` (violated) | a manual sync whose operation was superseded polls for ever | |
| `syncrun_audit` | MCSyncRun | `EveryChangeIsLogged` (violated) | a batch that landed before its run failed is in no log | |
| `install` | Installation | `TypeOK` `InstalledHasToken` `SubscribedIsStored` `DeadRowIsDue` `RemovedIsMarked` | the row follows what the merchant did, through reloads, reinstalls, lost answers and late webhooks | 50,245 |
| `install_repeat` | Installation | `RepeatHasNoEffect` (violated) | a webhook delivered again after a reinstall revokes the new installation | |
| `lifecycle` | Lifecycle | `ProcessTypeOK` `ManualSyncsFinish` `NeverFull` `OwedIsWaiting` `ShutdownEnds` `ImplementsQueue` `ServesRequests` | queue, worker, manual sync and a pool of one connection through signal, drain, exit, crash and restart, with a place in the channel for every store: no webhook is dropped or lost to the sync it arrives in, every store owed a sync gets one, a stop strands no manual sync | 64,272 |
| `shutdown` | Lifecycle | `NoSyncIsCutOff` (violated) | a stop signal cuts off the worker's sync | |
| `throttle` | Throttle | `TypeOK` `PacedHasBudget` `ImplementsRemoteCall` `CallsReturn` | two callers on one bucket, 429s, lost answers, interrupted waits: nothing is carried out twice, a lone caller stays above the threshold, every call returns | 156,862 |

The properties worth a second look:

* `OneTokenPerMark` is three statements about the queue: every mark is covered by a
  handler, a channel entry or the worker; no store is twice in the channel; no two
  holders share a mark. A mark without holder would keep its store from ever being
  queued again, two holders would sync it twice.
* `OwedIsWaiting` is why the worker releases the mark *before* it syncs: a webhook
  that arrives in the middle must find the store unmarked.
* `LogMatchesStore` relates three places: the row in `sync_runs`, the log, and what
  Shopify was told. `ClaimMatchesLog` is the "twelve changed, seven stored" of the
  comment in `Run`.
* `SuccessMeansReconciled` says that success means something: not yesterday's bulk
  file, not the first batch only. It speaks of runs nobody disturbed; with a merchant,
  a second run or a late batch in between no such promise is possible. And it speaks of
  runs that were told the id of their operation: one that was not may take yesterday's
  completed operation, succeed and reconcile nothing. No text promises otherwise; the
  model has that run, and the properties of row, log and store hold of it too.
* `ActsOnOwnListing` is what the comparison of ids in `awaitBulk` is for, said for every
  run that has an id and not only for undisturbed ones: the updates a run applies are
  `Diff` of its own completed operation, which no other run was told the id of. With an
  empty id the code compares nothing, and nothing is claimed.
* `EachItemOnce`: the mutation sets quantities without comparing
  (`ignoreCompareQuantity`), so a batch sent again after a lost answer would undo a sale
  made in between. The batch that was given up counts: what it still may set, nothing else
  of the run has set.
* `OpenRowHasRun` excuses three rows by name, where no code could close them: Start
  committed and its caller did not learn of it (a broken connection, or a client that hung
  up during the commit), the closing transaction failed, the process died. An expired
  context is no such reason once the row's id is known: this is why closing uses
  `context.WithoutCancel`.
* `DeadRowIsDue` and `RemovedIsMarked` are the safety and the liveness side of one
  thing. Between Exchange and Save the merchant may remove the app; `app/uninstalled`
  finds no row to mark, and Save then stores a dead token. It is `shop/redact` that
  repairs this, 48 hours later; short of a reinstall nothing else does.

* `ImplementsQueue` is `SyncQueue`'s specification *with its fairness*. The queue
  assumed that a sync ends; here this follows from the ten minutes of the worker's
  context and the ten seconds of the closing one, although a manual sync may hold up a
  connection, hang, or never be given up by its client.
* `ManualSyncsFinish` is the half of "give the sync in flight time to finish" that
  holds; `NoSyncIsCutOff` is the whole.
* `ImplementsLedger` adds to the properties of single rows what a run may do *when*: no
  effect before its row is there, none after it succeeded, and after it stopped at most
  the one batch it had sent, whenever Shopify gets to it. So a row that says "failed" does
  not mean that the store has come to rest, and one that says "succeeded" does.
* `CallsReturn` follows a call to the end of the pause after its last answer, not only to
  that answer.
* `PacedHasBudget` is what the pause is for. It needs every conjunct of its definition:
  a second caller, an answer without the budget or an interrupted wait break it.
* `ImplementsRemoteCall` is why an interrupted `sleep` must not be an error and a broken
  connection must not be tried again: the first would discard an answer Shopify has
  acted on, the second carry a query out twice.

## 5 Bounds

All bounds are constants, in guards, and named: `QueueCap`, `MaxItems`,
`MaxQuantity`, `MaxRuns`, `MaxMoves`, `MaxFaults`, `BatchSize`, `MaxBegins`,
`MaxInstalls`, `MaxConns`, `Capacity`, `MaxAttempts`.

* *Queue*: two handlers are what it takes for two requests of one store in `Enqueue`
  at once; with the worker that is every pair of parties around a mark. Stores
  against places are the two cases of `HasRoom`: 3 against 2 in `queue_tight`, 2 against
  2 in `lifecycle`. The code has 16 places; the proofs are for any number.
* *diff*: three items hold two that share a SKU and a third that cannot be matched;
  two SKUs and the blank one; quantities -1, 0, 1 are negative, zero and positive.
* *syncrun*: two variants with batches of one make two batches, so a run may fail
  between them; two callers and two rows make one overlap; one change from outside
  and one fault put either at any of the steps; contexts end without one. The store
  starts at 0 and the merchant sets 0: against feeds that want 1 and 0 this gives
  updates, no update, and a merchant who undoes one. Two faults mean two losses in one
  sync, which the proofs cover. `syncrun_audit` starts from 0 and 1.
* *syncrun_live*, *syncrun_hang*: one variant. The liveness is about who waits for whose
  operation. One fault in the former puts a lost answer, a lost or nameless bulk operation
  or a crash at any step; none is needed in the latter.
* *install*: two nonces, two installations and two failures: an old call, an old
  webhook or an old code against the next installation.
* *lifecycle*: one manual sync and the worker's over one connection are enough for
  either to wait for the other's transaction, and for a pool that is exhausted at any
  step; the code has ten connections, the proofs any number. Nothing is counted: crash
  and restart may happen again and again.
* *throttle*: a bucket of three points, a threshold of two and queries of three. A query
  then costs more than the threshold, so that `Throttled` comes with and without a pause
  after it, and two callers always compete. Three attempts (`MaxAttempts` is 2) make
  429 and `Throttled` mix in one call. The proofs are for any numbers.

Deadlock is not checked where the bounds end every behaviour (`diff`, the
`syncrun` and `install` runs). It is checked for the queue, the process and the client, which never stop.

## 6 Fairness

* *Queue*: weak fairness of the worker and of each handler inside `Enqueue`. The
  worker's loop always has an enabled step, `Run` returns because its context ends
  after ten minutes (`lifecycle` checks that: there this fairness is a consequence), and no step
  of `Enqueue` blocks: its send has a default. Webhooks, shutdown and exit are owed
  by nobody; the properties say "or the process stops".
* *Run*: weak fairness of each call's next step, from `Find` on (the goroutine is
  scheduled; HTTP and database calls end), of Shopify's end of a bulk operation and of its answer
  catching up, and of the *worker's* deadline. No such deadline exists for
  `POST /sync`, and none is assumed: this is what `syncrun_hang` is about. A request that
  was given up is owed nothing: Shopify may carry it out or not.
* *Process*: goroutines run; PostgreSQL answers or the transaction's context ends
  (`Transaction`); the worker's deadline comes; work whose context is done ends, work
  whose context lives need not; `run` goes on once `Shutdown` may return. Requests,
  signals, crashes and restarts are owed by nobody.
* *Client*: time passes, the goroutine goes on, and a request is answered, refused or
  ended by the 120 seconds of `http.Client`. Shopify may refuse for ever.
* *Installation*: a callback that was taken up goes on (the client has timeouts),
  Shopify sends what is due and delivers until it is answered. In fact Shopify gives
  up on a webhook after two days of failures; failures are bounded here, so
  "delivers until answered" adds nothing beyond that. The merchant owes nothing.

## 7 Proofs

All theorems are for every value of the constants, under the assumptions named
in the modules (a buffer of at least one place, finitely many stores, a batch of at
least one update, `Blank` not a SKU, SKUs ordered like integers, bounds natural
numbers).

**`SyncQueue_proofs`.** `TypeCorrect`, `MarksAreTokens` (`OneTokenPerMark`),
`RoomForAll` (`NeverFull`), `NoWebhookLost` (`OwedIsWaiting`), `Refinement`
(`Spec => Requests!Spec`), `AcceptedWithRoom` and `NoStoreIsOvertaken`. The inductive invariant is `TypeOK`, `Holding` (a handler
inside `Enqueue` and a worker with work hold a real store), and the three
properties together: none is inductive alone. That the channel cannot be full when
every store has a place is a counting argument: the channel's entries are distinct
(`NoDoubleEntry`) and differ from the store about to be sent (`OneHolder`), so by the
pigeonhole theorem the channel is shorter than the number of stores
(`DistinctLeaveRoom`). `AcceptedWithRoom` is the other side of `queue_promise`: with a
place for every store a 202 does mean "queued", so nothing but the size of the channel
breaks that promise. `NeverOvertaken` is the safety half of `QueuedIsServed`: a store in
the channel never moves back, and moves forward whenever the worker takes another.

**`Reconcile_proofs`, `MCReconcile_proofs`.** `DiffListsUpdates`: every list `Diff`
returns holds every update once and nothing else. From this `DiffReconciles` and
`SecondDiffIsEmpty`, and for the store and feed of `MCReconcile` `AlwaysReconciled`
and `AlwaysSilent`. They rest on inventory item ids being unique, which is
Shopify's promise and the invariant proved of `MCReconcile`. `DiffIsOneList` and, from
it, `AlwaysComparable` (`LogsComparable`) say that where no two items share a SKU, `Diff`
has exactly one result. That needs no induction over sequences: the place of an update
in a sorted list is its rank, the number of updates whose SKU is not greater, and the
list made from the ranks is sorted.

**`SyncRun_proofs`.** `TypeCorrect`, `ClaimsAreLogged`, `LogIsTrue`,
`HistoryIsFinal`, `WritesFollowFeed`, `OpenRowsAreOwned`, `SuccessReconciles`,
`ListingIsOwn` (`ActsOnOwnListing`), `ItemsAreSetOnce` (`EachItemOnce`), `DeadlineHolds` and
`Refinement` (`ImplementsLedger`), for every number of variants, feeds, callers, runs and faults and every batch size.
The inductive invariant is

* `TypeOK`;
* `Owners`: the row a call works on is open, and no two calls work on one row;
* `Progress`: what has landed for a call's run is exactly the updates before `next`,
  and all of them once it is closing without a failure;
* `Strays`: a batch that was given up belongs to a run that stopped (its row is not a
  success, and a call that still holds it has failed), and names no item the run had set;
* `ClaimMatchesLog` and `LogMatchesStore`.

`LogMatchesStore` alone is not inductive: `Close` writes the log from the call's
updates, and it needs `Progress` to know that these have landed. `HistoryIsFinal`
needs `Owners`: `Finish` closes a row by its id, and only its owner has the id. A late
batch lands for a run that did not succeed: without `Strays` it could make a true log
false. `OpenRowsAreOwned` follows the owner of a row: it keeps the row until it closes it
or until a step that adds the row to `left`.
`SuccessReconciles` adds `AllFaithful`, which follows an undisturbed call from the
feed it read over its own listing to the quantities it has written so far.
`ListingIsOwn` adds `OwnOperations`: the operation a call waits for or works from is its
own, and its file does not change any more once it is completed; a call without an id
has none. `ItemsAreSetOnce` takes `Progress` and `Strays`: what is to come and what has
landed are different places of one list in which an item occurs once.
`DeadlineHolds` is an action property: once a call's context is done, wherever the call
is, each of its steps brings it closer to its end, at most five are left, and none of them
sets a quantity; what it had sent is `LateBatch`'s. It is the safety half of
`WorkerRowsClose`. `Refinement` takes both halves of the invariant, before and after the
step: `Owners` says that a call's batch lands for an open row that still works on the
store, `Strays` that a late one lands for a run that stopped, and the ledger of the new
state that `Close` concludes with what has landed.

**`Lifecycle_proofs`.** `ProcessIsQueue` (`ProcessSpec => Spec`) carries the theorems
of the queue over to the process: `QueueInProcess` is three of them, and
`RequestsInProcess` is the refinement of `SyncRequests` by the whole process. `ProcessTyped`
and `ManualSyncsSurvive` rest on `ProcessIInv`, whose parts say that a connection is
held by a transaction only and the pool keeps its limit (`Pooled`, `InTransaction`),
that the worker's job exists exactly while the worker syncs (`InStep`), that `main` and
the life of the queue agree (`InLife`), and that once `Shutdown` has returned without
its time being up no client is left (`NoClientLeft`), which is what
`ManualSyncsFinish` needs: `db.Close` finds nobody to refuse. `ShutdownAdvances` and
`WorkerStartsNoLateSync` are action properties, the safety half of `ShutdownEnds`: from the
signal on `main` only goes forward and what it waits for only becomes less, and after
`stopWorkers` the worker begins no sync, although its `select` may still take a store
(inductive is `CutOff`, that its context is done by then).

**`Throttle_proofs`.** `TypeCorrect` (with "carried out at most once" in the type of
`effect`), `BudgetIsKept`, `Refinement`, `AnswersAreTrue` and `AttemptsAreCounted`. `PacedHasBudget` speaks of callers that are
about to send; inductive is `Budgeted`, that the bucket and what is left of the wait
(`Due`) make up the threshold at every point of a call: a tick moves one point from the
one to the other, unless the bucket is full, and then it is above the threshold.
`Phases` says what has been asked for and done at each program counter. `AnswersAreTrue`
is proved of `RemoteCall`, where it is two lines of reasoning, and reaches `graphql`
through the refinement. `AttemptsAreCounted` is the safety half of `CallsReturn`: every
step of a call, the pause before its result included, uses up one of a bounded number
(`Remaining`), nobody else's step gives one back, and a wait only gets shorter.

**`Installation_proofs`.** `TypeCorrect`, `InstalledRowsHoldTokens`,
`StoredBeforeSubscribed`, `RemovalReachesTheRow` and `CodesBuyOneToken`. The inductive invariant adds
`Carried` (a call past Exchange holds a token, one past Save has a row),
`SaveIsDue` (a Save that will store a dead token has its `shop/redact` still ahead)
and `Numbered`. `SaveIsDue` is the heart: `DeadRowIsDue` would break at such a Save.
`OneTokenPerCode` follows each token to the code it was bought with: however reloads of
the callback interleave, one code brings one callback past Exchange. It needs that codes
differ by the install request they answer (`CodesDiffer`).

`DeadlineEndsTheRun`, `ShutdownOnlyAdvances`, `NoSyncStartsLate`, `AnsweredIsDone`,
`AttemptsBound`, `AttemptsRunOut`, `NeverOvertaken` and `OneTokenPerCode` are defined next to their proofs
and are in no run: they hold for every value of the constants. `AcceptedIsQueued`, which
`AcceptedWithRoom` proves where there is room, is what `queue_promise` refutes where
there is not; all other safety properties the theorems name are checked by the passing
runs too.

**Only model-checked.** Everything under fairness (`MarkIsCleared`,
`QueuedIsServed`, `ServesRequests`, `WorkerRowsClose`, `RemovedIsMarked`,
`ShutdownEnds`, `CallsReturn`, and the fairness in `ImplementsQueue`): the
prover does not handle liveness under fairness or ENABLED. For four of them the safety
half is proved: that what is waited for gets closer with each step. That the steps are
taken is the fairness, and stays with TLC. Every invariant of a passing run is stated by
a theorem. Induction over data and RECURSIVE operators are beyond the installed provers
too; no module here uses RECURSIVE.

## 8 Where code and text disagree

Each is a run that is expected to be violated; `PROJECT.json` quotes the lines.

1. **`queue_promise`.** "All that is promised here is 'it is queued'"
   (`pkg/httpx/response.go`): when the channel is full, `Enqueue` drops the request,
   returns nothing, and the answer is 202 all the same.
2. **`shutdown`.** "Give the sync in flight time to finish" (`cmd/api/main.go`):
   `Shutdown` waits for handlers. The worker is none, and its sync loses its context,
   then the pool, then the process, with its row open.
3. **`syncrun_hang`.** `awaitBulk` treats every other id as "the previous one". It can
   be a later one, and then a caller without a deadline polls until its client goes
   away, with its row open. Another sync comes that far because, against the comment of
   `StartWorker` ("concurrent syncs for the same store are guaranteed to be refused"),
   Shopify refuses a second bulk *query* only while the first one runs.
4. **`syncrun_audit`.** "Every individual quantity change" is recorded (README):
   `reconcile` returns no updates when `Apply` fails, so the batches that had landed
   are in no log.
5. **`install_repeat`.** "A repeat must have no effect beyond the same outcome"
   (`Uninstall`): a webhook of the old installation that comes again after a
   reinstall clears the token of the new one.

## 9 What is not modelled

* Signatures: HMAC over bytes, a pure function whose content is cryptography. The
  modules take them to be right; a refused request changes nothing.
* Configuration, routing, response bodies, error codes: stateless.
* `GET /sync/history` and `Describe`: reads that change nothing.
* The operator's token on `POST /sync`: a guard before `Run`.
* `rest` and the health check: reads that change nothing.
* In `Throttle`, a request that was given up and is carried out by Shopify only later: there
  Shopify has carried a request out, or not, by the time the caller goes on. `SyncRun` has
  the late ones.
* An answer to `inventorySetQuantities` without `userErrors` although the batch was not
  carried out (`data` null would be taken so): every answer the code takes for a success
  is assumed to be one. For the bulk operation, where such an answer does more, it is
  modelled (`BulkRunUnnamed`).
* The commit of `Start` when its answer is lost: it has taken effect or not by the time the
  call gives up. PostgreSQL has no `LateBatch`.
* `WriteTimeout`: a manual sync of more than 30 seconds completes and is recorded, but
  its answer cannot be written. No module has a clock to compare the two with.
* Other users of the pool than syncs: they hold a connection for one short query.
* A start that fails: the process stays down. `migrate` only creates what is not there.
* The rounding of the pause to a `time.Duration`.
* Several locations: `inventoryQuantity` is the total over a store's locations and
  the README of the service names this limit; the model has one location.
* Integers: quantities are unbounded. `LogChanges` narrows to 32 bits, Shopify accepts
  no quantity above 10^9.
* The store's token inside `SyncRun`: a dead token is one of the failures there.

## 10 Plan

The order follows the importance of the behaviour. Done:

1. `SyncRequests`, `SyncQueue` and its proofs: no webhook may be lost.
2. `Reconcile`, `MCReconcile` and their proofs: what a sync is for.
3. `SyncRun`, `MCSyncRun` and its proofs: history and store under failure.
4. `Installation` and its proofs: the token every sync depends on.

5. `Lifecycle` and its proofs: what a stop, a crash or an exhausted pool does to the
   queue and to syncs.
6. `RemoteCall`, `Throttle` and its proofs: what a remote call is.
7. `SyncLedger`, with `SyncRun` proved to implement it.

8. The remaining invariants (`LogsComparable`, `ActsOnOwnListing`, `EachItemOnce`) and the
   safety halves of the liveness properties, proved.

Left:

9. In `SyncRun`: the answer of `Run` when closing fails.
