------------------------------- MODULE SyncRun -------------------------------
(***************************************************************************)
(* SyncService.Run for one store, with everything it talks to:             *)
(*                                                                         *)
(*   - PostgreSQL: sync_runs and inventory_changes, through                *)
(*     internal/repository/sync.go and the transactions of                 *)
(*     internal/database/database.go;                                      *)
(*   - Shopify: the store's quantities and its bulk operations, through    *)
(*     List, Apply and awaitBulk of internal/shopify;                      *)
(*   - the warehouse feed.                                                 *)
(*                                                                         *)
(* Run is called by the queue's worker, with a deadline of ten minutes,    *)
(* and by the handlers of POST /sync, with the request's context and no    *)
(* deadline.  Nothing keeps the two apart.  Every remote call is a step of *)
(* its own; in between, other callers, the merchant, the warehouse and     *)
(* Shopify's own clock move on, and the process may die.  A request the    *)
(* code has given up may still be carried out, long after the run closed.  *)
(***************************************************************************)
EXTENDS Reconcile

CONSTANTS Worker,      \* the queue's worker
          Manual,      \* handlers of POST /sync that may run at once
          Variants,    \* the store's inventory items
          SkuOf,       \* the SKU of each
          Quantities,  \* what a quantity can be
          Feeds,       \* what the warehouse feed can say
          BatchSize,   \* updates in one mutation, 250 in Apply
          MaxRuns,     \* bound: rows of sync_runs
          MaxMoves,    \* bound: changes by merchant and warehouse
          MaxFaults,   \* bound: failures
          NoFeed

Callers == Manual \cup {Worker}

ASSUME CallersAssumption == Worker \notin Manual
ASSUME BatchAssumption   == BatchSize \in Nat \ {0}
ASSUME BoundsAssumption  == MaxRuns \in Nat /\ MaxMoves \in Nat /\ MaxFaults \in Nat
ASSUME StoreAssumption   == /\ IsFiniteSet(Variants) /\ Blank \notin Variants \cup {"primary"}
                            /\ SkuOf \in [Variants -> Int \cup {Blank}]
                            /\ Quantities \subseteq Int /\ Quantities # {}
ASSUME FeedsAssumption   == \A f \in Feeds : f \in [DOMAIN f -> Int]

VARIABLES level,    \* Shopify: quantity of each variant
          ops,      \* Shopify: the store's bulk operations, oldest first
          shown,    \* Shopify: the one currentBulkOperation answers with, 0 if none
          late,     \* by run id: its batch that was given up and may still land
          lateQueries, \* runs whose bulk query was given up and may still start
          feed,     \* the warehouse's stock
          rows,     \* PostgreSQL: sync_runs, by id
          changes,  \* PostgreSQL: inventory_changes, by run id
          call,     \* the invocation of Run each caller is in
          landed,   \* history: by run id, the updates Shopify carried out
          left,     \* history: runs whose row was left open for want of a database
          quiet,    \* history: callers whose run nobody else interfered with
          moves,    \* changes by merchant and warehouse so far
          faults    \* failures so far

service == <<call, quiet>>
shopify == <<level, ops, shown, late, lateQueries>>
database == <<rows, changes>>
vars == <<shopify, feed, database, service, landed, left, moves, faults>>

-----------------------------------------------------------------------------
Trigger(c) == IF c = Worker THEN "webhook" ELSE "manual"

\* What the bulk operation's file lists.  inventoryQuantity is the total over
\* the store's locations; the store has one (README, "Known limits").
Items(lines) == {[sku |-> SkuOf[v], id |-> v, location |-> "primary",
                  quantity |-> lines[v]] : v \in Variants}

Item   == [sku : Int \cup {Blank}, id : Variants, location : {"primary"}, quantity : Int]
Update == [item : Item, new : Int]
Change == [sku : Int \cup {Blank}, before : Int, after : Int]

\* A batch on its way to Shopify, and the feed it was made from.
Request == [stock : Feeds \cup {NoFeed}, batch : SUBSET Update]
Nothing == [stock |-> NoFeed, batch |-> {}]

Row == [trigger : {"webhook", "manual"}, state : {"open", "closed"},
        checked : Nat, updated : Nat, failed : BOOLEAN]

Operation == [status : {"RUNNING", "COMPLETED", "FAILED"},
              lines : [Variants -> Int]]

Fresh(pc, id) == [pc |-> pc, run |-> id, live |-> TRUE, stock |-> NoFeed, op |-> 0,
                  checked |-> 0, updates |-> <<>>, next |-> 1, failed |-> FALSE]

Idle == Fresh("idle", 0)

Call == [pc : {"idle", "open", "feed", "list", "poll", "apply", "closing", "logged"},
         run : Nat, live : BOOLEAN, stock : Feeds \cup {NoFeed}, op : Nat,
         checked : Nat, updates : Seq(Update), next : Nat \ {0}, failed : BOOLEAN]

\* The call has its row; before that it is inside Find or Start.
Busy(c) == call[c].pc \notin {"idle", "open"}

\* Every variable keeps its type; the three records of a run exist together,
\* and before the call that works on it; a call waits for an operation there is.
TypeOK == /\ level \in [Variants -> Int]
          /\ ops \in Seq(Operation)
          /\ shown \in 0..Len(ops)
          /\ feed \in Feeds
          /\ late \in [1..MaxRuns -> Request]
          /\ lateQueries \subseteq 1..MaxRuns
          /\ rows \in Seq(Row) /\ Len(rows) <= MaxRuns
          /\ left \subseteq 1..Len(rows)
          /\ changes \in Seq(Seq(Change)) /\ Len(changes) = Len(rows)
          /\ landed \in Seq(SUBSET Update) /\ Len(landed) = Len(rows)
          /\ call \in [Callers -> Call]
          /\ \A c \in Callers : call[c].run <= Len(rows) /\ call[c].op <= Len(ops)
          /\ quiet \subseteq Callers
          /\ moves \in Nat /\ faults \in Nat

Init == /\ level \in [Variants -> Quantities]
        /\ ops = <<>> /\ shown = 0
        /\ feed \in Feeds
        /\ late = [r \in 1..MaxRuns |-> Nothing] /\ lateQueries = {}
        /\ rows = <<>> /\ changes = <<>> /\ landed = <<>> /\ left = {}
        /\ call = [c \in Callers |-> Idle]
        /\ quiet = {}
        /\ moves = 0 /\ faults = 0

-----------------------------------------------------------------------------
(***************************************************************************)
(* Failure.  A call fails because something broke, which is a fault, or    *)
(* because the caller's context is done, which is not.                     *)
(***************************************************************************)
Fault == faults < MaxFaults /\ faults' = faults + 1

Breaks(c) == \/ Fault
             \/ ~call[c].live /\ UNCHANGED faults

\* Slip: the updates that were planned are returned beside the error.
FailedWithUpdates(r) == [r EXCEPT !.pc = "closing", !.failed = TRUE]

\* reconcile returns an error and no updates.
Failed(r) == [r EXCEPT !.pc = "closing", !.failed = TRUE, !.updates = <<>>]

Fail(c) == call' = [call EXCEPT ![c] = Failed(call[c])]

-----------------------------------------------------------------------------
(***************************************************************************)
(* Opening: Find and Start, under the caller's context like everything     *)
(* that follows up to the closing.                                         *)
(***************************************************************************)
Begin(c) == /\ call[c].pc = "idle"
            /\ Len(rows) < MaxRuns
            /\ call' = [call EXCEPT ![c] = Fresh("open", 0)]
            /\ UNCHANGED <<shopify, feed, database, quiet, landed, left, moves, faults>>

\* Slip: the row is written on completion.
OpenWithoutRow(c) ==
    /\ call[c].pc = "open" /\ call[c].live
    /\ call' = [call EXCEPT ![c] = Fresh("feed", Len(rows) + 1)]
    /\ UNCHANGED <<shopify, feed, database, landed, left, quiet, moves, faults>>

NewRow(c) == /\ Len(rows) < MaxRuns
             /\ rows' = Append(rows, [trigger |-> Trigger(c), state |-> "open",
                                      checked |-> 0, updated |-> 0, failed |-> FALSE])
             /\ changes' = Append(changes, <<>>)
             /\ landed' = Append(landed, {})

\* Start answered: the row is there before the work begins.
Open(c) == /\ call[c].pc = "open" /\ call[c].live
           /\ NewRow(c)
           /\ call' = [call EXCEPT ![c] = Fresh("feed", Len(rows) + 1)]
           /\ UNCHANGED <<shopify, feed, quiet, left, moves, faults>>

\* The commit of Start went through, its answer did not arrive, or the context
\* ended with it in flight: Run returns an error and the row stays behind.
OpenLost(c) == /\ call[c].pc = "open"
               /\ NewRow(c)
               /\ Breaks(c)
               /\ call' = [call EXCEPT ![c] = Idle]
               /\ left' = left \cup {Len(rows) + 1}
               /\ UNCHANGED <<shopify, feed, quiet, moves>>

\* The store is not installed, or the row cannot be written: nothing happened.
OpenFails(c) == /\ call[c].pc = "open"
                /\ call' = [call EXCEPT ![c] = Idle]
                /\ UNCHANGED <<shopify, feed, database, quiet, landed, left, moves, faults>>

-----------------------------------------------------------------------------
(***************************************************************************)
(* reconcile: the warehouse first.                                         *)
(***************************************************************************)
ReadFeed(c) == /\ call[c].pc = "feed"
               /\ call' = [call EXCEPT ![c].pc = "list", ![c].stock = feed]
               /\ quiet' = quiet \cup {c}
               /\ UNCHANGED <<shopify, feed, database, landed, left, moves, faults>>

FeedFails(c) == /\ call[c].pc = "feed"
                /\ Breaks(c)
                /\ Fail(c)
                /\ UNCHANGED <<shopify, feed, database, quiet, landed, left, moves>>

-----------------------------------------------------------------------------
(***************************************************************************)
(* List: one bulk operation per store, and only Shopify keeps count.       *)
(***************************************************************************)
Running == \E i \in 1..Len(ops) : ops[i].status = "RUNNING"

StartOperation == ops' = Append(ops, [status |-> "RUNNING", lines |-> level])

BulkRun(c) == /\ call[c].pc = "list" /\ call[c].live
              /\ ~Running
              /\ StartOperation
              /\ call' = [call EXCEPT ![c].pc = "poll", ![c].op = Len(ops) + 1]
              /\ UNCHANGED <<level, shown, late, lateQueries, feed, database, quiet, landed,
                             left, moves, faults>>

\* Shopify answers with neither an operation nor userErrors, or with no data at
\* all: the code goes on without an id, whether an operation has started or not.
BulkRunUnnamed(c) ==
    /\ call[c].pc = "list" /\ call[c].live
    /\ Fault
    /\ \/ ~Running /\ StartOperation
       \/ UNCHANGED ops
    /\ call' = [call EXCEPT ![c].pc = "poll", ![c].op = 0]
    /\ UNCHANGED <<level, shown, late, lateQueries, feed, database, quiet, landed, left, moves>>

\* userErrors: "a bulk query is already running".
BulkRefused(c) == /\ call[c].pc = "list"
                  /\ Running
                  /\ Fail(c)
                  /\ UNCHANGED <<shopify, feed, database, quiet, landed, left, moves, faults>>

\* The answer did not arrive: the connection broke, or the context ended with
\* the request in flight.  Shopify may start the operation, now or later.
BulkRunLost(c) == /\ call[c].pc = "list"
                  /\ Breaks(c)
                  /\ Fail(c)
                  /\ lateQueries' = lateQueries \cup {call[c].run}
                  /\ UNCHANGED <<level, ops, shown, late, feed, database, quiet, landed, left,
                                 moves>>

ListFails(c) == /\ call[c].pc = "list"
                /\ Breaks(c)
                /\ Fail(c)
                /\ UNCHANGED <<shopify, feed, database, quiet, landed, left, moves>>

\* Slip: the answer of currentBulkOperation is taken for the caller's own.
PollAnyOperation(c) ==
    /\ call[c].pc = "poll" /\ call[c].live
    /\ shown # 0 /\ ops[shown].status = "COMPLETED"
    /\ \E u \in Diff(Items(ops[shown].lines), call[c].stock) :
         call' = [call EXCEPT ![c].pc = IF u = <<>> THEN "closing" ELSE "apply",
                              ![c].checked = Cardinality(Variants),
                              ![c].updates = u]
    /\ UNCHANGED <<shopify, feed, database, quiet, landed, left, moves, faults>>

\* awaitBulk looks for the operation it was given the id of; without an id any
\* operation will do.
Awaits(c) == shown # 0 /\ call[c].op \in {0, shown}

\* awaitBulk saw that operation completed; its file is read and Diff decides.
\* Nothing to update means nothing to apply.
Poll(c) ==
    /\ call[c].pc = "poll" /\ call[c].live
    /\ Awaits(c) /\ ops[shown].status = "COMPLETED"
    /\ \E u \in Diff(Items(ops[shown].lines), call[c].stock) :
         call' = [call EXCEPT ![c].pc = IF u = <<>> THEN "closing" ELSE "apply",
                              ![c].checked = Cardinality(Variants),
                              ![c].updates = u]
    /\ UNCHANGED <<shopify, feed, database, quiet, landed, left, moves, faults>>

\* Slip: the wait between two polls does not watch the context.
PollWithoutDeadline(c) ==
    /\ call[c].pc = "poll"
    /\ \/ shown = 0 /\ UNCHANGED faults
       \/ Awaits(c) /\ ops[shown].status = "FAILED" /\ UNCHANGED faults
       \/ Fault
    /\ Fail(c)
    /\ UNCHANGED <<shopify, feed, database, quiet, landed, left, moves>>

\* No operation on record ("vanished"), the awaited one failed, or a request
\* broke.  Any other answer means waiting, without end while the context lives.
PollFails(c) == /\ call[c].pc = "poll"
                /\ \/ shown = 0 /\ UNCHANGED faults
                   \/ Awaits(c) /\ ops[shown].status = "FAILED" /\ UNCHANGED faults
                   \/ Breaks(c)
                /\ Fail(c)
                /\ UNCHANGED <<shopify, feed, database, quiet, landed, left, moves>>

-----------------------------------------------------------------------------
(***************************************************************************)
(* Apply: batches in sequence, each carried out as a whole or refused.     *)
(***************************************************************************)
BatchEnd(c) == IF call[c].next + BatchSize - 1 < Len(call[c].updates)
               THEN call[c].next + BatchSize - 1
               ELSE Len(call[c].updates)

Batch(c) == {call[c].updates[n] : n \in call[c].next..BatchEnd(c)}

\* The mutation c has sent, or is about to send.
Sending(c) == [stock |-> call[c].stock, batch |-> Batch(c)]

\* Shopify carries out a batch of run r.
Land(r, batch) == /\ level' = [v \in Variants |->
                        IF \E u \in batch : u.item.id = v
                        THEN (CHOOSE u \in batch : u.item.id = v).new
                        ELSE level[v]]
                  /\ landed' = [landed EXCEPT ![r] = @ \cup batch]

\* Slip: the batches after the first are forgotten.
ApplyFirstBatch(c) ==
    /\ call[c].pc = "apply" /\ call[c].live
    /\ Land(call[c].run, Batch(c))
    /\ quiet' = quiet \cap {c}
    /\ call' = [call EXCEPT ![c].next = BatchEnd(c) + 1, ![c].pc = "closing"]
    /\ UNCHANGED <<ops, shown, late, lateQueries, feed, database, left, moves, faults>>

\* The code takes every answer without userErrors for "carried out".  That
\* Shopify sends none for a batch it did not carry out is assumed.
ApplyBatch(c) ==
    /\ call[c].pc = "apply" /\ call[c].live
    /\ Land(call[c].run, Batch(c))
    /\ quiet' = quiet \cap {c}
    /\ call' = [call EXCEPT ![c].next = BatchEnd(c) + 1,
                            ![c].pc = IF BatchEnd(c) = Len(call[c].updates)
                                      THEN "closing" ELSE "apply"]
    /\ UNCHANGED <<ops, shown, late, lateQueries, feed, database, left, moves, faults>>

\* Slip: a batch whose answer was lost is sent again.
ApplyLostAgain(c) ==
    /\ call[c].pc = "apply"
    /\ Breaks(c)
    /\ late' = [late EXCEPT ![call[c].run] = Sending(c)]
    /\ UNCHANGED <<level, ops, shown, lateQueries, feed, database, service, landed, left, moves>>

\* The answer to a batch did not arrive: the connection broke, or the context
\* ended with the request in flight.  Shopify may carry it out, now or later.
ApplyLost(c) ==
    /\ call[c].pc = "apply"
    /\ Breaks(c)
    /\ Fail(c)
    /\ late' = [late EXCEPT ![call[c].run] = Sending(c)]
    /\ UNCHANGED <<level, ops, shown, lateQueries, feed, database, quiet, landed, left, moves>>

ApplyFails(c) == /\ call[c].pc = "apply"
                 /\ Breaks(c)
                 /\ Fail(c)
                 /\ UNCHANGED <<shopify, feed, database, quiet, landed, left, moves>>

-----------------------------------------------------------------------------
(***************************************************************************)
(* Closing: one transaction with a context of its own.  What it writes is  *)
(* seen when it commits.                                                   *)
(***************************************************************************)
LogOf(updates) == [n \in 1..Len(updates) |->
    [sku |-> updates[n].item.sku, before |-> updates[n].item.quantity,
     after |-> updates[n].new]]

\* Slip: the log is written outside the transaction that closes the row.
LogChangesAtOnce(c) ==
    /\ call[c].pc = "closing" /\ ~call[c].failed
    /\ changes' = [changes EXCEPT ![call[c].run] = LogOf(call[c].updates)]
    /\ call' = [call EXCEPT ![c].pc = "logged"]
    /\ UNCHANGED <<shopify, feed, rows, quiet, landed, left, moves, faults>>

\* Inside the transaction: nothing to see yet.
LogChanges(c) == /\ call[c].pc = "closing" /\ ~call[c].failed
                 /\ call' = [call EXCEPT ![c].pc = "logged"]
                 /\ UNCHANGED <<shopify, feed, database, quiet, landed, left, moves, faults>>

ClosedRow(c) == [rows[call[c].run] EXCEPT !.state = "closed",
                   !.checked = call[c].checked,
                   !.updated = Len(call[c].updates),
                   !.failed = call[c].failed]

\* Slip: the update of sync_runs lost its where clause.
CloseEveryRow(c) ==
    /\ call[c].pc = IF call[c].failed THEN "closing" ELSE "logged"
    /\ rows' = [r \in 1..Len(rows) |-> ClosedRow(c)]
    /\ changes' = [changes EXCEPT ![call[c].run] = LogOf(call[c].updates)]
    /\ call' = [call EXCEPT ![c] = Idle]
    /\ quiet' = quiet \ {c}
    /\ UNCHANGED <<shopify, feed, landed, left, moves, faults>>

\* Slip: a context that is done refuses the closing transaction too.
CloseWithCallersContext(c) ==
    /\ call[c].pc = IF call[c].failed THEN "closing" ELSE "logged"
    /\ IF call[c].live
       THEN /\ rows' = [rows EXCEPT ![call[c].run] = ClosedRow(c)]
            /\ changes' = [changes EXCEPT ![call[c].run] = LogOf(call[c].updates)]
       ELSE UNCHANGED database
    /\ call' = [call EXCEPT ![c] = Idle]
    /\ quiet' = quiet \ {c}
    /\ UNCHANGED <<shopify, feed, landed, left, moves, faults>>

\* Finish and commit.  A failed run has no updates left and logs none.
Close(c) == /\ call[c].pc = IF call[c].failed THEN "closing" ELSE "logged"
            /\ rows' = [rows EXCEPT ![call[c].run] = ClosedRow(c)]
            /\ changes' = [changes EXCEPT ![call[c].run] = LogOf(call[c].updates)]
            /\ call' = [call EXCEPT ![c] = Idle]
            /\ quiet' = quiet \ {c}
            /\ UNCHANGED <<shopify, feed, landed, left, moves, faults>>

\* The transaction failed and is rolled back; Run writes a line to the log and
\* returns what it would have returned.
CloseFails(c) == /\ call[c].pc \in {"closing", "logged"}
                 /\ Fault
                 /\ call' = [call EXCEPT ![c] = Idle]
                 /\ quiet' = quiet \ {c}
                 /\ left' = left \cup {call[c].run}
                 /\ UNCHANGED <<shopify, feed, database, landed, moves>>

-----------------------------------------------------------------------------
(***************************************************************************)
(* Around Run.                                                             *)
(***************************************************************************)

\* The caller's context is done: the worker's ten minutes are over, or the
\* client of POST /sync went away.
Cancel(c) == /\ call[c].pc # "idle" /\ call[c].live
             /\ call' = [call EXCEPT ![c].live = FALSE]
             /\ UNCHANGED <<shopify, feed, database, quiet, landed, left, moves, faults>>

\* The process dies; PostgreSQL and Shopify keep what they have, and what was
\* on its way to Shopify may still arrive.
Crash == /\ \E c \in Callers : call[c].pc # "idle"
         /\ Fault
         /\ call' = [c \in Callers |-> Idle]
         /\ quiet' = {}
         /\ left' = left \cup {call[c].run : c \in {d \in Callers : Busy(d)}}
         /\ late' = [r \in 1..MaxRuns |->
                IF \E c \in Callers : call[c].pc = "apply" /\ call[c].run = r
                THEN Sending(CHOOSE c \in Callers : call[c].pc = "apply" /\ call[c].run = r)
                ELSE late[r]]
         /\ lateQueries' = lateQueries
                \cup {call[c].run : c \in {d \in Callers : call[d].pc = "list"}}
         /\ UNCHANGED <<level, ops, shown, feed, database, landed, moves>>

\* Shopify carries out what the code has given up.
LateBatch(r) == /\ late[r].batch # {}
                /\ Land(r, late[r].batch)
                /\ late' = [late EXCEPT ![r] = Nothing]
                /\ quiet' = {}
                /\ UNCHANGED <<ops, shown, lateQueries, feed, database, call, left, moves, faults>>

LateQuery(r) == /\ r \in lateQueries
                /\ ~Running
                /\ StartOperation
                /\ lateQueries' = lateQueries \ {r}
                /\ UNCHANGED <<level, shown, late, feed, database, service, landed, left, moves,
                               faults>>

\* Shopify ends the running operation; its file holds what it read on the way.
BulkEnds(status) == \E i \in 1..Len(ops) :
    /\ ops[i].status = "RUNNING"
    /\ ops' = [ops EXCEPT ![i] = [status |-> status, lines |-> level]]
    /\ UNCHANGED <<level, shown, late, lateQueries, feed, database, service, landed, left,
                   moves, faults>>

\* currentBulkOperation may go on answering with an earlier operation.
CatchUp == /\ shown < Len(ops)
           /\ shown' \in (shown + 1)..Len(ops)
           /\ UNCHANGED <<level, ops, late, lateQueries, feed, database, service, landed, left,
                          moves, faults>>

Move == moves < MaxMoves /\ moves' = moves + 1 /\ quiet' = {}

\* A sale, a return, a correction in the shop's admin.
Merchant(v, q) == /\ Move
                  /\ q # level[v]
                  /\ level' = [level EXCEPT ![v] = q]
                  /\ UNCHANGED <<ops, shown, late, lateQueries, feed, database, call, landed, left,
                                 faults>>

Warehouse(f) == /\ Move
                /\ f # feed
                /\ feed' = f
                /\ UNCHANGED <<shopify, database, call, landed, left, faults>>

-----------------------------------------------------------------------------
Opening(c) == Open(c) \/ OpenLost(c) \/ OpenFails(c)

Reconciling(c) == \/ ReadFeed(c) \/ FeedFails(c)
                  \/ BulkRun(c) \/ BulkRunUnnamed(c) \/ BulkRefused(c)
                  \/ BulkRunLost(c) \/ ListFails(c)
                  \/ Poll(c) \/ PollFails(c)
                  \/ ApplyBatch(c) \/ ApplyLost(c) \/ ApplyFails(c)

Closing(c) == LogChanges(c) \/ Close(c) \/ CloseFails(c)

Run(c) == Begin(c) \/ Opening(c) \/ Reconciling(c) \/ Closing(c) \/ Cancel(c)

Environment == \/ BulkEnds("COMPLETED") \/ BulkEnds("FAILED") \/ CatchUp
               \/ \E r \in 1..MaxRuns : LateBatch(r) \/ LateQuery(r)
               \/ \E v \in Variants, q \in Quantities : Merchant(v, q)
               \/ \E f \in Feeds : Warehouse(f)

Next == (\E c \in Callers : Run(c)) \/ Crash \/ Environment

Spec == Init /\ [][Next]_vars

\* A call of Run keeps running; Shopify ends its operations and
\* in time answers with the latest; the worker's deadline comes.  Nobody owes a
\* sync, a fault, a move, a client that goes away, or an end to what was given up.
Fairness == /\ \A c \in Callers : WF_vars(Opening(c) \/ Reconciling(c) \/ Closing(c))
            /\ WF_vars(BulkEnds("COMPLETED") \/ BulkEnds("FAILED"))
            /\ WF_vars(CatchUp)
            /\ WF_vars(Cancel(Worker))

FairSpec == Spec /\ Fairness

-----------------------------------------------------------------------------
(***************************************************************************)
(* Properties                                                              *)
(***************************************************************************)
Entries(log) == {log[n] : n \in 1..Len(log)}
Logged(us)   == {[sku |-> u.item.sku, before |-> u.item.quantity, after |-> u.new] : u \in us}

Succeeded(row) == row.state = "closed" /\ ~row.failed

\* "A row claiming twelve SKUs changed while storing only seven of them is
\* worse than storing nothing": a run's row counts exactly the changes the log
\* holds for it, and no run that is open or failed has any, wherever the
\* closing transaction stopped.
ClaimMatchesLog == \A r \in 1..Len(rows) :
    /\ rows[r].updated = Len(changes[r])
    /\ ~Succeeded(rows[r]) => changes[r] = <<>>

\* The log of a run that succeeded says what Shopify carried out for it, no
\* more and no less, across batches, lost answers and concurrent runs.
LogMatchesStore == \A r \in 1..Len(rows) :
    Succeeded(rows[r]) => Entries(changes[r]) = Logged(landed[r])

\* History is final: a closed row and its log never change again.
ClosedRowsAreFinal ==
    [][\A r \in 1..Len(rows) : rows[r].state = "closed" =>
          rows'[r] = rows[r] /\ changes'[r] = changes[r]]_vars

\* A row without a finished_at belongs to a run that is still going, or was left
\* behind where the code has no way to reach it: the answer of Start did not
\* arrive, the closing transaction failed, the process died.  Whatever else ends
\* a run closes its row, a feed, a listing or a batch that fails and a context
\* that expired after Start included.
OpenRowHasRun == \A r \in 1..Len(rows) : rows[r].state = "open" =>
    \/ \E c \in Callers : Busy(c) /\ call[c].run = r
    \/ r \in left

\* What Shopify may be carrying out.
UnderWay == {Sending(c) : c \in {d \in Callers : call[d].pc = "apply"}}
            \cup {late[r] : r \in {k \in 1..MaxRuns : late[k].batch # {}}}

\* Apart from the merchant nobody changes a quantity, except a batch that sets
\* it to what the feed its run read says of that very SKU: an unknown SKU is
\* never written, whatever Shopify answers, whoever runs at the same time, and
\* however late the batch is carried out.
WritesComeFromFeed ==
    [][level' # level /\ moves' = moves =>
         \E q \in UnderWay : \A v \in Variants : level'[v] # level[v] =>
             /\ SkuOf[v] \in DOMAIN q.stock
             /\ level'[v] = Wanted(q.stock, SkuOf[v])]_vars

\* The warehouse can speak for a variant: it has a SKU and the feed names it.
Known(v, stock) == SkuOf[v] \in DOMAIN stock \ {Blank}

\* A run that was told the id of its operation and succeeds, and whose store and
\* feed nobody else touched since it read the feed, leaves every SKU it knows at
\* the warehouse's quantity: it decided on its own, fresh listing and left out
\* no batch.  (Without an id awaitBulk takes any completed operation, and
\* yesterday's listing reconciles nothing.)
SuccessMeansReconciled == \A c \in quiet :
    call[c].pc \in {"closing", "logged"} /\ ~call[c].failed /\ call[c].op # 0 =>
        \A v \in Variants : Known(v, call[c].stock) =>
            level[v] = Wanted(call[c].stock, SkuOf[v])

\* currentBulkOperation answers for the store, not for the caller: whatever it
\* says, and however many calls wait at once, a run that was told the id of its
\* operation writes on the completed listing of that operation, and on no
\* other's, and no two runs were told the same id.
ActsOnOwnListing == \A c \in Callers : call[c].pc = "apply" /\ call[c].op # 0 =>
    /\ ops[call[c].op].status = "COMPLETED"
    /\ call[c].updates \in Diff(Items(ops[call[c].op].lines), call[c].stock)
    /\ \A d \in Callers \ {c} :
         call[d].pc \in {"poll", "apply"} => call[d].op # call[c].op

\* A quantity is set, not compared: setting it a second time would undo a sale
\* made in between.  A run sets an item at most once, also when the answer to
\* a batch was lost: what is still to be sent names no item already set, and
\* neither does the batch it has given up and Shopify may still carry out.
EachItemOnce ==
    /\ \A c \in Callers : call[c].pc = "apply" =>
         \A n \in call[c].next..Len(call[c].updates), u \in landed[call[c].run] :
             u.item.id # call[c].updates[n].item.id
    /\ \A r \in 1..Len(rows) : \A u \in late[r].batch, w \in landed[r] :
         u.item.id # w.item.id

\* The history, as SyncLedger has it.
Recorded(r) == [state |-> IF rows[r].state = "open" THEN "open"
                          ELSE IF rows[r].failed THEN "failed" ELSE "succeeded",
                log |-> changes[r]]

\* Runs that still work on the store, and runs that stopped with a batch sent.
Active == {call[c].run : c \in {d \in Callers : Busy(d) /\ ~call[d].failed}}
Due    == {r \in 1..MaxRuns : late[r].batch # {}}

Book == INSTANCE SyncLedger
    WITH history <- [r \in 1..Len(rows) |-> Recorded(r)], done <- landed,
         active <- Active, due <- Due

\* Whoever reads the history may trust a success: the run concluded once, after
\* all its writes, and its log is what it did, for good.  A run that failed or
\* was lost claims nothing, and the store sees at most one more batch of it.
ImplementsLedger == Book!Spec

IsOpen(r, trigger) ==
    r <= Len(rows) /\ rows[r].trigger = trigger /\ rows[r].state = "open"
IsClosed(r) == r <= Len(rows) /\ rows[r].state = "closed"

Closes(trigger) == \A r \in 1..MaxRuns :
    IsOpen(r, trigger) ~> (IsClosed(r) \/ r \in left)

\* Every run the worker starts gets its finished_at, however Shopify behaves,
\* and whatever request or answer is lost on the way: its deadline ends the
\* waiting.  Only a row that OpenRowHasRun excuses stays open.
WorkerRowsClose == Closes("webhook")

-----------------------------------------------------------------------------
(***************************************************************************)
(* What the repository says and the code does not do.                      *)
(***************************************************************************)

\* README, "What it does": "records every sync run and every individual
\* quantity change".  A batch that landed before its run failed is in no log.
EveryChangeIsLogged == \A r \in 1..Len(rows) :
    rows[r].state = "closed" => Logged(landed[r]) \subseteq Entries(changes[r])

\* awaitBulk: another operation on record is "the previous one", to be waited
\* for.  It can be a later one, and then the waiting never ends for a caller
\* without a deadline.
ManualRowsClose == Closes("manual")
=============================================================================
