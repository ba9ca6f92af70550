------------------------------ MODULE SyncQueue ------------------------------
(***************************************************************************)
(* The path of a webhook-triggered sync inside one process:                *)
(*                                                                         *)
(*   WebhookHandler.InventoryLevelsUpdate -> SyncService.Enqueue           *)
(*     -> the buffered channel -> the worker of SyncService.StartWorker    *)
(*                                                                         *)
(* Handlers run concurrently, one goroutine per request.  Enqueue takes    *)
(* the mutex for its check-and-mark, lets go of it, and only then offers   *)
(* the store to the channel, so that everything may happen in between.     *)
(* The worker's sync itself is SyncRun.tla; here it has a start and an end.*)
(***************************************************************************)
EXTENDS Integers, Sequences, FiniteSets

CONSTANTS Shops,      \* the stores webhooks arrive for
          Handlers,   \* requests that can be in flight at once
          QueueCap,   \* the channel's buffer, 16 in NewSyncService
          NoShop

ASSUME CapAssumption   == QueueCap \in Nat \ {0}
ASSUME ShopsAssumption == IsFiniteSet(Shops) /\ NoShop \notin Shops

VARIABLES queue,    \* the channel's buffer
          waiting,  \* the keys of the waiting map
          handler,  \* where each request is inside Enqueue
          worker,   \* where the worker is
          life,     \* "running", "stopping" (lifetime cancelled) or "down"
          owed      \* history: stores with a webhook no sync has started after

vars == <<queue, waiting, handler, worker, life, owed>>

Idle == [pc |-> "idle", shop |-> NoShop]

HandlerStates == [pc : {"idle", "marked", "full"}, shop : Shops \cup {NoShop}]
WorkerStates  == [pc : {"idle", "taken", "syncing", "stopped"},
                  shop : Shops \cup {NoShop}]

\* Every variable keeps its type: the channel never holds more than its buffer.
TypeOK == /\ queue \in Seq(Shops) /\ Len(queue) <= QueueCap
          /\ waiting \subseteq Shops
          /\ handler \in [Handlers -> HandlerStates]
          /\ worker \in WorkerStates
          /\ life \in {"running", "stopping", "down"}
          /\ owed \subseteq Shops

Init == /\ queue = <<>>
        /\ waiting = {}
        /\ handler = [h \in Handlers |-> Idle]
        /\ worker = Idle
        /\ life = "running"
        /\ owed = {}

-----------------------------------------------------------------------------
(***************************************************************************)
(* Enqueue.  A webhook counts as owed from the locked check on: whichever  *)
(* way Enqueue goes, the handler answers 202 "Sync queued.".               *)
(***************************************************************************)

Move(h, pc, d) == handler' = [handler EXCEPT ![h] = [pc |-> pc, shop |-> d]]
Return(h)      == handler' = [handler EXCEPT ![h] = Idle]

\* The store is already marked: nothing to do.
EnqueueSkip(h, d) ==
    /\ life # "down" /\ handler[h].pc = "idle"
    /\ d \in waiting
    /\ owed' = owed \cup {d}
    /\ UNCHANGED <<queue, waiting, handler, worker, life>>

\* Slip: the check and the mark no longer under one lock, the check lost.
EnqueueMarkUnchecked(h, d) ==
    /\ life # "down" /\ handler[h].pc = "idle"
    /\ waiting' = waiting \cup {d}
    /\ owed' = owed \cup {d}
    /\ Move(h, "marked", d)
    /\ UNCHANGED <<queue, worker, life>>

EnqueueMark(h, d) ==
    /\ life # "down" /\ handler[h].pc = "idle"
    /\ d \notin waiting
    /\ waiting' = waiting \cup {d}
    /\ owed' = owed \cup {d}
    /\ Move(h, "marked", d)
    /\ UNCHANGED <<queue, worker, life>>

\* Slip: the newest store goes to the front.
EnqueueSendFront(h) ==
    /\ life # "down" /\ handler[h].pc = "marked"
    /\ Len(queue) < QueueCap
    /\ queue' = <<handler[h].shop>> \o queue
    /\ Return(h)
    /\ UNCHANGED <<waiting, worker, life, owed>>

\* Slip: a buffer that grows instead of refusing.
EnqueueSendUnbounded(h) ==
    /\ life # "down" /\ handler[h].pc = "marked"
    /\ queue' = Append(queue, handler[h].shop)
    /\ Return(h)
    /\ UNCHANGED <<waiting, worker, life, owed>>

EnqueueSend(h) ==
    /\ life # "down" /\ handler[h].pc = "marked"
    /\ Len(queue) < QueueCap
    /\ queue' = Append(queue, handler[h].shop)
    /\ Return(h)
    /\ UNCHANGED <<waiting, worker, life, owed>>

\* The select's default case: the buffer was full when the send was tried.
EnqueueFull(h) ==
    /\ life # "down" /\ handler[h].pc = "marked"
    /\ Len(queue) = QueueCap
    /\ Move(h, "full", handler[h].shop)
    /\ UNCHANGED <<queue, waiting, worker, life, owed>>

\* Slip: the mark of a dropped request is not released.
EnqueueDropMarked(h) ==
    /\ life # "down" /\ handler[h].pc = "full"
    /\ Return(h)
    /\ UNCHANGED <<queue, waiting, worker, life, owed>>

\* release, in the default case.
EnqueueDrop(h) ==
    /\ life # "down" /\ handler[h].pc = "full"
    /\ waiting' = waiting \ {handler[h].shop}
    /\ Return(h)
    /\ UNCHANGED <<queue, worker, life, owed>>

-----------------------------------------------------------------------------
(***************************************************************************)
(* The worker.  Its select may still take a store after the lifetime was   *)
(* cancelled: with both cases ready Go picks either.                       *)
(***************************************************************************)

WorkerTake ==
    /\ life # "down" /\ worker.pc = "idle"
    /\ queue # <<>>
    /\ worker' = [pc |-> "taken", shop |-> Head(queue)]
    /\ queue' = Tail(queue)
    /\ UNCHANGED <<waiting, handler, life, owed>>

\* Slip: the mark outlives the start of the sync (and WorkerDone, which does
\* not release, leaves it behind).
WorkerReleaseLate ==
    /\ life # "down" /\ worker.pc = "taken"
    /\ worker' = [worker EXCEPT !.pc = "syncing"]
    /\ owed' = owed \ {worker.shop}
    /\ UNCHANGED <<queue, waiting, handler, life>>

\* release, then Run: from here on a webhook can queue the next sync.
WorkerRelease ==
    /\ life # "down" /\ worker.pc = "taken"
    /\ waiting' = waiting \ {worker.shop}
    /\ owed' = owed \ {worker.shop}
    /\ worker' = [worker EXCEPT !.pc = "syncing"]
    /\ UNCHANGED <<queue, handler, life>>

\* Slip: the mark is released when the sync is over, too.
WorkerDoneReleases ==
    /\ life # "down" /\ worker.pc = "syncing"
    /\ worker' = Idle
    /\ waiting' = waiting \ {worker.shop}
    /\ UNCHANGED <<queue, handler, life, owed>>

\* Slip: one store's sync never returns.
WorkerDoneNever ==
    /\ life = "stopping" /\ worker.pc = "syncing"
    /\ worker' = Idle
    /\ UNCHANGED <<queue, waiting, handler, life, owed>>

\* Run returned, one way or the other, at the latest when its deadline passed.
WorkerDone ==
    /\ life # "down" /\ worker.pc = "syncing"
    /\ worker' = Idle
    /\ UNCHANGED <<queue, waiting, handler, life, owed>>

WorkerStop ==
    /\ life = "stopping" /\ worker.pc = "idle"
    /\ worker' = [pc |-> "stopped", shop |-> NoShop]
    /\ UNCHANGED <<queue, waiting, handler, life, owed>>

-----------------------------------------------------------------------------
(***************************************************************************)
(* The process.  stopWorkers cancels the lifetime, possibly with handlers  *)
(* still running (Shutdown gives up after 30 seconds).  The process may    *)
(* end at any moment; queue and marks are in memory and end with it.       *)
(***************************************************************************)

Stop == /\ life = "running"
        /\ life' = "stopping"
        /\ UNCHANGED <<queue, waiting, handler, worker, owed>>

Exit == /\ life # "down"
        /\ life' = "down"
        /\ queue' = <<>>
        /\ waiting' = {}
        /\ handler' = [h \in Handlers |-> Idle]
        /\ worker' = Idle
        /\ owed' = {}

Start == /\ life = "down"
         /\ life' = "running"
         /\ UNCHANGED <<queue, waiting, handler, worker, owed>>

-----------------------------------------------------------------------------
HandlerStep(h) == EnqueueSend(h) \/ EnqueueFull(h) \/ EnqueueDrop(h)

Webhook(h, d) == EnqueueSkip(h, d) \/ EnqueueMark(h, d)

Worker == WorkerTake \/ WorkerRelease \/ WorkerDone \/ WorkerStop

Next == \/ \E h \in Handlers, d \in Shops : Webhook(h, d)
        \/ \E h \in Handlers : HandlerStep(h)
        \/ Worker
        \/ Stop \/ Exit \/ Start

\* Goroutines get to run, and a sync ends: Run is called with a ten-minute
\* deadline.  Webhooks, signals and crashes are owed by nobody.
Fairness == /\ WF_vars(Worker)
            /\ \A h \in Handlers : WF_vars(HandlerStep(h))

Spec     == Init /\ [][Next]_vars
FairSpec == Spec /\ Fairness

-----------------------------------------------------------------------------
(***************************************************************************)
(* Properties                                                              *)
(***************************************************************************)

Marking(h, d) == handler[h].pc \in {"marked", "full"} /\ handler[h].shop = d
Queued(d)     == \E i \in 1..Len(queue) : queue[i] = d
Taken(d)      == worker.pc = "taken" /\ worker.shop = d

\* A mark in the waiting map stands for exactly one thing that will release it:
\* a handler inside Enqueue, an entry of the channel, or the worker between
\* taking the store and releasing it.  A mark that stands for nothing would
\* keep its store from ever being queued again; two things on one mark would
\* sync the store twice for one wave of webhooks.
MarkCovered == \A d \in Shops :
    d \in waiting <=> Queued(d) \/ Taken(d) \/ \E h \in Handlers : Marking(h, d)

NoDoubleEntry == \A i, j \in 1..Len(queue) : queue[i] = queue[j] => i = j

OneHolder == \A d \in Shops :
    /\ ~(Queued(d) /\ Taken(d))
    /\ \A h \in Handlers : Marking(h, d) =>
         /\ ~Queued(d) /\ ~Taken(d)
         /\ \A g \in Handlers : Marking(g, d) => g = h

\* Together: one mark, one outstanding request.
OneTokenPerMark == MarkCovered /\ NoDoubleEntry /\ OneHolder

\* With a place in the channel for every store nothing is ever dropped...
HasRoom == Cardinality(Shops) <= QueueCap
NeverFull == HasRoom => \A h \in Handlers : handler[h].pc # "full"

\* ... so every webhook answered 202 is still waiting for the sync it was
\* promised, until one starts: no interleaving of handlers with the worker
\* loses a stock change that arrives while its store is being synced.
OwedIsWaiting == HasRoom => owed \subseteq waiting

\* What httpx.Accepted promises of every 202, "it is queued", whatever the
\* number of stores: once the handlers of a store have returned, a store with
\* an unserved webhook is in the queue or in the worker's hands.
AcceptedIsQueued == \A d \in owed :
    \/ Queued(d) \/ Taken(d)
    \/ \E h \in Handlers : Marking(h, d)

\* Whatever the handlers do, no mark is stuck: a marked store is released, by
\* the worker or by the handler that found the channel full, while the process
\* runs.
MarkIsCleared == \A d \in Shops : d \in waiting ~> (d \notin waiting \/ life # "running")

\* A store in the channel is synced, however many webhooks of other stores
\* arrive after it.
QueuedIsServed == \A d \in Shops :
    Queued(d) ~> ((worker.pc = "syncing" /\ worker.shop = d) \/ life # "running")

\* The queue implements SyncRequests: a store is owed a sync while it is
\* marked, active while the worker runs its sync, and a request is lost only
\* where there are more stores than places.
Requests == INSTANCE SyncRequests
    WITH due <- waiting,
         active <- IF worker.pc = "syncing" THEN worker.shop ELSE NoShop,
         Lossy <- ~HasRoom

ImplementsRequests == Requests!Spec

\* While the process runs and there is room, the queue also serves every store
\* that is owed a sync: none is passed over for ever.
ServesRequests == HasRoom /\ <>[](life = "running") => Requests!Serving
=============================================================================
