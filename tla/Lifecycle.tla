------------------------------ MODULE Lifecycle ------------------------------
(***************************************************************************)
(* One process from start to exit (cmd/api/main.go): the webhook queue of  *)
(* SyncQueue, the sync its worker is in, and the syncs that POST /sync     *)
(* runs, over one pool of PostgreSQL connections.                          *)
(*                                                                         *)
(* A sync is a job: it opens its history row in a transaction, works       *)
(* without a connection for as long as feed and Shopify take, and closes   *)
(* the row in another transaction.  What SyncRun does between the two is   *)
(* one step here; what ends the process in between is the subject.         *)
(***************************************************************************)
EXTENDS SyncQueue

CONSTANTS Clients,    \* requests of POST /sync that may run at once
          Background, \* the job of the queue's worker
          MaxConns    \* connections of the pool, 10 in database.Open

Jobs == Clients \cup {Background}

ASSUME JobsAssumption  == Background \notin Clients
ASSUME ConnsAssumption == MaxConns \in Nat \ {0}

VARIABLES main,     \* where run of main.go is
          job,      \* what each job is doing
          stranded, \* history: jobs that ended with their row left open
          trouble   \* history: a crash, a sync longer than Shutdown waits, or
                    \* PostgreSQL silent when a transaction needed it

queueVars   == <<queue, waiting, handler, worker, life, owed>>
processVars == <<main, job, stranded, trouble>>
allVars     == <<queueVars, processVars>>

NoJob == [pc |-> "idle", conn |-> FALSE, live |-> TRUE]

JobStates == [pc : {"idle", "opening", "working", "closing"},
              conn : BOOLEAN,      \* holds a connection of the pool
              live : BOOLEAN]      \* its context is not done

Connected == {j \in Jobs : job[j].conn}
RowOpen == {j \in Jobs : job[j].pc \in {"working", "closing"}}

\* Every variable keeps its type, and the pool its limit; connections are held
\* by transactions only, and the worker's job exists while the worker syncs.
ProcessTypeOK ==
    /\ main \in {"serving", "draining", "drained", "stopping", "closing", "down"}
    /\ job \in [Jobs -> JobStates]
    /\ Cardinality(Connected) <= MaxConns
    /\ \A j \in Connected : job[j].pc \in {"opening", "closing"}
    /\ stranded \subseteq Jobs
    /\ trouble \in BOOLEAN
    /\ job[Background].pc # "idle" <=> worker.pc = "syncing"
    /\ life = CASE main \in {"serving", "draining", "drained"} -> "running"
                [] main \in {"stopping", "closing"} -> "stopping"
                [] OTHER -> "down"

ProcessInit == /\ Init
               /\ main = "serving"
               /\ job = [j \in Jobs |-> NoJob]
               /\ stranded = {}
               /\ trouble = FALSE

-----------------------------------------------------------------------------
(***************************************************************************)
(* The life of a job.                                                      *)
(***************************************************************************)

\* Run returned: to the handler that answers, or to the worker's loop.
RunReturns(j) == /\ job' = [job EXCEPT ![j] = NoJob]
                 /\ IF j = Background THEN WorkerDone ELSE UNCHANGED queueVars

\* POST /sync reaches SyncService.Run with the request's context.
Request(j) == /\ main = "serving" /\ j \in Clients /\ job[j].pc = "idle"
              /\ job' = [job EXCEPT ![j].pc = "opening"]
              /\ UNCHANGED <<queueVars, main, stranded, trouble>>

\* The worker calls Run with ten minutes of the lifetime's context, which is
\* done from the start if the lifetime is.
WorkerCalls == /\ WorkerRelease
               /\ job' = [job EXCEPT ![Background] =
                            [pc |-> "opening", conn |-> FALSE, live |-> life = "running"]]
               /\ UNCHANGED <<main, stranded, trouble>>

PoolOpen == main \in {"serving", "draining", "drained", "stopping"}

\* Slip: a pool without a ceiling.
AcquireUnbounded(j) ==
    /\ job[j].pc \in {"opening", "closing"} /\ ~job[j].conn
    /\ PoolOpen
    /\ job[j].pc = "opening" => job[j].live
    /\ job' = [job EXCEPT ![j].conn = TRUE]
    /\ UNCHANGED <<queueVars, main, stranded, trouble>>

\* pool.Begin: waits for a free connection, refuses a context that is done.  The
\* closing transaction has a context of its own, which is not.
Acquire(j) == /\ job[j].pc \in {"opening", "closing"} /\ ~job[j].conn
              /\ PoolOpen
              /\ Cardinality(Connected) < MaxConns
              /\ job[j].pc = "opening" => job[j].live
              /\ job' = [job EXCEPT ![j].conn = TRUE]
              /\ UNCHANGED <<queueVars, main, stranded, trouble>>

\* The row is there; its connection goes back before the work begins.
OpenCommits(j) == /\ job[j].pc = "opening" /\ job[j].conn /\ job[j].live
                  /\ job' = [job EXCEPT ![j].pc = "working", ![j].conn = FALSE]
                  /\ UNCHANGED <<queueVars, main, stranded, trouble>>

\* No such store, an error of PostgreSQL, a pool that is closed, a context that
\* is done: nothing was written.
OpenFails(j) == /\ job[j].pc = "opening"
                /\ RunReturns(j)
                /\ UNCHANGED <<main, stranded, trouble>>

\* The commit went through and its answer did not arrive, or the context ended
\* with it in flight: Run returns an error and the row stays.
OpenLost(j) == /\ job[j].pc = "opening" /\ job[j].conn
               /\ RunReturns(j)
               /\ stranded' = stranded \cup {j}
               /\ trouble' = TRUE
               /\ UNCHANGED main

\* reconcile returned, with a result or an error.
WorkEnds(j) == /\ job[j].pc = "working"
               /\ job' = [job EXCEPT ![j].pc = "closing"]
               /\ UNCHANGED <<queueVars, main, stranded, trouble>>

CloseCommits(j) == /\ job[j].pc = "closing" /\ job[j].conn
                   /\ RunReturns(j)
                   /\ UNCHANGED <<main, stranded, trouble>>

\* The ten seconds of the closing context are over, without a connection or
\* without an answer.
CloseTimesOut(j) == /\ job[j].pc = "closing"
                    /\ job[j].conn \/ Cardinality(Connected) = MaxConns
                    /\ RunReturns(j)
                    /\ stranded' = stranded \cup {j}
                    /\ trouble' = TRUE
                    /\ UNCHANGED main

\* A closed pool hands out no connection.
CloseRefused(j) == /\ job[j].pc = "closing" /\ ~job[j].conn
                   /\ ~PoolOpen
                   /\ RunReturns(j)
                   /\ stranded' = stranded \cup {j}
                   /\ UNCHANGED <<main, trouble>>

ContextEnds(j) == /\ job[j].pc # "idle" /\ job[j].live
                  /\ job' = [job EXCEPT ![j].live = FALSE]
                  /\ UNCHANGED <<queueVars, main, stranded, trouble>>

\* The client of POST /sync went away.
HangUp(j) == j \in Clients /\ ContextEnds(j)

\* Slip: the worker passes the lifetime's context on.
NoDeadline == main = "stopping" /\ ContextEnds(Background)

\* The worker's ten minutes are over.
Deadline == ContextEnds(Background)

-----------------------------------------------------------------------------
(***************************************************************************)
(* run of main.go, from the signal on.  Shutdown closes the listener, then *)
(* waits for the requests in flight, but no longer than 30 seconds; the    *)
(* deferred calls follow in reverse order: stopWorkers, db.Close, which    *)
(* waits for the connections in use.                                       *)
(***************************************************************************)
Quiet == /\ \A h \in Handlers : handler[h].pc = "idle"
         /\ \A j \in Clients : job[j].pc = "idle"

Signal == /\ main = "serving"
          /\ main' = "draining"
          /\ UNCHANGED <<queueVars, job, stranded, trouble>>

\* Slip: server.Close instead of Shutdown, which waits for nobody.
DrainedAtOnce == /\ main = "draining"
                 /\ main' = "drained"
                 /\ UNCHANGED <<queueVars, job, stranded, trouble>>

Drained == /\ main = "draining"
           /\ Quiet
           /\ main' = "drained"
           /\ UNCHANGED <<queueVars, job, stranded, trouble>>

\* Slip: Shutdown with the background context.
DrainForever == /\ main = "draining"
                /\ Quiet
                /\ main' = "drained"
                /\ UNCHANGED <<queueVars, job, stranded, trouble>>

DrainTimesOut == /\ main = "draining"
                 /\ ~Quiet
                 /\ main' = "drained"
                 /\ trouble' = TRUE
                 /\ UNCHANGED <<queueVars, job, stranded>>

StopWorkers == /\ main = "drained"
               /\ Stop
               /\ main' = "stopping"
               /\ job' = [job EXCEPT ![Background].live = (job[Background].pc = "idle")]
               /\ UNCHANGED <<stranded, trouble>>

ClosePool == /\ main = "stopping"
             /\ main' = "closing"
             /\ UNCHANGED <<queueVars, job, stranded, trouble>>

\* The process is gone, and every job with it.
End == /\ Exit
       /\ main' = "down"
       /\ job' = [j \in Jobs |-> NoJob]

Leave == /\ main = "closing" /\ Connected = {}
         /\ End
         /\ stranded' = stranded \cup RowOpen
         /\ UNCHANGED trouble

\* Anything else that ends a process, a listener that fails included.  Whether a
\* commit in flight went through is PostgreSQL's to say.
Crash == /\ main # "down"
         /\ End
         /\ \E unknown \in SUBSET Connected :
              stranded' = stranded \cup (RowOpen \ Connected) \cup unknown
         /\ trouble' = TRUE

\* database.Open, migrate, Build with StartWorker, and the listener.
Boot == /\ main = "down"
        /\ Start
        /\ main' = "serving"
        /\ UNCHANGED <<job, stranded, trouble>>

-----------------------------------------------------------------------------
Transaction(j) == \/ Acquire(j)
                  \/ OpenCommits(j) \/ OpenFails(j) \/ OpenLost(j)
                  \/ CloseCommits(j) \/ CloseTimesOut(j) \/ CloseRefused(j)

JobStep(j) == Request(j) \/ Transaction(j) \/ WorkEnds(j) \/ HangUp(j)

ShuttingDown == Drained \/ DrainTimesOut \/ StopWorkers \/ ClosePool \/ Leave

Main == Signal \/ ShuttingDown \/ Crash \/ Boot

\* The queue's own steps; new webhooks come while the listener is open.
Receive == main = "serving" /\ \E h \in Handlers, d \in Shops : Webhook(h, d)
Queueing(h) == HandlerStep(h) /\ UNCHANGED processVars
WorkerLoop == (WorkerTake \/ WorkerStop) /\ UNCHANGED processVars

ProcessNext == \/ Receive /\ UNCHANGED processVars
               \/ \E h \in Handlers : Queueing(h)
               \/ WorkerLoop \/ WorkerCalls \/ Deadline
               \/ \E j \in Jobs : JobStep(j)
               \/ Main

ProcessSpec == ProcessInit /\ [][ProcessNext]_allVars

\* Goroutines run; PostgreSQL answers or times out; the worker's deadline comes,
\* and work whose context is done ends.  Nothing ends the work of a client that
\* keeps waiting.
ProcessFairness ==
    /\ \A h \in Handlers : WF_allVars(Queueing(h))
    /\ WF_allVars(WorkerLoop \/ WorkerCalls)
    /\ WF_allVars(Deadline)
    /\ \A j \in Jobs : /\ WF_allVars(Transaction(j))
                       /\ WF_allVars(WorkEnds(j) /\ ~job[j].live)
    /\ WF_allVars(ShuttingDown)

FairProcessSpec == ProcessSpec /\ ProcessFairness

-----------------------------------------------------------------------------
(***************************************************************************)
(* Properties                                                              *)
(***************************************************************************)

\* A stop signal alone strands no manual sync: Shutdown waits for its handler
\* before stopWorkers and db.Close take the ground from under it, also when its
\* client has gone and its context with it.
ManualSyncsFinish == ~trouble => stranded \subseteq {Background}

\* After a signal the process ends, though a sync may hang and a client may wait
\* for it for ever: Shutdown gives up, and db.Close waits for transactions only.
ShutdownEnds == main = "draining" ~> main = "down"

\* The process implements the queue with the fairness the queue assumed: every
\* sync of the worker ends, because its ten minutes do and closing has ten
\* seconds, whatever the other jobs do to the pool.
ImplementsQueue == FairSpec

\* main.go: "give the sync in flight time to finish. A sync cut off midway leaves
\* a store half updated, and a history row that never gets closed".  Shutdown
\* waits for handlers; the worker's sync is cut off.
NoSyncIsCutOff == ~trouble => stranded = {}
=============================================================================
