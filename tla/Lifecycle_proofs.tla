-------------------------- MODULE Lifecycle_proofs --------------------------
(***************************************************************************)
(* Proofs about Lifecycle, for any number of stores, handlers, clients and *)
(* connections.  The process is shown to implement the webhook queue, so   *)
(* that what SyncQueue_proofs proves of the queue holds of the process.    *)
(***************************************************************************)
EXTENDS Lifecycle, SyncQueue_proofs

-----------------------------------------------------------------------------
(***************************************************************************)
(* The process implements the queue, step by step.                         *)
(***************************************************************************)

LEMMA JobStepsQueue == \A j \in Jobs : JobStep(j) => [Next]_vars
<1> SUFFICES ASSUME NEW j \in Jobs, JobStep(j) PROVE [Next]_vars
    OBVIOUS
<1>1. RunReturns(j) => [Next]_vars
    BY DEF RunReturns, Next, Worker, vars, queueVars
<1>2. CASE Request(j) \/ Acquire(j) \/ OpenCommits(j) \/ WorkEnds(j) \/ HangUp(j)
    BY <1>2 DEF Request, Acquire, OpenCommits, WorkEnds, HangUp, ContextEnds, vars, queueVars
<1>3. CASE OpenFails(j) \/ OpenLost(j) \/ CloseCommits(j) \/ CloseTimesOut(j) \/ CloseRefused(j)
    BY <1>1, <1>3 DEF OpenFails, OpenLost, CloseCommits, CloseTimesOut, CloseRefused
<1>4. QED BY <1>2, <1>3 DEF JobStep, Transaction

LEMMA MainStepsQueue == Main => [Next]_vars
<1> SUFFICES ASSUME Main PROVE [Next]_vars
    OBVIOUS
<1>1. CASE Signal \/ Drained \/ DrainTimesOut \/ ClosePool
    BY <1>1 DEF Signal, Drained, DrainTimesOut, ClosePool, vars, queueVars
<1>2. CASE StopWorkers \/ Boot
    BY <1>2 DEF StopWorkers, Boot, Next
<1>3. CASE Leave \/ Crash
    BY <1>3 DEF Leave, Crash, End, Next
<1>4. QED BY <1>1, <1>2, <1>3 DEF Main, ShuttingDown

LEMMA ProcessStepsQueue == [ProcessNext]_allVars => [Next]_vars
<1> SUFFICES ASSUME [ProcessNext]_allVars PROVE [Next]_vars
    OBVIOUS
<1>1. CASE Receive
    BY <1>1 DEF Receive, Next
<1>2. CASE \E h \in Handlers : Queueing(h)
    BY <1>2 DEF Queueing, Next
<1>3. CASE WorkerLoop \/ WorkerCalls
    BY <1>3 DEF WorkerLoop, WorkerCalls, Next, Worker
<1>4. CASE Deadline
    BY <1>4 DEF Deadline, ContextEnds, vars, queueVars
<1>5. CASE \E j \in Jobs : JobStep(j)
    BY <1>5, JobStepsQueue
<1>6. CASE Main
    BY <1>6, MainStepsQueue
<1>7. CASE UNCHANGED allVars
    BY <1>7 DEF allVars, vars, queueVars
<1>8. QED BY <1>1, <1>2, <1>3, <1>4, <1>5, <1>6, <1>7 DEF ProcessNext

\* The process is a webhook queue: signal, drain, exit and restart of main.go and
\* the syncs of other callers add no behaviour SyncQueue does not have.
THEOREM ProcessIsQueue == ProcessSpec => Spec
<1>1. ProcessInit => Init
    BY DEF ProcessInit
<1>2. QED BY <1>1, ProcessStepsQueue, PTL DEF ProcessSpec, Spec

\* So in the process, too, a mark is one outstanding request, a channel with a
\* place for every store is never full, and no webhook is lost to the sync it
\* arrives in.
THEOREM QueueInProcess == ProcessSpec => [](OneTokenPerMark /\ NeverFull /\ OwedIsWaiting)
BY ProcessIsQueue, MarksAreTokens, RoomForAll, NoWebhookLost, PTL

\* And in the process, too, a store is owed a sync or it is not, one sync of the
\* worker runs at a time, and a stop signal or a crash forgets what was asked.
THEOREM RequestsInProcess == ProcessSpec => ImplementsRequests
BY ProcessIsQueue, Refinement, PTL

LEMMA QueueTyped == ProcessSpec => []TypeOK
BY ProcessIsQueue, TypeCorrect, PTL

-----------------------------------------------------------------------------
(***************************************************************************)
(* The inductive invariant: types, the limit of the pool, and what a drain *)
(* leaves behind.                                                          *)
(***************************************************************************)
Typed == /\ main \in {"serving", "draining", "drained", "stopping", "closing", "down"}
         /\ job \in [Jobs -> JobStates]
         /\ stranded \subseteq Jobs
         /\ trouble \in BOOLEAN

Pooled == IsFiniteSet(Connected) /\ Cardinality(Connected) <= MaxConns

InTransaction == \A j \in Connected : job[j].pc \in {"opening", "closing"}

InStep == job[Background].pc # "idle" <=> worker.pc = "syncing"

InLife == life = CASE main \in {"serving", "draining", "drained"} -> "running"
                   [] main \in {"stopping", "closing"} -> "stopping"
                   [] OTHER -> "down"

\* Once Shutdown has returned and nothing went wrong, no manual sync is left, and
\* none can begin: the listener is closed.
NoClientLeft == ~trouble /\ main \in {"drained", "stopping", "closing", "down"} =>
    \A j \in Clients : job[j].pc = "idle"

ProcessIInv == /\ Typed /\ Pooled /\ InTransaction /\ InStep /\ InLife
               /\ NoClientLeft /\ ManualSyncsFinish

LEMMA InitProcess == ProcessInit => ProcessIInv
<1> SUFFICES ASSUME ProcessInit PROVE ProcessIInv
    OBVIOUS
<1>1. NoJob \in JobStates
    BY DEF NoJob, JobStates
<1>2. Typed
    BY <1>1 DEF ProcessInit, Typed
<1>3. Connected = {}
    BY DEF ProcessInit, Connected, NoJob
<1>4. Pooled /\ InTransaction
    BY <1>3, FS_EmptySet, ConnsAssumption DEF Pooled, InTransaction
<1>5. job[Background].pc = "idle" /\ worker.pc = "idle"
    BY DEF ProcessInit, NoJob, Jobs, Init, Idle
<1>6. InStep /\ InLife
    BY <1>5 DEF InStep, InLife, ProcessInit, Init
<1>7. NoClientLeft /\ ManualSyncsFinish
    BY DEF NoClientLeft, ManualSyncsFinish, ProcessInit
<1>8. QED BY <1>2, <1>4, <1>6, <1>7 DEF ProcessIInv

LEMMA ReturnTyped ==
    ASSUME Typed, NEW j \in Jobs, RunReturns(j)
    PROVE  /\ job' \in [Jobs -> JobStates]
           /\ job' = [job EXCEPT ![j] = NoJob]
           /\ life' = life
<1>1. NoJob \in JobStates
    BY DEF NoJob, JobStates
<1>2. QED BY <1>1 DEF RunReturns, Typed, WorkerDone, queueVars

LEMMA TypedStep == Typed /\ [ProcessNext]_allVars => Typed'
<1> SUFFICES ASSUME Typed, [ProcessNext]_allVars PROVE Typed'
    OBVIOUS
<1> USE DEF Typed
<1>1. ASSUME NEW j \in Jobs, JobStep(j) PROVE Typed'
    <2>1. CASE Request(j)
        BY <2>1 DEF Request, JobStates
    <2>2. CASE Acquire(j)
        BY <2>2 DEF Acquire, JobStates
    <2>3. CASE OpenCommits(j)
        BY <2>3 DEF OpenCommits, JobStates
    <2>4. CASE WorkEnds(j)
        BY <2>4 DEF WorkEnds, JobStates
    <2>5. CASE HangUp(j)
        BY <2>5 DEF HangUp, ContextEnds, JobStates
    <2>6. CASE OpenFails(j)
        BY <2>6, ReturnTyped DEF OpenFails
    <2>7. CASE OpenLost(j)
        BY <2>7, ReturnTyped DEF OpenLost
    <2>8. CASE CloseCommits(j)
        BY <2>8, ReturnTyped DEF CloseCommits
    <2>9. CASE CloseTimesOut(j)
        BY <2>9, ReturnTyped DEF CloseTimesOut
    <2>10. CASE CloseRefused(j)
        BY <2>10, ReturnTyped DEF CloseRefused
    <2>11. QED BY <1>1, <2>1, <2>2, <2>3, <2>4, <2>5, <2>6, <2>7, <2>8, <2>9, <2>10
               DEF JobStep, Transaction
<1>2. CASE WorkerCalls
    <2>1. (life = "running") \in BOOLEAN
        OBVIOUS
    <2>2. [pc |-> "opening", conn |-> FALSE, live |-> life = "running"] \in JobStates
        BY <2>1 DEF JobStates
    <2>3. QED BY <1>2, <2>2 DEF WorkerCalls
<1>3. CASE Deadline
    BY <1>3 DEF Deadline, ContextEnds, JobStates
<1>4. CASE Main
    <2>1. CASE Signal \/ Drained \/ DrainTimesOut \/ ClosePool
        BY <2>1 DEF Signal, Drained, DrainTimesOut, ClosePool
    <2>2. CASE StopWorkers
        <3>1. Background \in Jobs /\ (job[Background].pc = "idle") \in BOOLEAN
            BY DEF Jobs
        <3> DEFINE b == job[Background].pc = "idle"
        <3>2. \A x \in BOOLEAN : [job EXCEPT ![Background].live = x] \in [Jobs -> JobStates]
            BY DEF JobStates
        <3>3. [job EXCEPT ![Background].live = b] \in [Jobs -> JobStates]
            BY <3>1, <3>2
        <3>4. QED BY <2>2, <3>3 DEF StopWorkers
    <2>3. CASE Leave \/ Crash
        <3>1. NoJob \in JobStates
            BY DEF NoJob, JobStates
        <3>2. job' \in [Jobs -> JobStates] /\ main' = "down"
            BY <2>3, <3>1 DEF Leave, Crash, End
        <3>3. stranded' \subseteq Jobs /\ trouble' \in BOOLEAN
            BY <2>3 DEF Leave, Crash, RowOpen, Connected
        <3>4. QED BY <3>2, <3>3
    <2>4. CASE Boot
        BY <2>4 DEF Boot
    <2>5. QED BY <1>4, <2>1, <2>2, <2>3, <2>4 DEF Main, ShuttingDown
<1>5. CASE Receive /\ UNCHANGED processVars
    BY <1>5 DEF processVars
<1>6. CASE \E h \in Handlers : Queueing(h)
    BY <1>6 DEF Queueing, processVars
<1>7. CASE WorkerLoop
    BY <1>7 DEF WorkerLoop, processVars
<1>8. CASE UNCHANGED allVars
    BY <1>8 DEF allVars, processVars
<1>9. QED BY <1>1, <1>2, <1>3, <1>4, <1>5, <1>6, <1>7, <1>8 DEF ProcessNext

\* Only Acquire takes a connection.
LEMMA OnlyAcquireTakes ==
    ASSUME Typed, [ProcessNext]_allVars, NEW i \in Jobs, job'[i].conn, ~job[i].conn
    PROVE  Acquire(i) /\ Connected' \subseteq Connected \cup {i}
<1> USE DEF Typed
<1>1. CASE Acquire(i)
    BY <1>1 DEF Acquire, Connected, JobStates
<1>2. ASSUME NEW j \in Jobs, JobStep(j), ~Acquire(i) PROVE FALSE
    <2>1. CASE Acquire(j)
        BY <1>2, <2>1 DEF Acquire, JobStates
    <2>2. CASE Request(j) \/ OpenCommits(j) \/ WorkEnds(j) \/ HangUp(j)
        BY <1>2, <2>2 DEF Request, OpenCommits, WorkEnds, HangUp, ContextEnds, JobStates
    <2>3. CASE OpenFails(j) \/ OpenLost(j) \/ CloseCommits(j) \/ CloseTimesOut(j) \/ CloseRefused(j)
        <3>1. RunReturns(j)
            BY <2>3 DEF OpenFails, OpenLost, CloseCommits, CloseTimesOut, CloseRefused
        <3>2. job' = [job EXCEPT ![j] = NoJob]
            BY <3>1 DEF RunReturns
        <3>3. QED BY <1>2, <3>2 DEF NoJob, JobStates
    <2>4. QED BY <1>2, <2>1, <2>2, <2>3 DEF JobStep, Transaction
<1>3. CASE WorkerCalls
    BY <1>3 DEF WorkerCalls, JobStates
<1>4. CASE Deadline
    BY <1>4 DEF Deadline, ContextEnds, JobStates
<1>5. CASE Main
    <2>1. CASE Signal \/ Drained \/ DrainTimesOut \/ ClosePool \/ Boot
        BY <2>1 DEF Signal, Drained, DrainTimesOut, ClosePool, Boot
    <2>2. CASE StopWorkers
        <3>1. job'[i].conn = job[i].conn
            BY <2>2 DEF StopWorkers, JobStates
        <3>2. QED BY <3>1
    <2>3. CASE Leave \/ Crash
        BY <2>3 DEF Leave, Crash, End, NoJob
    <2>4. QED BY <1>5, <2>1, <2>2, <2>3 DEF Main, ShuttingDown
<1>6. CASE (Receive /\ UNCHANGED processVars) \/ (\E h \in Handlers : Queueing(h)) \/ WorkerLoop
    BY <1>6 DEF Queueing, WorkerLoop, processVars
<1>7. CASE UNCHANGED allVars
    BY <1>7 DEF allVars, processVars
<1>8. QED BY <1>1, <1>2, <1>3, <1>4, <1>5, <1>6, <1>7 DEF ProcessNext

LEMMA PooledStep == Typed /\ Pooled /\ [ProcessNext]_allVars => Pooled'
<1> SUFFICES ASSUME Typed, Pooled, [ProcessNext]_allVars PROVE Pooled'
    OBVIOUS
<1>1. Cardinality(Connected) \in Nat
    BY FS_CardinalityType DEF Pooled
<1>2. CASE Connected' \subseteq Connected
    <2>1. IsFiniteSet(Connected') /\ Cardinality(Connected') <= Cardinality(Connected)
        BY <1>2, FS_Subset DEF Pooled
    <2>2. Cardinality(Connected') \in Nat
        BY <2>1, FS_CardinalityType
    <2>3. QED BY <1>1, <2>1, <2>2, ConnsAssumption DEF Pooled
<1>3. CASE ~(Connected' \subseteq Connected)
    <2>1. PICK i \in Jobs : job'[i].conn /\ ~job[i].conn
        BY <1>3 DEF Connected
    <2>2. Acquire(i) /\ Connected' \subseteq Connected \cup {i}
        BY <2>1, OnlyAcquireTakes
    <2>3. IsFiniteSet(Connected \cup {i}) /\ Cardinality(Connected \cup {i}) <= Cardinality(Connected) + 1
        <3>1. IsFiniteSet(Connected)
            BY DEF Pooled
        <3>2. /\ IsFiniteSet(Connected \cup {i})
              /\ Cardinality(Connected \cup {i}) =
                   IF i \in Connected THEN Cardinality(Connected) ELSE Cardinality(Connected) + 1
            BY <3>1, FS_AddElement
        <3>3. QED BY <1>1, <3>2
    <2>4. IsFiniteSet(Connected') /\ Cardinality(Connected') <= Cardinality(Connected \cup {i})
        BY <2>2, <2>3, FS_Subset
    <2>5. Cardinality(Connected') \in Nat /\ Cardinality(Connected \cup {i}) \in Nat
        BY <2>3, <2>4, FS_CardinalityType
    <2>6. Cardinality(Connected) < MaxConns
        BY <2>2 DEF Acquire
    <2>7. QED BY <1>1, <2>3, <2>4, <2>5, <2>6, ConnsAssumption DEF Pooled
<1>4. QED BY <1>2, <1>3

LEMMA TransactionStep == Typed /\ InTransaction /\ [ProcessNext]_allVars => InTransaction'
<1> SUFFICES ASSUME Typed, InTransaction, [ProcessNext]_allVars,
                    NEW i \in Jobs, job'[i].conn
             PROVE  job'[i].pc \in {"opening", "closing"}
    BY DEF InTransaction, Connected
<1> USE DEF Typed, InTransaction, Connected
<1>1. CASE ~job[i].conn
    <2>1. Acquire(i)
        BY <1>1, OnlyAcquireTakes
    <2>2. QED BY <2>1 DEF Acquire, JobStates
<1>2. CASE job[i].conn
    <2>1. job[i].pc \in {"opening", "closing"}
        BY <1>2
    <2>2. ASSUME NEW j \in Jobs, JobStep(j) PROVE job'[i].pc \in {"opening", "closing"}
        <3>1. CASE Request(j) \/ Acquire(j) \/ WorkEnds(j) \/ HangUp(j)
            BY <2>1, <3>1 DEF Request, Acquire, WorkEnds, HangUp, ContextEnds, JobStates
        <3>2. CASE OpenCommits(j)
            BY <2>1, <3>2 DEF OpenCommits, JobStates
        <3>3. CASE OpenFails(j) \/ OpenLost(j) \/ CloseCommits(j) \/ CloseTimesOut(j) \/ CloseRefused(j)
            <4>1. job' = [job EXCEPT ![j] = NoJob]
                BY <3>3 DEF OpenFails, OpenLost, CloseCommits, CloseTimesOut, CloseRefused, RunReturns
            <4>2. QED BY <2>1, <4>1 DEF NoJob, JobStates
        <3>4. QED BY <2>2, <3>1, <3>2, <3>3 DEF JobStep, Transaction
    <2>3. CASE WorkerCalls
        BY <2>1, <2>3 DEF WorkerCalls, JobStates
    <2>4. CASE Deadline
        BY <2>1, <2>4 DEF Deadline, ContextEnds, JobStates
    <2>5. CASE Main
        <3>1. CASE Signal \/ Drained \/ DrainTimesOut \/ ClosePool \/ Boot
            BY <2>1, <3>1 DEF Signal, Drained, DrainTimesOut, ClosePool, Boot
        <3>2. CASE StopWorkers
            <4>1. job'[i].pc = job[i].pc
                BY <3>2 DEF StopWorkers, JobStates
            <4>2. QED BY <2>1, <4>1
        <3>3. CASE Leave \/ Crash
            BY <3>3 DEF Leave, Crash, End, NoJob
        <3>4. QED BY <2>5, <3>1, <3>2, <3>3 DEF Main, ShuttingDown
    <2>6. CASE (Receive /\ UNCHANGED processVars) \/ (\E h \in Handlers : Queueing(h)) \/ WorkerLoop
        BY <2>1, <2>6 DEF Queueing, WorkerLoop, processVars
    <2>7. CASE UNCHANGED allVars
        BY <2>1, <2>7 DEF allVars, processVars
    <2>8. QED BY <2>2, <2>3, <2>4, <2>5, <2>6, <2>7 DEF ProcessNext
<1>3. QED BY <1>1, <1>2 DEF JobStates

LEMMA LifeStep == InLife /\ [ProcessNext]_allVars => InLife'
<1> SUFFICES ASSUME InLife, [ProcessNext]_allVars PROVE InLife'
    OBVIOUS
<1> USE DEF InLife
<1>1. ASSUME NEW j \in Jobs, JobStep(j) PROVE life' = life /\ main' = main
    BY <1>1 DEF JobStep, Transaction, Request, Acquire, OpenCommits, OpenFails, OpenLost,
                WorkEnds, CloseCommits, CloseTimesOut, CloseRefused, HangUp, ContextEnds,
                RunReturns, WorkerDone, queueVars
<1>2. CASE WorkerLoop \/ WorkerCalls \/ Deadline
    <2>1. life' = life /\ main' = main
        BY <1>2 DEF WorkerLoop, WorkerTake, WorkerStop, WorkerCalls, WorkerRelease, Deadline,
                    ContextEnds, queueVars, processVars
    <2>2. QED BY <2>1
<1>3. CASE (Receive /\ UNCHANGED processVars) \/ (\E h \in Handlers : Queueing(h))
    <2>1. life' = life /\ main' = main
        BY <1>3 DEF Receive, Webhook, EnqueueSkip, EnqueueMark, Queueing, HandlerStep, EnqueueSend,
                    EnqueueFull, EnqueueDrop, processVars
    <2>2. QED BY <2>1
<1>4. CASE Main
    BY <1>4 DEF Main, ShuttingDown, Signal, Drained, DrainTimesOut, StopWorkers, ClosePool,
                Leave, Crash, Boot, End, Stop, Exit, Start, queueVars
<1>5. CASE UNCHANGED allVars
    BY <1>5 DEF allVars, queueVars, processVars
<1>6. QED
    <2>1. CASE \E j \in Jobs : JobStep(j)
        BY <2>1, <1>1
    <2>2. QED BY <2>1, <1>2, <1>3, <1>4, <1>5 DEF ProcessNext

LEMMA InStepStep == Typed /\ TypeOK /\ InStep /\ [ProcessNext]_allVars => InStep'
<1> SUFFICES ASSUME Typed, TypeOK, InStep, [ProcessNext]_allVars PROVE InStep'
    OBVIOUS
<1> USE DEF InStep, Typed
<1>1. Background \in Jobs
    BY DEF Jobs
<1>2. ASSUME NEW j \in Jobs, RunReturns(j), job[j].pc # "idle" PROVE InStep'
    <2>1. CASE j = Background
        BY <1>1, <1>2, <2>1 DEF RunReturns, WorkerDone, Idle, NoJob
    <2>2. CASE j # Background
        BY <1>1, <1>2, <2>2 DEF RunReturns, queueVars
    <2>3. QED BY <2>1, <2>2
<1>3. ASSUME NEW j \in Jobs, JobStep(j) PROVE InStep'
    <2>1. CASE Request(j)
        <3>1. j # Background
            BY <2>1, JobsAssumption DEF Request
        <3>2. QED BY <1>1, <2>1, <3>1 DEF Request, queueVars
    <2>2. CASE Acquire(j)
        BY <1>1, <2>2 DEF Acquire, queueVars, JobStates
    <2>3. CASE OpenCommits(j)
        BY <1>1, <2>3 DEF OpenCommits, queueVars, JobStates
    <2>4. CASE WorkEnds(j)
        BY <1>1, <2>4 DEF WorkEnds, queueVars, JobStates
    <2>5. CASE HangUp(j)
        BY <1>1, <2>5 DEF HangUp, ContextEnds, queueVars, JobStates
    <2>6. CASE OpenFails(j) \/ OpenLost(j)
        BY <1>2, <2>6 DEF OpenFails, OpenLost
    <2>7. CASE CloseCommits(j) \/ CloseTimesOut(j) \/ CloseRefused(j)
        BY <1>2, <2>7 DEF CloseCommits, CloseTimesOut, CloseRefused
    <2>8. QED BY <1>3, <2>1, <2>2, <2>3, <2>4, <2>5, <2>6, <2>7 DEF JobStep, Transaction
<1>4. CASE WorkerCalls
    <2>1. job'[Background].pc = "opening"
        BY <1>1, <1>4 DEF WorkerCalls
    <2>2. worker'.pc = "syncing"
        BY <1>4 DEF WorkerCalls, WorkerRelease, TypeOK, WorkerStates
    <2>3. QED BY <2>1, <2>2
<1>5. CASE Deadline
    BY <1>1, <1>5 DEF Deadline, ContextEnds, queueVars, JobStates
<1>6. CASE WorkerLoop
    BY <1>6 DEF WorkerLoop, WorkerTake, WorkerStop, processVars
<1>7. CASE (Receive /\ UNCHANGED processVars) \/ (\E h \in Handlers : Queueing(h))
    <2>1. worker' = worker /\ job' = job
        BY <1>7 DEF Receive, Webhook, EnqueueSkip, EnqueueMark, Queueing, HandlerStep, EnqueueSend,
                    EnqueueFull, EnqueueDrop, processVars
    <2>2. QED BY <2>1
<1>8. CASE Main
    <2>1. CASE Signal \/ Drained \/ DrainTimesOut \/ ClosePool \/ Boot
        BY <2>1 DEF Signal, Drained, DrainTimesOut, ClosePool, Boot, Start, queueVars
    <2>2. CASE StopWorkers
        <3>1. job'[Background].pc = job[Background].pc
            BY <1>1, <2>2 DEF StopWorkers, JobStates
        <3>2. QED BY <2>2, <3>1 DEF StopWorkers, Stop
    <2>3. CASE Leave \/ Crash
        BY <1>1, <2>3 DEF Leave, Crash, End, Exit, NoJob, Idle
    <2>4. QED BY <1>8, <2>1, <2>2, <2>3 DEF Main, ShuttingDown
<1>9. CASE UNCHANGED allVars
    BY <1>9 DEF allVars, queueVars, processVars
<1>10. QED BY <1>3, <1>4, <1>5, <1>6, <1>7, <1>8, <1>9 DEF ProcessNext

LEMMA NoClientStep == Typed /\ NoClientLeft /\ [ProcessNext]_allVars => NoClientLeft'
<1> SUFFICES ASSUME Typed, NoClientLeft, [ProcessNext]_allVars, ~trouble',
                    main' \in {"drained", "stopping", "closing", "down"}, NEW c \in Clients
             PROVE  job'[c].pc = "idle"
    BY DEF NoClientLeft
<1> USE DEF Typed, NoClientLeft
<1>1. c \in Jobs /\ c # Background
    BY JobsAssumption DEF Jobs
<1>2. ASSUME NEW j \in Jobs, JobStep(j) PROVE job'[c].pc = "idle"
    <2>1. ~trouble /\ main' = main /\ main # "serving"
        BY <1>2 DEF JobStep, Transaction, Request, Acquire, OpenCommits, OpenFails, OpenLost,
                    WorkEnds, CloseCommits, CloseTimesOut, CloseRefused, HangUp, ContextEnds
    <2>2. job[c].pc = "idle"
        BY <2>1
    <2>3. CASE RunReturns(j)
        BY <1>1, <2>2, <2>3 DEF RunReturns, NoJob
    <2>4. CASE Acquire(j) \/ OpenCommits(j) \/ WorkEnds(j) \/ HangUp(j)
        BY <1>1, <2>2, <2>4 DEF Acquire, OpenCommits, WorkEnds, HangUp, ContextEnds, JobStates
    <2>5. QED BY <1>2, <2>1, <2>3, <2>4 DEF JobStep, Transaction, Request, OpenFails, OpenLost,
                 CloseCommits, CloseTimesOut, CloseRefused
<1>3. CASE WorkerCalls \/ Deadline
    BY <1>1, <1>3 DEF WorkerCalls, Deadline, ContextEnds, JobStates
<1>4. CASE Main
    <2>1. CASE Drained \/ DrainTimesOut \/ Signal \/ Boot
        BY <2>1 DEF Drained, Quiet, DrainTimesOut, Signal, Boot
    <2>2. CASE ClosePool
        BY <2>2 DEF ClosePool
    <2>3. CASE StopWorkers
        <3>1. job'[c] = job[c] /\ main = "drained" /\ ~trouble
            BY <1>1, <2>3 DEF StopWorkers
        <3>2. QED BY <3>1
    <2>4. CASE Leave \/ Crash
        BY <1>1, <2>4 DEF Leave, Crash, End, NoJob
    <2>5. QED BY <1>4, <2>1, <2>2, <2>3, <2>4 DEF Main, ShuttingDown
<1>5. CASE (Receive /\ UNCHANGED processVars) \/ (\E h \in Handlers : Queueing(h)) \/ WorkerLoop
    BY <1>5 DEF Queueing, WorkerLoop, processVars
<1>6. CASE UNCHANGED allVars
    BY <1>6 DEF allVars, processVars
<1>7. QED BY <1>2, <1>3, <1>4, <1>5, <1>6 DEF ProcessNext

LEMMA StrandedStep ==
    Typed /\ NoClientLeft /\ ManualSyncsFinish /\ [ProcessNext]_allVars => ManualSyncsFinish'
<1> SUFFICES ASSUME Typed, NoClientLeft, ManualSyncsFinish, [ProcessNext]_allVars, ~trouble'
             PROVE  stranded' \subseteq {Background}
    BY DEF ManualSyncsFinish
<1> USE DEF Typed, ManualSyncsFinish
<1>1. ASSUME NEW j \in Jobs, JobStep(j) PROVE stranded' \subseteq {Background}
    <2>1. CASE CloseRefused(j)
        <3>1. ~trouble /\ main \in {"closing", "down"} /\ job[j].pc = "closing"
            BY <2>1 DEF CloseRefused, PoolOpen
        <3>2. j = Background
            BY <3>1 DEF NoClientLeft, Jobs
        <3>3. QED BY <2>1, <3>1, <3>2 DEF CloseRefused
    <2>2. CASE OpenLost(j) \/ CloseTimesOut(j)
        BY <2>2 DEF OpenLost, CloseTimesOut
    <2>3. CASE Request(j) \/ Acquire(j) \/ OpenCommits(j) \/ OpenFails(j) \/ WorkEnds(j)
                 \/ CloseCommits(j) \/ HangUp(j)
        BY <2>3 DEF Request, Acquire, OpenCommits, OpenFails, WorkEnds, CloseCommits, HangUp,
                    ContextEnds
    <2>4. QED BY <1>1, <2>1, <2>2, <2>3 DEF JobStep, Transaction
<1>2. CASE WorkerCalls \/ Deadline
    BY <1>2 DEF WorkerCalls, Deadline, ContextEnds
<1>3. CASE Main
    <2>1. CASE Leave
        <3>1. ~trouble /\ main = "closing" /\ stranded' = stranded \cup RowOpen
            BY <2>1 DEF Leave
        <3>2. RowOpen \subseteq {Background}
            BY <3>1 DEF NoClientLeft, RowOpen, Jobs
        <3>3. QED BY <3>1, <3>2
    <2>2. CASE Crash
        BY <2>2 DEF Crash
    <2>3. CASE Signal \/ Drained \/ DrainTimesOut \/ StopWorkers \/ ClosePool \/ Boot
        BY <2>3 DEF Signal, Drained, DrainTimesOut, StopWorkers, ClosePool, Boot
    <2>4. QED BY <1>3, <2>1, <2>2, <2>3 DEF Main, ShuttingDown
<1>4. CASE (Receive /\ UNCHANGED processVars) \/ (\E h \in Handlers : Queueing(h)) \/ WorkerLoop
    BY <1>4 DEF Queueing, WorkerLoop, processVars
<1>5. CASE UNCHANGED allVars
    BY <1>5 DEF allVars, processVars
<1>6. QED BY <1>1, <1>2, <1>3, <1>4, <1>5 DEF ProcessNext

LEMMA ProcessInductive == ProcessSpec => []ProcessIInv
<1>1. TypeOK /\ ProcessIInv /\ [ProcessNext]_allVars => ProcessIInv'
    BY TypedStep, PooledStep, TransactionStep, InStepStep, LifeStep, NoClientStep, StrandedStep
       DEF ProcessIInv
<1>2. QED BY <1>1, InitProcess, QueueTyped, PTL DEF ProcessSpec

\* Types, the limit of the pool, and the agreement of main, worker and queue.
THEOREM ProcessTyped == ProcessSpec => []ProcessTypeOK
<1>1. ProcessIInv => ProcessTypeOK
    BY DEF ProcessIInv, Typed, Pooled, InTransaction, InStep, InLife, ProcessTypeOK
<1>2. QED BY <1>1, ProcessInductive, PTL

\* A stop signal strands no manual sync, whatever the queue, the clients and the
\* worker are doing when it comes.
THEOREM ManualSyncsSurvive == ProcessSpec => []ManualSyncsFinish
<1>1. ProcessIInv => ManualSyncsFinish
    BY DEF ProcessIInv
<1>2. QED BY <1>1, ProcessInductive, PTL

-----------------------------------------------------------------------------
(***************************************************************************)
(* Shutting down.  What Shutdown and db.Close wait for can only become     *)
(* less, and after stopWorkers the worker begins no sync.                  *)
(***************************************************************************)
Stage == CASE main = "serving"  -> 0
           [] main = "draining" -> 1
           [] main = "drained"  -> 2
           [] main = "stopping" -> 3
           [] main = "closing"  -> 4
           [] OTHER             -> 5

Inside   == {h \in Handlers : handler[h].pc # "idle"}
Visiting == {j \in Clients : job[j].pc # "idle"}

\* From the signal on main only goes forward, until the process is down; no
\* request joins those that Shutdown waits for, and once the pool is closed no
\* transaction joins those that db.Close waits for, although the worker may still
\* take stores from the channel.
Advances ==
    /\ Stage' >= Stage
    /\ Inside' \subseteq Inside /\ Visiting' \subseteq Visiting
    /\ main = "closing" => Connected' \subseteq Connected

ShutdownOnlyAdvances == [][main \notin {"serving", "down"} => Advances]_allVars

\* A sync's way from its first transaction to its work.
BeginsWork(j) == job[j].pc = "opening" /\ job'[j].pc = "working"

\* After stopWorkers the worker begins no sync: it may still take a store, for Go
\* picks either case of a select that has both ready, but the context it passes to
\* Run is done, so that no transaction opens a row for it.
NoSyncStartsLate ==
    [][BeginsWork(Background) => main \notin {"stopping", "closing"}]_allVars

CutOff == main \in {"stopping", "closing"} /\ job[Background].pc # "idle" =>
    ~job[Background].live

\* Only main's own steps change where main is.
LEMMA OthersLeaveMain ==
    ASSUME [ProcessNext]_allVars, ~Main
    PROVE  main' = main
BY DEF ProcessNext, JobStep, Transaction, Request, Acquire, OpenCommits, OpenFails, OpenLost,
       WorkEnds, CloseCommits, CloseTimesOut, CloseRefused, HangUp, ContextEnds, Queueing,
       WorkerLoop, WorkerCalls, Deadline, processVars, allVars

LEMMA MainAdvances ==
    ASSUME [ProcessNext]_allVars, Typed, main \notin {"serving", "down"}
    PROVE  Stage' >= Stage
<1>1. CASE Main
    BY <1>1 DEF Main, ShuttingDown, Signal, Drained, DrainTimesOut, StopWorkers, ClosePool,
       Leave, Crash, Boot, End, Stage, Typed
<1>2. CASE ~Main
    <2>1. main' = main
        BY <1>2, OthersLeaveMain
    <2>2. QED BY <2>1 DEF Stage
<1>3. QED BY <1>1, <1>2

\* Handlers come in by the listener only.
LEMMA NobodyComesIn ==
    ASSUME [ProcessNext]_allVars, TypeOK, main # "serving"
    PROVE  Inside' \subseteq Inside
<1> SUFFICES ASSUME NEW h \in Handlers, handler[h].pc = "idle"
             PROVE  handler'[h].pc = "idle"
    BY DEF Inside
<1>1. ASSUME NEW g \in Handlers, Queueing(g) PROVE handler'[h].pc = "idle"
    <2>1. handler[g].pc \in {"marked", "full"}
        BY <1>1 DEF Queueing, HandlerStep, EnqueueSend, EnqueueFull, EnqueueDrop
    <2>2. g # h
        BY <2>1
    <2>3. QED BY <1>1, <2>2 DEF Queueing, HandlerStep, EnqueueSend, EnqueueFull, EnqueueDrop,
              Move, Return, TypeOK
<1>2. CASE Leave \/ Crash
    BY <1>2 DEF Leave, Crash, End, Exit, Idle
<1>3. CASE handler' = handler
    BY <1>3
<1>4. ASSUME NEW j \in Jobs, JobStep(j) PROVE handler' = handler
    BY <1>4 DEF JobStep, Transaction, Request, Acquire, OpenCommits, OpenFails, OpenLost,
       WorkEnds, CloseCommits, CloseTimesOut, CloseRefused, HangUp, ContextEnds, RunReturns,
       WorkerDone, queueVars
<1>5. CASE Main /\ ~Leave /\ ~Crash
    BY <1>3, <1>5 DEF Main, ShuttingDown, Signal, Drained, DrainTimesOut, StopWorkers,
       ClosePool, Boot, Stop, Start, queueVars
<1>6. CASE WorkerLoop \/ WorkerCalls \/ Deadline \/ UNCHANGED allVars
    BY <1>3, <1>6 DEF WorkerLoop, WorkerTake, WorkerStop, WorkerCalls, WorkerRelease,
       Deadline, ContextEnds, queueVars, allVars
<1>7. ~Receive
    BY DEF Receive
<1>8. QED BY <1>1, <1>2, <1>3, <1>4, <1>5, <1>6, <1>7 DEF ProcessNext

\* A client that is not in a sync, and comes to be in one, was let in by the
\* listener.
LEMMA NobodyVisits ==
    ASSUME [ProcessNext]_allVars, Typed, main # "serving"
    PROVE  Visiting' \subseteq Visiting
<1> SUFFICES ASSUME NEW c \in Clients, job[c].pc = "idle"
             PROVE  job'[c].pc = "idle"
    BY DEF Visiting
<1> USE DEF Typed
<1>1. c \in Jobs /\ c # Background
    BY JobsAssumption DEF Jobs
<1>2. ASSUME NEW j \in Jobs, JobStep(j) PROVE job'[c].pc = "idle"
    <2>1. ~Request(j)
        BY DEF Request
    <2>2. CASE RunReturns(j)
        BY <1>1, <2>2 DEF RunReturns, NoJob
    <2>3. CASE Acquire(j) \/ OpenCommits(j) \/ WorkEnds(j) \/ HangUp(j)
        BY <1>1, <2>3 DEF Acquire, OpenCommits, WorkEnds, HangUp, ContextEnds, JobStates
    <2>4. QED BY <1>2, <2>1, <2>2, <2>3 DEF JobStep, Transaction, OpenFails, OpenLost,
                 CloseCommits, CloseTimesOut, CloseRefused
<1>3. CASE WorkerCalls \/ Deadline
    BY <1>1, <1>3 DEF WorkerCalls, Deadline, ContextEnds, JobStates
<1>4. CASE Main
    <2>1. CASE StopWorkers
        BY <1>1, <2>1 DEF StopWorkers
    <2>2. CASE Leave \/ Crash
        BY <1>1, <2>2 DEF Leave, Crash, End, NoJob
    <2>3. CASE Signal \/ Drained \/ DrainTimesOut \/ ClosePool \/ Boot
        BY <2>3 DEF Signal, Drained, DrainTimesOut, ClosePool, Boot
    <2>4. QED BY <1>4, <2>1, <2>2, <2>3 DEF Main, ShuttingDown
<1>5. CASE (Receive /\ UNCHANGED processVars) \/ (\E h \in Handlers : Queueing(h)) \/ WorkerLoop
    BY <1>5 DEF Queueing, WorkerLoop, processVars
<1>6. CASE UNCHANGED allVars
    BY <1>6 DEF allVars, processVars
<1>7. QED BY <1>2, <1>3, <1>4, <1>5, <1>6 DEF ProcessNext

\* A closed pool hands out nothing.
LEMMA NobodyConnects ==
    ASSUME [ProcessNext]_allVars, Typed, main = "closing"
    PROVE  Connected' \subseteq Connected
<1> SUFFICES ASSUME NEW i \in Jobs, job'[i].conn, ~job[i].conn PROVE FALSE
    BY DEF Connected
<1>1. Acquire(i)
    BY OnlyAcquireTakes
<1>2. QED BY <1>1 DEF Acquire, PoolOpen

\* The safety half of ShutdownEnds: whatever the process waits for after a stop
\* signal never becomes more again, for any number of handlers, clients and
\* connections, and nothing starts over.
THEOREM ShutdownAdvances == ProcessSpec => ShutdownOnlyAdvances
<1>1. TypeOK /\ ProcessIInv /\ [ProcessNext]_allVars =>
        [main \notin {"serving", "down"} => Advances]_allVars
    <2> SUFFICES ASSUME TypeOK, Typed, [ProcessNext]_allVars, main \notin {"serving", "down"}
                 PROVE  Advances
        BY DEF ProcessIInv
    <2>1. Stage' >= Stage
        BY MainAdvances
    <2>2. Inside' \subseteq Inside /\ Visiting' \subseteq Visiting
        BY NobodyComesIn, NobodyVisits
    <2>3. main = "closing" => Connected' \subseteq Connected
        BY NobodyConnects
    <2>4. QED BY <2>1, <2>2, <2>3 DEF Advances
<1>2. QED BY <1>1, ProcessInductive, QueueTyped, PTL DEF ProcessSpec, ShutdownOnlyAdvances

LEMMA CutOffStep == Typed /\ InLife /\ CutOff /\ [ProcessNext]_allVars => CutOff'
<1> SUFFICES ASSUME Typed, InLife, CutOff, [ProcessNext]_allVars,
                    main' \in {"stopping", "closing"}, job'[Background].pc # "idle"
             PROVE  ~job'[Background].live
    BY DEF CutOff
<1> USE DEF Typed
<1>1. Background \in Jobs
    BY DEF Jobs
<1>2. CASE Main
    <2>1. CASE StopWorkers
        <3>1. job'[Background].pc = job[Background].pc
            BY <1>1, <2>1 DEF StopWorkers, JobStates
        <3>2. job'[Background].live = (job[Background].pc = "idle")
            BY <1>1, <2>1 DEF StopWorkers, JobStates
        <3>3. QED BY <3>1, <3>2
    <2>2. CASE ClosePool
        BY <2>2 DEF ClosePool, CutOff
    <2>3. ~(Signal \/ Drained \/ DrainTimesOut \/ Leave \/ Crash \/ Boot)
        BY DEF Signal, Drained, DrainTimesOut, Leave, Crash, End, Boot
    <2>4. QED BY <1>2, <2>1, <2>2, <2>3 DEF Main, ShuttingDown
<1>3. CASE ~Main
    <2>1. main \in {"stopping", "closing"}
        BY <1>3, OthersLeaveMain
    <2>2. job[Background].pc = "idle" \/ ~job[Background].live
        BY <2>1 DEF CutOff
    <2>3. ASSUME NEW j \in Jobs, JobStep(j) PROVE ~job'[Background].live
        <3>1. CASE Request(j)
            BY <2>1, <3>1 DEF Request
        <3>2. CASE Acquire(j) \/ OpenCommits(j) \/ WorkEnds(j) \/ HangUp(j)
            BY <1>1, <2>2, <3>2 DEF Acquire, OpenCommits, WorkEnds, HangUp, ContextEnds, JobStates
        <3>3. CASE RunReturns(j)
            BY <1>1, <2>2, <3>3 DEF RunReturns, NoJob
        <3>4. QED BY <2>3, <3>1, <3>2, <3>3 DEF JobStep, Transaction, OpenFails, OpenLost,
                     CloseCommits, CloseTimesOut, CloseRefused
    <2>4. CASE WorkerCalls
        <3>1. life # "running"
            BY <2>1 DEF InLife
        <3>2. QED BY <1>1, <2>4, <3>1 DEF WorkerCalls
    <2>5. CASE Deadline
        BY <1>1, <2>5 DEF Deadline, ContextEnds, JobStates
    <2>6. CASE (Receive /\ UNCHANGED processVars) \/ (\E h \in Handlers : Queueing(h)) \/ WorkerLoop
        BY <2>2, <2>6 DEF Queueing, WorkerLoop, processVars
    <2>7. CASE UNCHANGED allVars
        BY <2>2, <2>7 DEF allVars, processVars
    <2>8. QED BY <1>3, <2>3, <2>4, <2>5, <2>6, <2>7 DEF ProcessNext
<1>4. QED BY <1>2, <1>3

\* Only a first transaction that commits, with its context alive, begins the work.
LEMMA OnlyCommitBegins ==
    ASSUME [ProcessNext]_allVars, Typed, BeginsWork(Background)
    PROVE  OpenCommits(Background) /\ main' = main
<1> USE DEF Typed, BeginsWork
<1>1. Background \in Jobs
    BY DEF Jobs
<1>2. ASSUME NEW j \in Jobs, JobStep(j) PROVE OpenCommits(Background)
    <2>1. CASE OpenCommits(j)
        <3>1. CASE j = Background
            BY <2>1, <3>1
        <3>2. CASE j # Background
            BY <1>1, <2>1, <3>2 DEF OpenCommits
        <3>3. QED BY <3>1, <3>2
    <2>2. CASE Request(j) \/ Acquire(j) \/ WorkEnds(j) \/ HangUp(j)
        BY <1>1, <2>2 DEF Request, Acquire, WorkEnds, HangUp, ContextEnds, JobStates
    <2>3. CASE RunReturns(j)
        BY <1>1, <2>3 DEF RunReturns, NoJob
    <2>4. QED BY <1>2, <2>1, <2>2, <2>3 DEF JobStep, Transaction, OpenFails, OpenLost,
                 CloseCommits, CloseTimesOut, CloseRefused
<1>3. CASE WorkerCalls \/ Deadline
    BY <1>1, <1>3 DEF WorkerCalls, Deadline, ContextEnds, JobStates
<1>4. CASE Main
    <2>1. CASE StopWorkers
        <3>1. job'[Background].pc = job[Background].pc
            BY <1>1, <2>1 DEF StopWorkers, JobStates
        <3>2. QED BY <3>1
    <2>2. CASE Leave \/ Crash
        BY <1>1, <2>2 DEF Leave, Crash, End, NoJob
    <2>3. CASE Signal \/ Drained \/ DrainTimesOut \/ ClosePool \/ Boot
        BY <2>3 DEF Signal, Drained, DrainTimesOut, ClosePool, Boot
    <2>4. QED BY <1>4, <2>1, <2>2, <2>3 DEF Main, ShuttingDown
<1>5. CASE (Receive /\ UNCHANGED processVars) \/ (\E h \in Handlers : Queueing(h)) \/ WorkerLoop
    BY <1>5 DEF Queueing, WorkerLoop, processVars
<1>6. CASE UNCHANGED allVars
    BY <1>6 DEF allVars, processVars
<1>7. OpenCommits(Background)
    BY <1>2, <1>3, <1>4, <1>5, <1>6 DEF ProcessNext
<1>8. QED BY <1>7 DEF OpenCommits

\* A stop signal is the end of the worker's syncs: the one in flight is cut off
\* and none begins after it.
THEOREM WorkerStartsNoLateSync == ProcessSpec => NoSyncStartsLate
<1>1. ProcessInit => CutOff
    BY DEF ProcessInit, CutOff
<1>2. ProcessIInv /\ CutOff /\ [ProcessNext]_allVars => CutOff'
    BY CutOffStep DEF ProcessIInv
<1>3. TypeOK /\ ProcessIInv /\ CutOff /\ [ProcessNext]_allVars =>
        [BeginsWork(Background) => main \notin {"stopping", "closing"}]_allVars
    <2> SUFFICES ASSUME TypeOK, ProcessIInv, CutOff, [ProcessNext]_allVars,
                        BeginsWork(Background)
                 PROVE  main \notin {"stopping", "closing"}
        OBVIOUS
    <2>1. OpenCommits(Background)
        BY OnlyCommitBegins DEF ProcessIInv
    <2>2. job[Background].live /\ job[Background].pc = "opening"
        BY <2>1 DEF OpenCommits
    <2>3. QED BY <2>2 DEF CutOff
<1>4. QED BY <1>1, <1>2, <1>3, ProcessInductive, QueueTyped, PTL
          DEF ProcessSpec, NoSyncStartsLate
=============================================================================
