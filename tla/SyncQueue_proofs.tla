-------------------------- MODULE SyncQueue_proofs --------------------------
(***************************************************************************)
(* What holds of SyncQueue for every set of stores, every set of handlers  *)
(* and every size of the channel.                                          *)
(*                                                                         *)
(* The inductive invariant IInv is the type invariant, the correspondence  *)
(* of marks with their holders (OneTokenPerMark), the fact that a handler  *)
(* or worker that holds a store holds a real one, and, when there is room, *)
(* that no handler found the channel full and every owed store is marked.  *)
(***************************************************************************)
EXTENDS SyncQueue, FiniteSetTheorems, TLAPS

\* A handler between the check and its return, and a worker between the take
\* and the end of the sync, hold a store.
Holding == /\ \A h \in Handlers : handler[h].pc # "idle" => handler[h].shop \in Shops
           /\ worker.pc \in {"taken", "syncing"} => worker.shop \in Shops

IInv == TypeOK /\ Holding /\ OneTokenPerMark /\ NeverFull /\ OwedIsWaiting

-----------------------------------------------------------------------------
(***************************************************************************)
(* Distinct stores in a sequence, none of them d, leave a place for d.     *)
(***************************************************************************)
LEMMA DistinctLeaveRoom ==
    ASSUME NEW S, IsFiniteSet(S), NEW q \in Seq(S), NEW d \in S,
           \A i, j \in 1..Len(q) : q[i] = q[j] => i = j,
           \A i \in 1..Len(q) : q[i] # d
    PROVE  Len(q) < Cardinality(S)
<1> DEFINE T == S \ {d}
<1>1. IsFiniteSet(T) /\ Cardinality(T) = Cardinality(S) - 1
    BY FS_RemoveElement
<1>2. Cardinality(S) \in Nat /\ Cardinality(T) \in Nat
    BY <1>1, FS_CardinalityType
<1>3. IsFiniteSet(1..Len(q)) /\ Cardinality(1..Len(q)) = Len(q)
    <2>1. Len(q) \in Nat
        OBVIOUS
    <2>2. IsFiniteSet(1..Len(q)) /\ Cardinality(1..Len(q)) = IF 1 > Len(q) THEN 0 ELSE Len(q) - 1 + 1
        BY <2>1, FS_Interval
    <2>3. QED BY <2>1, <2>2
<1>4. q \in [1..Len(q) -> T]
    OBVIOUS
<1>5. ~(Cardinality(T) < Cardinality(1..Len(q)))
    <2>1. SUFFICES ASSUME Cardinality(T) < Cardinality(1..Len(q)) PROVE FALSE
        OBVIOUS
    <2>2. \E x, y \in 1..Len(q) : x # y /\ q[x] = q[y]
        BY <1>1, <1>3, <1>4, <2>1, FS_PigeonHole
    <2>3. QED BY <2>2
<1>6. QED BY <1>1, <1>2, <1>3, <1>5

-----------------------------------------------------------------------------
LEMMA InitIInv == Init => IInv
<1>1. SUFFICES ASSUME Init PROVE IInv
    OBVIOUS
<1>2. TypeOK
    BY <1>1, CapAssumption DEF Init, TypeOK, Idle, HandlerStates, WorkerStates
<1>3. Holding /\ OneTokenPerMark /\ NeverFull /\ OwedIsWaiting
    BY <1>1 DEF Init, Holding, OneTokenPerMark, MarkCovered, NoDoubleEntry,
                OneHolder, NeverFull, OwedIsWaiting, Idle, Queued, Taken, Marking
<1>4. QED BY <1>2, <1>3 DEF IInv

LEMMA TypeStep == TypeOK /\ Holding /\ [Next]_vars => TypeOK' /\ Holding'
<1> SUFFICES ASSUME TypeOK, Holding, [Next]_vars PROVE TypeOK' /\ Holding'
    OBVIOUS
<1> USE CapAssumption, ShopsAssumption
    DEF TypeOK, Holding, HandlerStates, WorkerStates, Idle, Move, Return
<1>1. ASSUME NEW h \in Handlers, NEW d \in Shops, Webhook(h, d)
      PROVE TypeOK' /\ Holding'
    BY <1>1 DEF Webhook, EnqueueSkip, EnqueueMark
<1>2. ASSUME NEW h \in Handlers, HandlerStep(h) PROVE TypeOK' /\ Holding'
    <2>1. CASE EnqueueSend(h)
        BY <2>1 DEF EnqueueSend
    <2>2. CASE EnqueueFull(h)
        BY <2>2 DEF EnqueueFull
    <2>3. CASE EnqueueDrop(h)
        BY <2>3 DEF EnqueueDrop
    <2>4. QED BY <1>2, <2>1, <2>2, <2>3 DEF HandlerStep
<1>3. CASE WorkerTake
    BY <1>3 DEF WorkerTake
<1>4. CASE WorkerRelease
    BY <1>4 DEF WorkerRelease
<1>5. CASE WorkerDone \/ WorkerStop
    BY <1>5 DEF WorkerDone, WorkerStop
<1>6. CASE Stop \/ Start
    BY <1>6 DEF Stop, Start
<1>7. CASE Exit
    BY <1>7 DEF Exit
<1>8. CASE UNCHANGED vars
    BY <1>8 DEF vars
<1>9. QED BY <1>1, <1>2, <1>3, <1>4, <1>5, <1>6, <1>7, <1>8 DEF Next, Worker

-----------------------------------------------------------------------------
(***************************************************************************)
(* OneTokenPerMark, one lemma per step that moves a token: the mark is     *)
(* made by a handler, which passes it to the channel or gives it up; the   *)
(* channel passes it to the worker, which gives it up when the sync starts.*)
(***************************************************************************)
LEMMA MarkKeepsTokens ==
    ASSUME TypeOK, Holding, OneTokenPerMark,
           NEW h \in Handlers, NEW d \in Shops, EnqueueMark(h, d)
    PROVE  OneTokenPerMark'
<1> USE DEF TypeOK, Holding, HandlerStates, Queued, Taken, Marking
<1>1. handler' = [handler EXCEPT ![h] = [pc |-> "marked", shop |-> d]]
      /\ waiting' = waiting \cup {d} /\ queue' = queue /\ worker' = worker
      /\ handler[h].pc = "idle" /\ d \notin waiting
    BY DEF EnqueueMark, Move
<1>2. ~Queued(d) /\ ~Taken(d) /\ \A g \in Handlers : ~Marking(g, d)
    BY <1>1 DEF OneTokenPerMark, MarkCovered
<1>3. \A e \in Shops, g \in Handlers : Marking(g, e)' <=> Marking(g, e) \/ (g = h /\ e = d)
    BY <1>1
<1>4. \A e \in Shops : (Queued(e)' <=> Queued(e)) /\ (Taken(e)' <=> Taken(e))
    BY <1>1
<1>5. MarkCovered'
    BY <1>1, <1>3, <1>4 DEF OneTokenPerMark, MarkCovered
<1>6. NoDoubleEntry'
    BY <1>1 DEF OneTokenPerMark, NoDoubleEntry
<1>7. OneHolder'
    BY <1>2, <1>3, <1>4 DEF OneTokenPerMark, OneHolder
<1>8. QED BY <1>5, <1>6, <1>7 DEF OneTokenPerMark

LEMMA SendKeepsTokens ==
    ASSUME TypeOK, Holding, OneTokenPerMark, NEW h \in Handlers, EnqueueSend(h)
    PROVE  OneTokenPerMark'
<1> DEFINE d == handler[h].shop
<1> USE DEF TypeOK, Holding, HandlerStates, Queued, Taken, Marking
<1>1. /\ handler' = [handler EXCEPT ![h] = Idle]
      /\ waiting' = waiting /\ queue' = Append(queue, d) /\ worker' = worker
      /\ Marking(h, d) /\ d \in Shops
    BY DEF EnqueueSend, Return
<1>2. ~Queued(d) /\ ~Taken(d) /\ \A g \in Handlers : Marking(g, d) => g = h
    BY <1>1 DEF OneTokenPerMark, OneHolder
<1>3. \A e \in Shops, g \in Handlers : Marking(g, e)' <=> Marking(g, e) /\ g # h
    BY <1>1 DEF Idle
<1>4. \A e \in Shops : Queued(e)' <=> Queued(e) \/ e = d
    <2>1. /\ Len(queue') = Len(queue) + 1 /\ Len(queue) \in Nat
          /\ \A i \in 1..Len(queue) : queue'[i] = queue[i]
          /\ queue'[Len(queue) + 1] = d
        BY <1>1
    <2>2. QED BY <2>1
<1>5. \A e \in Shops : Taken(e)' <=> Taken(e)
    BY <1>1
<1>6. MarkCovered'
    BY <1>1, <1>3, <1>4, <1>5 DEF OneTokenPerMark, MarkCovered
<1>7. NoDoubleEntry'
    BY <1>1, <1>2 DEF OneTokenPerMark, NoDoubleEntry
<1>8. OneHolder'
    BY <1>2, <1>3, <1>4, <1>5 DEF OneTokenPerMark, OneHolder
<1>9. QED BY <1>6, <1>7, <1>8 DEF OneTokenPerMark

LEMMA DropKeepsTokens ==
    ASSUME TypeOK, Holding, OneTokenPerMark, NEW h \in Handlers, EnqueueDrop(h)
    PROVE  OneTokenPerMark'
<1> DEFINE d == handler[h].shop
<1> USE DEF TypeOK, Holding, HandlerStates, Queued, Taken, Marking
<1>1. /\ handler' = [handler EXCEPT ![h] = Idle]
      /\ waiting' = waiting \ {d} /\ queue' = queue /\ worker' = worker
      /\ Marking(h, d) /\ d \in Shops
    BY DEF EnqueueDrop, Return
<1>2. ~Queued(d) /\ ~Taken(d) /\ \A g \in Handlers : Marking(g, d) => g = h
    BY <1>1 DEF OneTokenPerMark, OneHolder
<1>3. \A e \in Shops, g \in Handlers : Marking(g, e)' <=> Marking(g, e) /\ g # h
    BY <1>1 DEF Idle
<1>4. \A e \in Shops : (Queued(e)' <=> Queued(e)) /\ (Taken(e)' <=> Taken(e))
    BY <1>1
<1>5. MarkCovered'
    <2>1. \A e \in Shops : e # d => \A g \in Handlers : Marking(g, e) => g # h
        BY <1>1
    <2>2. QED BY <1>1, <1>2, <1>3, <1>4, <2>1 DEF OneTokenPerMark, MarkCovered
<1>6. NoDoubleEntry'
    BY <1>1 DEF OneTokenPerMark, NoDoubleEntry
<1>7. OneHolder'
    BY <1>3, <1>4 DEF OneTokenPerMark, OneHolder
<1>8. QED BY <1>5, <1>6, <1>7 DEF OneTokenPerMark

LEMMA TakeKeepsTokens ==
    ASSUME TypeOK, Holding, OneTokenPerMark, WorkerTake
    PROVE  OneTokenPerMark'
<1> DEFINE d == Head(queue)
<1> USE DEF TypeOK, Queued, Taken, Marking
<1>1. /\ handler' = handler /\ waiting' = waiting
      /\ queue # <<>> /\ queue' = Tail(queue)
      /\ worker' = [pc |-> "taken", shop |-> d] /\ worker.pc = "idle"
    BY DEF WorkerTake
<1>2. /\ Len(queue) \in Nat \ {0} /\ Len(queue') = Len(queue) - 1
      /\ \A i \in 1..Len(queue') : queue'[i] = queue[i + 1]
      /\ d = queue[1] /\ d \in Shops /\ Queued(d)
    BY <1>1
<1>3. \A e \in Shops : Queued(e)' <=> Queued(e) /\ e # d
    <2>1. \A i \in 1..Len(queue) : queue[i] = d => i = 1
        BY <1>2 DEF OneTokenPerMark, NoDoubleEntry
    <2>2. ASSUME NEW e \in Shops, Queued(e), e # d PROVE Queued(e)'
        <3>1. PICK i \in 1..Len(queue) : queue[i] = e
            BY <2>2
        <3>2. i # 1
            BY <1>2, <2>2, <3>1
        <3>3. i - 1 \in 1..Len(queue') /\ queue'[i - 1] = e
            BY <1>2, <3>1, <3>2
        <3>4. QED BY <3>3
    <2>3. ASSUME NEW e \in Shops, Queued(e)' PROVE Queued(e) /\ e # d
        <3>1. PICK i \in 1..Len(queue') : queue'[i] = e
            BY <2>3
        <3>2. i + 1 \in 1..Len(queue) /\ queue[i + 1] = e /\ i + 1 # 1
            BY <1>2, <3>1
        <3>3. QED BY <2>1, <3>2
    <2>4. QED BY <2>2, <2>3
<1>4. \A e \in Shops : ~Taken(e) /\ (Taken(e)' <=> e = d)
    BY <1>1
<1>5. \A e \in Shops, g \in Handlers : Marking(g, e)' <=> Marking(g, e)
    BY <1>1
<1>6. MarkCovered'
    BY <1>1, <1>2, <1>3, <1>4, <1>5 DEF OneTokenPerMark, MarkCovered
<1>7. NoDoubleEntry'
    BY <1>2 DEF OneTokenPerMark, NoDoubleEntry
<1>8. OneHolder'
    BY <1>2, <1>3, <1>4, <1>5 DEF OneTokenPerMark, OneHolder
<1>9. QED BY <1>6, <1>7, <1>8 DEF OneTokenPerMark

LEMMA ReleaseKeepsTokens ==
    ASSUME TypeOK, Holding, OneTokenPerMark, WorkerRelease
    PROVE  OneTokenPerMark'
<1> DEFINE d == worker.shop
<1> USE DEF TypeOK, Holding, WorkerStates, Queued, Taken, Marking
<1>1. /\ handler' = handler /\ queue' = queue /\ waiting' = waiting \ {d}
      /\ worker' = [worker EXCEPT !.pc = "syncing"] /\ Taken(d) /\ d \in Shops
    BY DEF WorkerRelease
<1>2. ~Queued(d) /\ \A g \in Handlers : ~Marking(g, d)
    BY <1>1 DEF OneTokenPerMark, OneHolder
<1>3. \A e \in Shops : ~Taken(e)' /\ (Taken(e) <=> e = d)
    BY <1>1
<1>4. \A e \in Shops : (Queued(e)' <=> Queued(e)) /\ \A g \in Handlers : Marking(g, e)' <=> Marking(g, e)
    BY <1>1
<1>5. MarkCovered'
    BY <1>1, <1>2, <1>3, <1>4 DEF OneTokenPerMark, MarkCovered
<1>6. NoDoubleEntry'
    BY <1>1 DEF OneTokenPerMark, NoDoubleEntry
<1>7. OneHolder'
    BY <1>3, <1>4 DEF OneTokenPerMark, OneHolder
<1>8. QED BY <1>5, <1>6, <1>7 DEF OneTokenPerMark

LEMMA TokenStep ==
    TypeOK /\ Holding /\ OneTokenPerMark /\ [Next]_vars => OneTokenPerMark'
<1> SUFFICES ASSUME TypeOK, Holding, OneTokenPerMark, [Next]_vars
             PROVE  OneTokenPerMark'
    OBVIOUS
<1> USE DEF OneTokenPerMark, MarkCovered, NoDoubleEntry, OneHolder, Queued, Taken, Marking
<1>1. ASSUME NEW h \in Handlers, NEW d \in Shops, Webhook(h, d)
      PROVE OneTokenPerMark'
    <2>1. CASE EnqueueSkip(h, d)
        BY <2>1 DEF EnqueueSkip
    <2>2. CASE EnqueueMark(h, d)
        BY <2>2, MarkKeepsTokens
    <2>3. QED BY <1>1, <2>1, <2>2 DEF Webhook
<1>2. ASSUME NEW h \in Handlers, HandlerStep(h) PROVE OneTokenPerMark'
    <2>1. CASE EnqueueSend(h)
        BY <2>1, SendKeepsTokens
    <2>2. CASE EnqueueFull(h)
        <3>1. \A g \in Handlers, e \in Shops : Marking(g, e)' <=> Marking(g, e)
            BY <2>2 DEF EnqueueFull, Move, TypeOK, HandlerStates
        <3>2. /\ queue' = queue /\ waiting' = waiting /\ worker' = worker
            BY <2>2 DEF EnqueueFull
        <3>3. QED BY <3>1, <3>2
    <2>3. CASE EnqueueDrop(h)
        BY <2>3, DropKeepsTokens
    <2>4. QED BY <1>2, <2>1, <2>2, <2>3 DEF HandlerStep
<1>3. CASE WorkerTake
    BY <1>3, TakeKeepsTokens
<1>4. CASE WorkerRelease
    BY <1>4, ReleaseKeepsTokens
<1>5. CASE WorkerDone \/ WorkerStop
    BY <1>5 DEF WorkerDone, WorkerStop, Idle
<1>6. CASE Stop \/ Start
    BY <1>6 DEF Stop, Start
<1>7. CASE Exit
    BY <1>7 DEF Exit, Idle
<1>8. CASE UNCHANGED vars
    BY <1>8 DEF vars
<1>9. QED BY <1>1, <1>2, <1>3, <1>4, <1>5, <1>6, <1>7, <1>8 DEF Next, Worker

-----------------------------------------------------------------------------
(***************************************************************************)
(* Room.  A handler that finds the channel full holds a store that is not  *)
(* among the distinct ones in it, so there are more stores than places.    *)
(***************************************************************************)
LEMMA FullMeansNoRoom ==
    ASSUME TypeOK, Holding, OneTokenPerMark, NEW h \in Handlers, EnqueueFull(h)
    PROVE  ~HasRoom
<1> DEFINE d == handler[h].shop
<1>1. d \in Shops /\ Marking(h, d) /\ Len(queue) = QueueCap /\ queue \in Seq(Shops)
    BY DEF EnqueueFull, TypeOK, Holding, Marking
<1>2. \A i \in 1..Len(queue) : queue[i] # d
    BY <1>1 DEF OneTokenPerMark, OneHolder, Queued
<1>3. Len(queue) < Cardinality(Shops)
    BY <1>1, <1>2, DistinctLeaveRoom, ShopsAssumption DEF OneTokenPerMark, NoDoubleEntry
<1>4. Cardinality(Shops) \in Nat
    BY FS_CardinalityType, ShopsAssumption
<1>5. QED BY <1>1, <1>3, <1>4, CapAssumption DEF HasRoom

LEMMA RoomStep == IInv /\ [Next]_vars => NeverFull' /\ OwedIsWaiting'
<1> SUFFICES ASSUME IInv, [Next]_vars, HasRoom
             PROVE  /\ \A h \in Handlers : handler'[h].pc # "full"
                    /\ owed' \subseteq waiting'
    BY DEF NeverFull, OwedIsWaiting, HasRoom
<1> USE DEF NeverFull, OwedIsWaiting, Idle
<1>1. /\ \A h \in Handlers : handler[h].pc # "full"
      /\ owed \subseteq waiting /\ TypeOK /\ Holding /\ OneTokenPerMark
    BY DEF IInv
<1>2. ASSUME NEW h \in Handlers, NEW d \in Shops, Webhook(h, d)
      PROVE  (\A g \in Handlers : handler'[g].pc # "full") /\ owed' \subseteq waiting'
    BY <1>1, <1>2 DEF Webhook, EnqueueSkip, EnqueueMark, Move, TypeOK
<1>3. ASSUME NEW h \in Handlers, HandlerStep(h)
      PROVE  (\A g \in Handlers : handler'[g].pc # "full") /\ owed' \subseteq waiting'
    <2>1. CASE EnqueueSend(h)
        BY <1>1, <2>1 DEF EnqueueSend, Return, TypeOK
    <2>2. CASE EnqueueFull(h)
        BY <1>1, <2>2, FullMeansNoRoom
    <2>3. CASE EnqueueDrop(h)
        BY <1>1, <2>3 DEF EnqueueDrop
    <2>4. QED BY <1>3, <2>1, <2>2, <2>3 DEF HandlerStep
<1>4. CASE Worker
    BY <1>1, <1>4 DEF Worker, WorkerTake, WorkerRelease, WorkerDone, WorkerStop
<1>5. CASE Stop \/ Start
    BY <1>1, <1>5 DEF Stop, Start
<1>6. CASE Exit
    BY <1>1, <1>6 DEF Exit
<1>7. CASE UNCHANGED vars
    BY <1>1, <1>7 DEF vars
<1>8. QED BY <1>2, <1>3, <1>4, <1>5, <1>6, <1>7 DEF Next

-----------------------------------------------------------------------------
LEMMA Inductive == Spec => []IInv
<1>1. Init => IInv
    BY InitIInv
<1>2. IInv /\ [Next]_vars => IInv'
    BY TypeStep, TokenStep, RoomStep DEF IInv
<1>3. QED BY <1>1, <1>2, PTL DEF Spec

\* The channel never holds more than its buffer, and every variable keeps its
\* type.
THEOREM TypeCorrect == Spec => []TypeOK
<1>1. IInv => TypeOK
    BY DEF IInv
<1>2. QED BY <1>1, Inductive, PTL

\* A mark in the waiting map (Enqueue, StartWorker) always stands for exactly
\* one outstanding request of its store.
THEOREM MarksAreTokens == Spec => []OneTokenPerMark
<1>1. IInv => OneTokenPerMark
    BY DEF IInv
<1>2. QED BY <1>1, Inductive, PTL

\* With at most as many stores as places in the channel, Enqueue's default case
\* is never reached, whatever the number of handlers.
THEOREM RoomForAll == Spec => []NeverFull
<1>1. IInv => NeverFull
    BY DEF IInv
<1>2. QED BY <1>1, Inductive, PTL

\* ... and a store whose webhook was answered 202 stays marked until a sync of
\* it starts.
THEOREM NoWebhookLost == Spec => []OwedIsWaiting
<1>1. IInv => OwedIsWaiting
    BY DEF IInv
<1>2. QED BY <1>1, Inductive, PTL

-----------------------------------------------------------------------------
\* Enqueue and the worker implement the abstract set of requests: every step is
\* a step of SyncRequests or leaves its variables alone, and a request is only
\* lost where there are more stores than places.
THEOREM Refinement == Spec => ImplementsRequests
<1> DEFINE active == IF worker.pc = "syncing" THEN worker.shop ELSE NoShop
<1>1. Init => Requests!Init
    BY DEF Init, Requests!Init, Idle
<1>2. IInv /\ [Next]_vars => [Requests!Next]_(Requests!vars)
    <2> SUFFICES ASSUME IInv, [Next]_vars
                 PROVE  Requests!Next \/ (waiting' = waiting /\ active' = active)
        BY DEF Requests!vars
    <2>1. TypeOK /\ Holding /\ OneTokenPerMark /\ NeverFull
        BY DEF IInv
    <2>2. ASSUME NEW h \in Handlers, NEW d \in Shops, Webhook(h, d)
          PROVE  Requests!Next \/ (waiting' = waiting /\ active' = active)
        BY <2>2 DEF Webhook, EnqueueSkip, EnqueueMark, Requests!Next, Requests!Ask
    <2>3. ASSUME NEW h \in Handlers, HandlerStep(h)
          PROVE  Requests!Next \/ (waiting' = waiting /\ active' = active)
        <3>1. CASE EnqueueSend(h) \/ EnqueueFull(h)
            BY <3>1 DEF EnqueueSend, EnqueueFull
        <3>2. CASE EnqueueDrop(h)
            <4>1. handler[h].shop \in Shops
                BY <2>1, <3>2 DEF EnqueueDrop, Holding
            <4>2. ~HasRoom
                BY <2>1, <3>2 DEF EnqueueDrop, NeverFull
            <4>3. Requests!Lose(handler[h].shop)
                <5>1. waiting' = waiting \ {handler[h].shop} /\ worker' = worker
                    BY <3>2 DEF EnqueueDrop
                <5>2. active' = active
                    BY <5>1
                <5>3. QED BY <4>2, <5>1, <5>2 DEF Requests!Lose
            <4>4. QED BY <4>1, <4>3 DEF Requests!Next
        <3>3. QED BY <2>3, <3>1, <3>2 DEF HandlerStep
    <2>4. CASE WorkerTake \/ WorkerStop
        BY <2>4 DEF WorkerTake, WorkerStop
    <2>5. CASE WorkerRelease
        <3>1. worker.shop \in Shops /\ worker.shop \in waiting
            BY <2>1, <2>5 DEF WorkerRelease, Holding, OneTokenPerMark, MarkCovered, Taken
        <3>2. Requests!Begin(worker.shop)
            BY <2>1, <2>5, <3>1 DEF WorkerRelease, Requests!Begin, TypeOK, WorkerStates
        <3>3. QED BY <3>1, <3>2 DEF Requests!Next
    <2>6. CASE WorkerDone
        <3>1. worker.shop # NoShop
            BY <2>1, <2>6, ShopsAssumption DEF WorkerDone, Holding
        <3>2. Requests!End
            BY <2>6, <3>1 DEF WorkerDone, Requests!End, Idle
        <3>3. QED BY <3>2 DEF Requests!Next
    <2>7. CASE Stop \/ Start
        BY <2>7 DEF Stop, Start
    <2>8. CASE Exit
        BY <2>8 DEF Exit, Idle, Requests!Next, Requests!Forget
    <2>9. CASE UNCHANGED vars
        BY <2>9 DEF vars
    <2>10. QED BY <2>2, <2>3, <2>4, <2>5, <2>6, <2>7, <2>8, <2>9 DEF Next, Worker
<1>3. QED BY <1>1, <1>2, Inductive, PTL DEF Spec, ImplementsRequests, Requests!Spec

-----------------------------------------------------------------------------
\* What httpx.Accepted says of a 202, "it is queued", is true with a place in the
\* channel for every store: a store with an unserved webhook is with a handler,
\* in the channel or in the worker's hands.  Without that room it is false, which
\* the run queue_promise shows.
THEOREM AcceptedWithRoom == Spec => [](HasRoom => AcceptedIsQueued)
<1>1. IInv => (HasRoom => AcceptedIsQueued)
    <2> SUFFICES ASSUME IInv, HasRoom, NEW d \in owed
                 PROVE  Queued(d) \/ Taken(d) \/ \E h \in Handlers : Marking(h, d)
        BY DEF AcceptedIsQueued
    <2>1. d \in waiting /\ d \in Shops
        BY DEF IInv, OwedIsWaiting, TypeOK
    <2>2. QED BY <2>1 DEF IInv, OneTokenPerMark, MarkCovered
<1>2. QED BY <1>1, Inductive, PTL

\* The store in place i is taken by the worker or keeps its place; when the
\* worker takes another, it comes a place closer.
KeepsPlace(i) ==
    \/ worker' = [pc |-> "taken", shop |-> queue[i]]
    \/ \E j \in 1..Len(queue') :
         /\ queue'[j] = queue[i] /\ j <= i
         /\ worker.pc = "idle" /\ worker'.pc = "taken" => j < i

\* No store in the channel is overtaken while the process lives: this is why,
\* with a worker that goes on, QueuedIsServed holds however many webhooks arrive.
NeverOvertaken == [][life' # "down" => \A i \in 1..Len(queue) : KeepsPlace(i)]_vars

\* What a step may do to the channel: nothing, add a store at the end, or give
\* the first to the worker.
LEMMA ChannelStep ==
    ASSUME TypeOK, Holding, [Next]_vars, life' # "down"
    PROVE  \/ queue' = queue /\ ~(worker.pc = "idle" /\ worker'.pc = "taken")
           \/ (\E d \in Shops : queue' = Append(queue, d)) /\ worker' = worker
           \/ /\ queue # <<>> /\ queue' = Tail(queue)
              /\ worker' = [pc |-> "taken", shop |-> Head(queue)]
<1>1. ASSUME NEW h \in Handlers, NEW d \in Shops, Webhook(h, d)
      PROVE  queue' = queue /\ worker' = worker
    BY <1>1 DEF Webhook, EnqueueSkip, EnqueueMark
<1>2. ASSUME NEW h \in Handlers, EnqueueFull(h) \/ EnqueueDrop(h)
      PROVE  queue' = queue /\ worker' = worker
    BY <1>2 DEF EnqueueFull, EnqueueDrop
<1>3. CASE WorkerRelease
    BY <1>3 DEF WorkerRelease, TypeOK, WorkerStates
<1>4. CASE WorkerDone \/ WorkerStop
    BY <1>4 DEF WorkerDone, WorkerStop, Idle
<1>5. CASE Stop \/ Start \/ UNCHANGED vars
    BY <1>5 DEF Stop, Start, vars
<1>6. ASSUME NEW h \in Handlers, EnqueueSend(h)
      PROVE  (\E d \in Shops : queue' = Append(queue, d)) /\ worker' = worker
    BY <1>6 DEF EnqueueSend, Holding
<1>7. CASE WorkerTake
    BY <1>7 DEF WorkerTake
<1>8. ~Exit
    BY DEF Exit
<1>9. QED BY <1>1, <1>2, <1>3, <1>4, <1>5, <1>6, <1>7, <1>8 DEF Next, HandlerStep, Worker

\* A store waits for the stores that were in the channel before it, and for no
\* other: Enqueue adds at the end, StartWorker takes from the front.
THEOREM NoStoreIsOvertaken == Spec => NeverOvertaken
<1>1. ASSUME IInv, [Next]_vars, life' # "down", NEW i \in 1..Len(queue)
      PROVE  KeepsPlace(i)
    <2>1. TypeOK /\ Holding /\ queue \in Seq(Shops)
        BY <1>1 DEF IInv, TypeOK
    <2>2. CASE queue' = queue /\ ~(worker.pc = "idle" /\ worker'.pc = "taken")
        BY <2>2 DEF KeepsPlace
    <2>3. ASSUME NEW d \in Shops, queue' = Append(queue, d), worker' = worker
          PROVE  i \in 1..Len(queue') /\ queue'[i] = queue[i]
                 /\ ~(worker.pc = "idle" /\ worker'.pc = "taken")
        BY <2>1, <2>3
    <2>4. CASE queue # <<>> /\ queue' = Tail(queue) /\ worker' = [pc |-> "taken", shop |-> Head(queue)]
        <3>1. CASE i = 1
            BY <2>1, <2>4, <3>1 DEF KeepsPlace
        <3>2. CASE i # 1
            <4>1. i - 1 \in 1..Len(queue') /\ queue'[i - 1] = queue[i] /\ i - 1 < i
                BY <2>1, <2>4, <3>2
            <4>2. QED BY <4>1 DEF KeepsPlace
        <3>3. QED BY <3>1, <3>2
    <2>5. QED BY <1>1, <2>1, <2>2, <2>3, <2>4, ChannelStep DEF KeepsPlace
<1>2. IInv /\ [Next]_vars => [life' # "down" => \A i \in 1..Len(queue) : KeepsPlace(i)]_vars
    BY <1>1
<1>3. QED BY <1>2, Inductive, PTL DEF Spec, NeverOvertaken
=============================================================================
