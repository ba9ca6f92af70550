--------------------------- MODULE SyncRun_proofs ---------------------------
(***************************************************************************)
(* What holds of SyncRun for every number of callers, every store, every   *)
(* feed, every batch size and however many faults.                         *)
(***************************************************************************)
EXTENDS SyncRun, Reconcile_proofs

(***************************************************************************)
(* The inductive invariant.  Beside the types it says who owns a row, and  *)
(* how far a call has come: what landed on Shopify for its run is exactly  *)
(* the prefix of its updates that it is past, which is none before Apply   *)
(* and all of them when it closes without a failure.  A batch that was     *)
(* given up and may still land belongs to a run that does not work any     *)
(* more and has not succeeded, and names no item the run has set.          *)
(***************************************************************************)
Owners == /\ \A c \in Callers : Busy(c) =>
                call[c].run \in 1..Len(rows) /\ rows[call[c].run].state = "open"
          /\ \A c, d \in Callers : Busy(c) /\ Busy(d) /\ call[c].run = call[d].run => c = d

Prefix(c, n) == {call[c].updates[i] : i \in 1..n}

FollowsFeed(u, stock) == /\ u.item.sku = SkuOf[u.item.id]
                         /\ u.item.sku \in DOMAIN stock
                         /\ u.new = Wanted(stock, u.item.sku)

Reading(c) == call[c].pc \in {"feed", "list", "poll"} =>
    ~call[c].failed /\ call[c].updates = <<>> /\ call[c].next = 1
    /\ landed[call[c].run] = {}

Holding(c) == call[c].pc \in {"list", "poll", "apply"} => call[c].stock \in Feeds

\* No two updates of a list are about one item.
NamesOnce(us) == \A m, n \in 1..Len(us) : us[m].item.id = us[n].item.id => m = n

Applying(c) == call[c].pc = "apply" =>
    /\ ~call[c].failed /\ call[c].next <= Len(call[c].updates)
    /\ landed[call[c].run] = Prefix(c, call[c].next - 1)
    /\ \A n \in 1..Len(call[c].updates) : FollowsFeed(call[c].updates[n], call[c].stock)
    /\ NamesOnce(call[c].updates)

Ending(c) == /\ call[c].pc \in {"closing", "logged"} /\ ~call[c].failed =>
                  landed[call[c].run] = Prefix(c, Len(call[c].updates))
             /\ call[c].failed => call[c].updates = <<>>
             /\ call[c].pc = "logged" => ~call[c].failed

Progress == \A c \in Callers : Reading(c) /\ Holding(c) /\ Applying(c) /\ Ending(c)

Stray(r) == late[r].batch # {} =>
    /\ r \in 1..Len(rows) /\ ~Succeeded(rows[r])
    /\ \A c \in Callers : Busy(c) /\ call[c].run = r => call[c].failed
    /\ \A u \in late[r].batch : FollowsFeed(u, late[r].stock)
    /\ \A u \in late[r].batch, w \in landed[r] : u.item.id # w.item.id

Strays == \A r \in 1..MaxRuns : Stray(r)

IInv == TypeOK /\ Owners /\ Progress /\ Strays /\ ClaimMatchesLog /\ LogMatchesStore

-----------------------------------------------------------------------------
(***************************************************************************)
(* What Diff returns on a bulk operation's file.                           *)
(***************************************************************************)
LEMMA ItemsFinite == ASSUME NEW lines PROVE IsFiniteSet(Items(lines))
<1> DEFINE f == [v \in Variants |-> [sku |-> SkuOf[v], id |-> v, location |-> "primary",
                                     quantity |-> lines[v]]]
<1>1. f \in Surjection(Variants, Items(lines))
    BY DEF Surjection, Items
<1>2. QED BY <1>1, FS_Surjection, StoreAssumption

LEMMA ListedOnce ==
    ASSUME NEW lines, NEW stock, NEW s \in Diff(Items(lines), stock),
           NEW m \in 1..Len(s), NEW n \in 1..Len(s), s[m].item.id = s[n].item.id
    PROVE  m = n
<1>1. /\ {s[k] : k \in 1..Len(s)} = Updates(Items(lines), stock)
      /\ \A j, k \in 1..Len(s) : s[j] = s[k] => j = k
    BY ItemsFinite, DiffListsUpdates
<1>2. ASSUME NEW k \in 1..Len(s)
      PROVE  /\ s[k].item \in Items(lines)
             /\ s[k] = [item |-> s[k].item, new |-> Wanted(stock, s[k].item.sku)]
    <2>1. s[k] \in Updates(Items(lines), stock)
        BY <1>1
    <2>2. QED BY <2>1, UpdatesFollowFeed
<1>3. \A i, j \in Items(lines) : i.id = j.id => i = j
    BY DEF Items
<1>4. s[m] = s[n]
    BY <1>2, <1>3
<1>5. QED BY <1>1, <1>4

LEMMA DiffType ==
    ASSUME NEW lines \in [Variants -> Int], NEW stock \in Feeds,
           NEW s \in Diff(Items(lines), stock)
    PROVE  /\ s \in Seq(Update)
           /\ \A n \in 1..Len(s) : FollowsFeed(s[n], stock)
           /\ NamesOnce(s)
<1>1. s \in Seq(Updates(Items(lines), stock))
    BY DiffListsUpdates, ItemsFinite
<1>2. ASSUME NEW u \in Updates(Items(lines), stock)
      PROVE  u \in Update /\ FollowsFeed(u, stock)
    <2>1. /\ u.item \in Items(lines) /\ u.item.sku \in DOMAIN stock
          /\ u.new = Wanted(stock, u.item.sku)
          /\ u = [item |-> u.item, new |-> Wanted(stock, u.item.sku)]
        BY UpdatesFollowFeed
    <2>2. u.item \in Item /\ u.item.sku = SkuOf[u.item.id]
        BY <2>1, StoreAssumption DEF Items, Item
    <2>3. Wanted(stock, u.item.sku) \in Nat
        BY <2>1, FeedsAssumption, WantedType
    <2>4. QED BY <2>1, <2>2, <2>3 DEF Update, FollowsFeed
<1>3. Updates(Items(lines), stock) \subseteq Update
    BY <1>2
<1>4. s \in Seq(Update)
    BY <1>1, <1>3
<1>5. NamesOnce(s)
    BY ListedOnce DEF NamesOnce
<1>6. QED BY <1>1, <1>2, <1>4, <1>5

-----------------------------------------------------------------------------
LEMMA NothingType == Nothing \in Request
BY DEF Nothing, Request

LEMMA InitIInv == Init => IInv
<1> SUFFICES ASSUME Init PROVE IInv
    OBVIOUS
<1>1. TypeOK
    <2>1. Idle \in Call
        BY DEF Idle, Fresh, Call
    <2>2. call \in [Callers -> Call] /\ \A c \in Callers : call[c].run = 0 /\ call[c].op = 0
        BY <2>1 DEF Init, Idle, Fresh
    <2>3. level \in [Variants -> Int]
        BY StoreAssumption DEF Init
    <2>4. ops \in Seq(Operation) /\ shown \in 0..Len(ops) /\ Len(ops) = 0
        BY DEF Init
    <2>5. rows \in Seq(Row) /\ changes \in Seq(Seq(Change)) /\ landed \in Seq(SUBSET Update)
          /\ Len(rows) = 0 /\ Len(changes) = 0 /\ Len(landed) = 0 /\ Len(rows) <= MaxRuns
        BY BoundsAssumption DEF Init
    <2>6. /\ late \in [1..MaxRuns -> Request] /\ lateQueries \subseteq 1..MaxRuns
          /\ left \subseteq 1..Len(rows)
        BY NothingType DEF Init
    <2>7. feed \in Feeds /\ quiet \subseteq Callers /\ moves \in Nat /\ faults \in Nat
        BY DEF Init
    <2>8. QED BY <2>2, <2>3, <2>4, <2>5, <2>6, <2>7 DEF TypeOK
<1>2. Owners /\ Progress
    BY DEF Init, Owners, Progress, Busy, Reading, Holding, Applying, Ending, Idle, Fresh
<1>3. ClaimMatchesLog /\ LogMatchesStore
    BY DEF Init, ClaimMatchesLog, LogMatchesStore
<1>4. Strays
    BY DEF Init, Strays, Stray, Nothing
<1>5. QED BY <1>1, <1>2, <1>3, <1>4 DEF IInv

LEMMA BatchType ==
    ASSUME TypeOK, NEW c \in Callers, call[c].next <= Len(call[c].updates)
    PROVE  /\ BatchEnd(c) \in call[c].next..Len(call[c].updates)
           /\ Batch(c) \subseteq Update
<1>1. call[c].updates \in Seq(Update) /\ call[c].next \in Nat \ {0}
    BY DEF TypeOK, Call
<1>2. BatchEnd(c) \in call[c].next..Len(call[c].updates)
    BY <1>1, BatchAssumption DEF BatchEnd
<1>3. QED BY <1>1, <1>2 DEF Batch

LEMMA LandType ==
    ASSUME TypeOK, NEW r, NEW batch \in SUBSET Update, Land(r, batch)
    PROVE  /\ level' \in [Variants -> Int]
           /\ landed' \in Seq(SUBSET Update) /\ Len(landed') = Len(landed)
<1>1. level' \in [Variants -> Int]
    BY DEF Land, TypeOK, Update
<1>2. landed' \in Seq(SUBSET Update) /\ Len(landed') = Len(landed)
    <2>1. landed' = [landed EXCEPT ![r] = @ \cup batch] /\ landed \in Seq(SUBSET Update)
        BY DEF Land, TypeOK
    <2>2. landed \in [1..Len(landed) -> SUBSET Update] /\ Len(landed) \in Nat
        BY <2>1
    <2>3. landed' \in [1..Len(landed) -> SUBSET Update]
        BY <2>1, <2>2
    <2>4. QED BY <2>2, <2>3
<1>3. QED BY <1>1, <1>2

LEMMA SendingType ==
    ASSUME TypeOK, NEW c \in Callers, call[c].next <= Len(call[c].updates)
    PROVE  Sending(c) \in Request
BY BatchType DEF Sending, Request, TypeOK, Call

\* Only c's call changes, and becomes r.
CallBecomes(c, r) == call' = [call EXCEPT ![c] = r]

\* The part of TypeOK about the calls.
CallsTyped == /\ call \in [Callers -> Call]
              /\ \A d \in Callers : call[d].run <= Len(rows) /\ call[d].op <= Len(ops)

LEMMA CallType ==
    ASSUME TypeOK, NEW c \in Callers, NEW r \in Call,
           CallBecomes(c, r),
           Len(rows) <= Len(rows'), Len(ops) <= Len(ops'),
           Len(rows') \in Nat, Len(ops') \in Nat,
           r.run <= Len(rows'), r.op <= Len(ops')
    PROVE  CallsTyped'
<1>1. call \in [Callers -> Call]
      /\ \A d \in Callers : call[d].run <= Len(rows) /\ call[d].op <= Len(ops)
      /\ Len(rows) \in Nat /\ Len(ops) \in Nat
    BY DEF TypeOK
<1>2. \A d \in Callers : call[d].run \in Nat /\ call[d].op \in Nat
    BY <1>1 DEF Call
<1>3. call' \in [Callers -> Call] /\ \A d \in Callers : call'[d] = IF d = c THEN r ELSE call[d]
    BY <1>1 DEF CallBecomes
<1>4. QED BY <1>1, <1>2, <1>3 DEF CallsTyped

\* A call that goes on with its run, and may have started an operation.
LEMMA SameRun ==
    ASSUME TypeOK, NEW c \in Callers, NEW r \in Call, CallBecomes(c, r),
           rows' = rows, ops' \in Seq(Operation), Len(ops) <= Len(ops'),
           r.run \in {0, call[c].run}, r.op \in {0, call[c].op, Len(ops')}
    PROVE  CallsTyped'
<1>1. Len(rows) \in Nat /\ Len(ops) \in Nat /\ Len(ops') \in Nat
      /\ call[c].run <= Len(rows) /\ call[c].op <= Len(ops)
      /\ call[c].run \in Nat /\ call[c].op \in Nat
    BY DEF TypeOK, Call
<1>2. r.run <= Len(rows') /\ r.op <= Len(ops') /\ Len(rows) <= Len(rows') /\ Len(rows') \in Nat
    BY <1>1
<1>3. QED BY <1>1, <1>2, CallType

LEMMA FaultType == TypeOK /\ Fault => faults' \in Nat
BY DEF TypeOK, Fault

LEMMA BreaksType == \A c \in Callers : TypeOK /\ Breaks(c) => faults' \in Nat
BY FaultType DEF TypeOK, Breaks

LEMMA FailedType ==
    ASSUME TypeOK, NEW c \in Callers
    PROVE  /\ Failed(call[c]) \in Call
           /\ Failed(call[c]).run = call[c].run /\ Failed(call[c]).op = call[c].op
<1>1. call[c] \in Call /\ <<>> \in Seq(Update)
    BY DEF TypeOK
<1>2. QED BY <1>1 DEF Failed, Call

LEMMA RowType ==
    ASSUME TypeOK, NEW c \in Callers, NewRow(c)
    PROVE  /\ rows' \in Seq(Row) /\ Len(rows') = Len(rows) + 1 /\ Len(rows') <= MaxRuns
           /\ changes' \in Seq(Seq(Change)) /\ Len(changes') = Len(rows')
           /\ landed' \in Seq(SUBSET Update) /\ Len(landed') = Len(rows')
           /\ rows' = Append(rows, rows'[Len(rows) + 1])
           /\ rows'[Len(rows) + 1].state = "open"
<1> DEFINE row == [trigger |-> Trigger(c), state |-> "open",
                   checked |-> 0, updated |-> 0, failed |-> FALSE]
<1>1. row \in Row /\ row.state = "open"
    BY DEF Row, Trigger
<1>2. rows \in Seq(Row) /\ rows' = Append(rows, row)
    BY DEF TypeOK, NewRow
<1>3. rows' \in Seq(Row) /\ Len(rows') = Len(rows) + 1 /\ rows'[Len(rows) + 1] = row
    BY <1>1, <1>2
<1>4. changes' \in Seq(Seq(Change)) /\ Len(changes') = Len(changes) + 1
    BY DEF TypeOK, NewRow
<1>5. landed' \in Seq(SUBSET Update) /\ Len(landed') = Len(landed) + 1
    BY DEF TypeOK, NewRow
<1>6. Len(rows') <= MaxRuns
    BY <1>3, BoundsAssumption DEF TypeOK, NewRow
<1>7. QED BY <1>1, <1>2, <1>3, <1>4, <1>5, <1>6 DEF TypeOK

LEMMA StartOperationType ==
    ASSUME TypeOK, StartOperation
    PROVE  /\ ops' \in Seq(Operation) /\ Len(ops') = Len(ops) + 1
           /\ shown \in 0..Len(ops')
<1>1. [status |-> "RUNNING", lines |-> level] \in Operation
    BY DEF TypeOK, Operation
<1>2. QED BY <1>1 DEF TypeOK, StartOperation

-----------------------------------------------------------------------------
LEMMA FreshType ==
    ASSUME NEW n \in Nat
    PROVE  /\ Fresh("feed", n) \in Call /\ Fresh("feed", n).run = n /\ Fresh("feed", n).op = 0
           /\ Fresh("open", 0) \in Call /\ Fresh("open", 0).run = 0 /\ Fresh("open", 0).op = 0
           /\ Idle \in Call /\ Idle.run = 0 /\ Idle.op = 0
BY DEF Idle, Fresh, Call

LEMMA RunsBounded == TypeOK => 1..Len(rows) \subseteq 1..MaxRuns
<1> SUFFICES ASSUME TypeOK PROVE 1..Len(rows) \subseteq 1..MaxRuns
    OBVIOUS
<1>1. PICK n, m \in Nat : n = Len(rows) /\ m = MaxRuns /\ n <= m
    BY BoundsAssumption DEF TypeOK
<1>2. QED BY <1>1

\* The call is inside Find or Start, or has left them without a row.
LEMMA OutsideType ==
    ASSUME TypeOK, NEW c \in Callers, Begin(c) \/ OpenFails(c)
    PROVE  TypeOK'
<1>1. PICK r \in {Fresh("open", 0), Idle} : CallBecomes(c, r)
    BY DEF Begin, OpenFails, CallBecomes
<1>2. r \in Call /\ r.run = 0 /\ r.op = 0
    BY FreshType
<1>3. CallsTyped'
    <2>1. rows' = rows /\ ops' = ops /\ ops \in Seq(Operation) /\ Len(ops) \in Nat
        BY DEF Begin, OpenFails, shopify, database, TypeOK
    <2>2. QED BY <1>1, <1>2, <2>1, SameRun
<1>4. QED BY <1>3 DEF TypeOK, CallsTyped, Begin, OpenFails, shopify, database

LEMMA OpeningType ==
    ASSUME TypeOK, NEW c \in Callers, Open(c) \/ OpenLost(c)
    PROVE  TypeOK'
<1>1. NewRow(c) /\ level' = level /\ ops' = ops /\ shown' = shown /\ feed' = feed
      /\ late' = late /\ lateQueries' = lateQueries
      /\ quiet' = quiet /\ moves' = moves /\ Len(rows) \in Nat /\ Len(ops) \in Nat
    BY DEF Open, OpenLost, shopify, TypeOK
<1>2. /\ rows' \in Seq(Row) /\ Len(rows') = Len(rows) + 1 /\ Len(rows') <= MaxRuns
      /\ changes' \in Seq(Seq(Change)) /\ Len(changes') = Len(rows')
      /\ landed' \in Seq(SUBSET Update) /\ Len(landed') = Len(rows')
    BY <1>1, RowType
<1>3. faults' \in Nat
    BY BreaksType DEF Open, OpenLost, TypeOK
<1>4. left' \subseteq 1..Len(rows')
    <2>1. PICK n \in Nat : n = Len(rows)
        BY <1>1
    <2>2. left \subseteq 1..n /\ left' \subseteq left \cup {n + 1} /\ Len(rows') = n + 1
        BY <1>2, <2>1 DEF Open, OpenLost, TypeOK
    <2>3. QED BY <2>2
<1>5. CallsTyped'
    <2>1. PICK r \in {Fresh("feed", Len(rows) + 1), Idle} : CallBecomes(c, r)
        BY DEF Open, OpenLost, CallBecomes
    <2>2. r \in Call /\ r.run \in {0, Len(rows) + 1} /\ r.op = 0
        BY <1>1, <2>1, FreshType
    <2>3. QED BY <1>1, <1>2, <2>1, <2>2, CallType
<1>6. QED BY <1>1, <1>2, <1>3, <1>4, <1>5 DEF TypeOK, CallsTyped

\* Every way to fail changes the call, and at most leaves a request behind.
LEMMA FailingType ==
    ASSUME TypeOK, Owners, Progress, NEW c \in Callers,
           \/ FeedFails(c) \/ BulkRefused(c) \/ BulkRunLost(c) \/ ListFails(c)
           \/ PollFails(c) \/ ApplyLost(c) \/ ApplyFails(c)
    PROVE  TypeOK'
<1>1. /\ feed' = feed /\ rows' = rows /\ changes' = changes /\ moves' = moves
      /\ level' = level /\ ops' = ops /\ shown' = shown /\ landed' = landed /\ left' = left
      /\ quiet' = quiet /\ CallBecomes(c, Failed(call[c]))
    BY DEF FeedFails, BulkRefused, BulkRunLost, ListFails, PollFails, ApplyLost, ApplyFails,
           Fail, CallBecomes, shopify, database
<1>2. faults' \in Nat
    BY BreaksType DEF FeedFails, BulkRefused, BulkRunLost, ListFails, PollFails, ApplyLost,
           ApplyFails, TypeOK
<1>3. lateQueries' \subseteq 1..MaxRuns
    <2>1. CASE BulkRunLost(c)
        <3>1. call[c].run \in 1..Len(rows)
            BY <2>1 DEF BulkRunLost, Owners, Busy
        <3>2. QED BY <2>1, <3>1, RunsBounded DEF BulkRunLost, TypeOK
    <2>2. CASE ~BulkRunLost(c)
        BY <2>2 DEF FeedFails, BulkRefused, ListFails, PollFails, ApplyLost, ApplyFails,
                    shopify, TypeOK
    <2>3. QED BY <2>1, <2>2
<1>4. late' \in [1..MaxRuns -> Request]
    <2>1. CASE ApplyLost(c)
        <3>1. call[c].next <= Len(call[c].updates)
            BY <2>1 DEF ApplyLost, Progress, Applying
        <3>2. QED BY <2>1, <3>1, SendingType DEF ApplyLost, TypeOK
    <2>2. CASE ~ApplyLost(c)
        BY <2>2 DEF FeedFails, BulkRefused, BulkRunLost, ListFails, PollFails, ApplyFails,
                    shopify, TypeOK
    <2>3. QED BY <2>1, <2>2
<1>5. CallsTyped'
    <2>1. Len(rows) \in Nat /\ Len(ops) \in Nat /\ call[c].run <= Len(rows)
          /\ call[c].op <= Len(ops)
        BY DEF TypeOK
    <2>2. Failed(call[c]).run <= Len(rows') /\ Failed(call[c]).op <= Len(ops')
        BY <1>1, <2>1, FailedType
    <2>3. QED BY <1>1, <2>1, <2>2, CallType, FailedType
<1>6. QED BY <1>1, <1>2, <1>3, <1>4, <1>5 DEF TypeOK, CallsTyped

LEMMA ReadFeedType == ASSUME TypeOK, NEW c \in Callers, ReadFeed(c) PROVE TypeOK'
<1> DEFINE r == [call[c] EXCEPT !.pc = "list", !.stock = feed]
<1>1. call[c] \in Call /\ feed \in Feeds
    BY DEF TypeOK
<1>2. r \in Call /\ r.run = call[c].run /\ r.op = call[c].op
    BY <1>1 DEF Call
<1>3. CallBecomes(c, r)
    BY DEF ReadFeed, CallBecomes, TypeOK
<1> HIDE DEF r
<1>4. CallsTyped'
    <2>1. rows' = rows /\ ops' = ops /\ ops \in Seq(Operation) /\ Len(ops) \in Nat
        BY DEF ReadFeed, shopify, database, TypeOK
    <2>2. QED BY <1>2, <1>3, <2>1, SameRun
<1>5. QED BY <1>4 DEF TypeOK, CallsTyped, ReadFeed, shopify, database

LEMMA BulkRunType ==
    ASSUME TypeOK, NEW c \in Callers, BulkRun(c) \/ BulkRunUnnamed(c)
    PROVE  TypeOK'
<1>1. call[c] \in Call /\ Len(ops) + 1 \in Nat
    BY DEF TypeOK
<1>2. PICK n \in {0, Len(ops) + 1} :
        /\ CallBecomes(c, [call[c] EXCEPT !.pc = "poll", !.op = n])
        /\ n # 0 => StartOperation
    BY DEF BulkRun, BulkRunUnnamed, CallBecomes, TypeOK
<1> DEFINE r == [call[c] EXCEPT !.pc = "poll", !.op = n]
<1>3. r \in Call /\ r.run = call[c].run /\ r.op = n
    <2>1. n \in Nat
        BY <1>1
    <2>2. QED BY <1>1, <2>1 DEF Call
<1>4. CallBecomes(c, r)
    BY <1>2
<1> HIDE DEF r
<1>5. ops' \in Seq(Operation) /\ Len(ops') \in {Len(ops), Len(ops) + 1} /\ shown' \in 0..Len(ops')
    <2>1. CASE StartOperation
        BY <2>1, StartOperationType DEF BulkRun, BulkRunUnnamed
    <2>2. CASE ops' = ops
        BY <2>2 DEF BulkRun, BulkRunUnnamed, TypeOK
    <2>3. QED BY <2>1, <2>2 DEF BulkRun, BulkRunUnnamed
<1>6. n \in {0, Len(ops')}
    BY <1>1, <1>2, StartOperationType
<1>7. CallsTyped'
    <2>1. rows' = rows /\ Len(ops) <= Len(ops')
        BY <1>1, <1>5 DEF BulkRun, BulkRunUnnamed, database, TypeOK
    <2>2. QED BY <1>3, <1>4, <1>5, <1>6, <2>1, SameRun
<1>8. faults' \in Nat
    BY FaultType DEF BulkRun, BulkRunUnnamed, TypeOK
<1>9. QED BY <1>5, <1>7, <1>8 DEF TypeOK, CallsTyped, BulkRun, BulkRunUnnamed, database

LEMMA PollType == ASSUME TypeOK, Progress, NEW c \in Callers, Poll(c) PROVE TypeOK'
<1>1. call[c] \in Call /\ call[c].stock \in Feeds /\ shown \in 1..Len(ops)
    BY DEF TypeOK, Progress, Holding, Poll, Awaits, Call
<1>2. ops[shown].lines \in [Variants -> Int]
    <2>1. ops[shown] \in Operation
        BY <1>1 DEF TypeOK
    <2>2. QED BY <2>1 DEF Operation
<1>3. PICK u \in Diff(Items(ops[shown].lines), call[c].stock) :
        call' = [call EXCEPT ![c].pc = IF u = <<>> THEN "closing" ELSE "apply",
                             ![c].checked = Cardinality(Variants),
                             ![c].updates = u]
    BY DEF Poll
<1> DEFINE r == [call[c] EXCEPT !.pc = IF u = <<>> THEN "closing" ELSE "apply",
                                !.checked = Cardinality(Variants), !.updates = u]
<1>4. u \in Seq(Update)
    BY <1>1, <1>2, DiffType
<1>5. r \in Call /\ r.run = call[c].run /\ r.op = call[c].op
    <2>1. Cardinality(Variants) \in Nat
        BY StoreAssumption, FS_CardinalityType
    <2>2. QED BY <1>1, <1>4, <2>1 DEF Call
<1>6. CallBecomes(c, r)
    BY <1>3 DEF CallBecomes, TypeOK
<1> HIDE DEF r
<1>7. CallsTyped'
    <2>1. rows' = rows /\ ops' = ops /\ ops \in Seq(Operation) /\ Len(ops) \in Nat
        BY DEF Poll, shopify, database, TypeOK
    <2>2. QED BY <1>5, <1>6, <2>1, SameRun
<1>8. QED BY <1>7 DEF TypeOK, CallsTyped, Poll, shopify, database

LEMMA ApplyBatchType == ASSUME TypeOK, Progress, NEW c \in Callers, ApplyBatch(c) PROVE TypeOK'
<1> DEFINE r == [call[c] EXCEPT !.next = BatchEnd(c) + 1,
                                !.pc = IF BatchEnd(c) = Len(call[c].updates)
                                       THEN "closing" ELSE "apply"]
<1>1. call[c] \in Call /\ call[c].next <= Len(call[c].updates)
    BY DEF TypeOK, Progress, Applying, ApplyBatch
<1>2. BatchEnd(c) + 1 \in Nat \ {0}
    BY <1>1, BatchType DEF Call
<1>3. r \in Call /\ r.run = call[c].run /\ r.op = call[c].op
    BY <1>1, <1>2 DEF Call
<1>4. CallBecomes(c, r)
    BY DEF ApplyBatch, CallBecomes, TypeOK
<1> HIDE DEF r
<1>5. CallsTyped'
    <2>1. rows' = rows /\ ops' = ops /\ ops \in Seq(Operation) /\ Len(ops) \in Nat
        BY DEF ApplyBatch, database, TypeOK
    <2>2. QED BY <1>3, <1>4, <2>1, SameRun
<1>6. /\ level' \in [Variants -> Int] /\ landed' \in Seq(SUBSET Update)
      /\ Len(landed') = Len(landed)
    BY <1>1, BatchType, LandType DEF ApplyBatch
<1>7. QED BY <1>5, <1>6 DEF TypeOK, CallsTyped, ApplyBatch, database

LEMMA LogChangesType == ASSUME TypeOK, NEW c \in Callers, LogChanges(c) \/ Cancel(c) PROVE TypeOK'
<1>1. call[c] \in Call
    BY DEF TypeOK
<1>2. PICK r \in {[call[c] EXCEPT !.pc = "logged"], [call[c] EXCEPT !.live = FALSE]} :
        CallBecomes(c, r)
    BY DEF LogChanges, Cancel, CallBecomes, TypeOK
<1>3. r \in Call /\ r.run = call[c].run /\ r.op = call[c].op
    BY <1>1 DEF Call
<1>4. CallsTyped'
    <2>1. rows' = rows /\ ops' = ops /\ ops \in Seq(Operation) /\ Len(ops) \in Nat
        BY DEF LogChanges, Cancel, shopify, database, TypeOK
    <2>2. QED BY <1>2, <1>3, <2>1, SameRun
<1>5. QED BY <1>4 DEF TypeOK, CallsTyped, LogChanges, Cancel, shopify, database

\* The row and the log that Close writes.
LEMMA LogType ==
    ASSUME NEW us \in Seq(Update)
    PROVE  LogOf(us) \in Seq(Change) /\ Len(LogOf(us)) = Len(us)
<1>1. \A n \in 1..Len(us) : us[n] \in Update
    OBVIOUS
<1>2. LogOf(us) \in [1..Len(us) -> Change]
    BY <1>1 DEF LogOf, Change, Update, Item
<1>3. QED BY <1>2

LEMMA CloseType ==
    ASSUME TypeOK, Owners, NEW c \in Callers, Close(c)
    PROVE  TypeOK'
<1>1. /\ call[c] \in Call /\ call[c].run \in 1..Len(rows)
      /\ rows \in Seq(Row) /\ changes \in Seq(Seq(Change)) /\ Len(changes) = Len(rows)
    BY DEF TypeOK, Owners, Busy, Close
<1>2. ClosedRow(c) \in Row
    <2>1. rows[call[c].run] \in Row
        BY <1>1
    <2>2. call[c].checked \in Nat /\ Len(call[c].updates) \in Nat /\ call[c].failed \in BOOLEAN
        BY <1>1 DEF Call
    <2>3. QED BY <2>1, <2>2 DEF ClosedRow, Row
<1>3. rows' \in Seq(Row) /\ Len(rows') = Len(rows)
    BY <1>1, <1>2 DEF Close
<1>4. changes' \in Seq(Seq(Change)) /\ Len(changes') = Len(rows')
    <2>1. LogOf(call[c].updates) \in Seq(Change)
        BY <1>1, LogType DEF Call
    <2>2. changes' = [changes EXCEPT ![call[c].run] = LogOf(call[c].updates)]
        BY DEF Close
    <2>3. QED BY <1>1, <1>3, <2>1, <2>2
<1>5. Idle \in Call /\ Idle.run = 0 /\ Idle.op = 0
    BY DEF Idle, Fresh, Call
<1>6. CallBecomes(c, Idle)
    BY DEF Close, CallBecomes
<1>7. CallsTyped'
    <2>1. ops' = ops /\ Len(ops) \in Nat /\ Len(rows) \in Nat
        BY DEF Close, shopify, TypeOK
    <2>2. QED BY <1>3, <1>5, <1>6, <2>1, CallType
<1>8. QED BY <1>3, <1>4, <1>7 DEF TypeOK, CallsTyped, Close, shopify

LEMMA StoppingType ==
    ASSUME TypeOK, Owners, Progress, (\E c \in Callers : CloseFails(c)) \/ Crash
    PROVE  TypeOK'
<1>1. Idle \in Call /\ Idle.run = 0 /\ Idle.op = 0
    BY DEF Idle, Fresh, Call
<1>2. /\ level' = level /\ ops' = ops /\ shown' = shown /\ feed' = feed /\ rows' = rows
      /\ changes' = changes /\ landed' = landed /\ moves' = moves
      /\ faults' \in Nat /\ quiet' \subseteq Callers
    BY FaultType DEF CloseFails, Crash, shopify, database, TypeOK
<1>3. call' \in [Callers -> Call] /\ \A d \in Callers : call'[d] \in {call[d], Idle}
    <2>1. CASE Crash
        BY <1>1, <2>1 DEF Crash
    <2>2. ASSUME NEW c \in Callers, CloseFails(c)
          PROVE  call' \in [Callers -> Call] /\ \A d \in Callers : call'[d] \in {call[d], Idle}
        BY <1>1, <2>2 DEF CloseFails, TypeOK
    <2>3. QED BY <2>1, <2>2
<1>4. \A d \in Callers : call'[d].run <= Len(rows') /\ call'[d].op <= Len(ops')
    <2>1. Len(rows) \in Nat /\ Len(ops) \in Nat
          /\ \A d \in Callers : call[d].run <= Len(rows) /\ call[d].op <= Len(ops)
        BY DEF TypeOK
    <2>2. QED BY <1>1, <1>2, <1>3, <2>1
<1>5. left' \subseteq 1..Len(rows')
    <2>1. \A d \in Callers : Busy(d) => call[d].run \in 1..Len(rows)
        BY DEF Owners
    <2>2. left' \subseteq left \cup {call[d].run : d \in {e \in Callers : Busy(e)}}
        BY DEF CloseFails, Crash, Busy
    <2>3. QED BY <1>2, <2>1, <2>2 DEF TypeOK
<1>6. late' \in [1..MaxRuns -> Request] /\ lateQueries' \subseteq 1..MaxRuns
    <2>1. CASE Crash
        <3>1. \A d \in Callers : call[d].pc = "apply" => Sending(d) \in Request
            BY SendingType DEF Progress, Applying
        <3>2. late' \in [1..MaxRuns -> Request]
            BY <2>1, <3>1 DEF Crash, TypeOK
        <3>3. \A d \in Callers : call[d].pc = "list" => call[d].run \in 1..Len(rows)
            BY DEF Owners, Busy
        <3>4. 1..Len(rows) \subseteq 1..MaxRuns
            BY RunsBounded
        <3>5. lateQueries' = lateQueries
                \cup {call[d].run : d \in {e \in Callers : call[e].pc = "list"}}
            BY <2>1 DEF Crash
        <3>6. QED BY <3>2, <3>3, <3>4, <3>5 DEF TypeOK
    <2>2. CASE ~Crash
        BY <2>2 DEF CloseFails, shopify, TypeOK
    <2>3. QED BY <2>1, <2>2
<1>7. QED BY <1>2, <1>3, <1>4, <1>5, <1>6 DEF TypeOK

LEMMA EnvironmentType == ASSUME TypeOK, Environment PROVE TypeOK'
<1>1. ASSUME NEW st \in {"COMPLETED", "FAILED"}, BulkEnds(st) PROVE TypeOK'
    <2>1. PICK i \in 1..Len(ops) : ops' = [ops EXCEPT ![i] = [status |-> st, lines |-> level]]
        BY <1>1 DEF BulkEnds
    <2>2. [status |-> st, lines |-> level] \in Operation
        BY DEF TypeOK, Operation
    <2>3. ops' \in Seq(Operation) /\ Len(ops') = Len(ops)
        BY <2>1, <2>2 DEF TypeOK
    <2>4. QED BY <1>1, <2>3 DEF BulkEnds, TypeOK, database, service
<1>2. CASE CatchUp
    BY <1>2 DEF CatchUp, TypeOK, database, service
<1>3. ASSUME NEW v \in Variants, NEW q \in Quantities, Merchant(v, q) PROVE TypeOK'
    BY <1>3, StoreAssumption DEF Merchant, Move, TypeOK, database
<1>4. ASSUME NEW f \in Feeds, Warehouse(f) PROVE TypeOK'
    BY <1>4 DEF Warehouse, Move, TypeOK, shopify, database
<1>5. ASSUME NEW r \in 1..MaxRuns, LateBatch(r) PROVE TypeOK'
    <2>1. late[r].batch \in SUBSET Update
        BY DEF TypeOK, Request
    <2>2. /\ level' \in [Variants -> Int]
          /\ landed' \in Seq(SUBSET Update) /\ Len(landed') = Len(landed)
        BY <1>5, <2>1, LandType DEF LateBatch
    <2>3. late' \in [1..MaxRuns -> Request]
        BY <1>5, NothingType DEF LateBatch, TypeOK
    <2>4. QED BY <1>5, <2>2, <2>3 DEF LateBatch, TypeOK, database
<1>6. ASSUME NEW r \in 1..MaxRuns, LateQuery(r) PROVE TypeOK'
    <2>1. ops' \in Seq(Operation) /\ Len(ops') = Len(ops) + 1 /\ shown \in 0..Len(ops')
        BY <1>6, StartOperationType DEF LateQuery
    <2>2. \A d \in Callers : call[d].op <= Len(ops')
        BY <2>1 DEF TypeOK, Call
    <2>3. QED BY <1>6, <2>1, <2>2 DEF LateQuery, TypeOK, database, service
<1>7. QED BY <1>1, <1>2, <1>3, <1>4, <1>5, <1>6 DEF Environment

LEMMA TypeStep == TypeOK /\ Owners /\ Progress /\ [Next]_vars => TypeOK'
<1> SUFFICES ASSUME TypeOK, Owners, Progress, [Next]_vars PROVE TypeOK'
    OBVIOUS
<1>1. ASSUME NEW c \in Callers, Run(c) PROVE TypeOK'
    BY <1>1, OutsideType, OpeningType, FailingType, ReadFeedType, BulkRunType, PollType,
       ApplyBatchType, LogChangesType, CloseType, StoppingType
       DEF Run, Opening, Reconciling, Closing
<1>2. CASE Crash
    BY <1>2, StoppingType
<1>3. CASE Environment
    BY <1>3, EnvironmentType
<1>4. CASE UNCHANGED vars
    BY <1>4 DEF vars, shopify, database, service, TypeOK
<1>5. QED BY <1>1, <1>2, <1>3, <1>4 DEF Next

-----------------------------------------------------------------------------
(***************************************************************************)
(* Owners.  Start hands out a fresh id, Close is the only step that ends   *)
(* an open row, and it ends its own.                                       *)
(***************************************************************************)

\* The steps of a caller that leave the rows alone.
Working(c) == \/ Begin(c) \/ OpenFails(c) \/ Reconciling(c)
              \/ LogChanges(c) \/ CloseFails(c) \/ Cancel(c)

LEMMA RunIs ==
    ASSUME NEW c \in Callers, Run(c)
    PROVE  Working(c) \/ Open(c) \/ OpenLost(c) \/ Close(c)
BY DEF Run, Opening, Closing, Working

LEMMA WorkingShape ==
    ASSUME TypeOK, NEW c \in Callers, Working(c)
    PROVE  /\ rows' = rows /\ changes' = changes
           /\ \A d \in Callers : d # c => call'[d] = call[d]
           /\ Busy(c)' => Busy(c) /\ call'[c].run = call[c].run
                         /\ (call[c].failed => call'[c].failed)
<1> USE DEF Busy, database
<1>1. CASE \/ FeedFails(c) \/ BulkRefused(c) \/ BulkRunLost(c) \/ ListFails(c)
           \/ PollFails(c) \/ ApplyLost(c) \/ ApplyFails(c)
    <2>1. Fail(c) /\ Busy(c) /\ rows' = rows /\ changes' = changes
        BY <1>1 DEF FeedFails, BulkRefused, BulkRunLost, ListFails, PollFails, ApplyLost,
               ApplyFails
    <2>2. \A d \in Callers : call'[d] = IF d = c THEN Failed(call[c]) ELSE call[d]
        BY <2>1 DEF Fail, TypeOK
    <2>3. call'[c].run = call[c].run /\ call'[c].failed
        BY <2>2, FailedType DEF Failed, TypeOK, Call
    <2>4. QED BY <2>1, <2>2, <2>3
<1>2. CASE ReadFeed(c)
    BY <1>2 DEF ReadFeed, TypeOK, Call
<1>3. CASE BulkRun(c) \/ BulkRunUnnamed(c)
    <2>1. /\ rows' = rows /\ changes' = changes /\ Busy(c)
          /\ \A d \in Callers : d # c => call'[d] = call[d]
        BY <1>3 DEF BulkRun, BulkRunUnnamed, TypeOK
    <2>2. call'[c].run = call[c].run /\ call'[c].failed = call[c].failed
        BY <1>3 DEF BulkRun, BulkRunUnnamed, TypeOK, Call
    <2>3. QED BY <2>1, <2>2
<1>4. CASE Poll(c)
    BY <1>4 DEF Poll, TypeOK, Call
<1>5. CASE ApplyBatch(c)
    <2>1. /\ rows' = rows /\ changes' = changes /\ Busy(c)
          /\ \A d \in Callers : d # c => call'[d] = call[d]
        BY <1>5 DEF ApplyBatch, TypeOK
    <2>2. call'[c].run = call[c].run /\ call'[c].failed = call[c].failed
        BY <1>5 DEF ApplyBatch, TypeOK, Call
    <2>3. QED BY <2>1, <2>2
<1>6. CASE LogChanges(c) \/ Cancel(c)
    <2>1. /\ rows' = rows /\ changes' = changes
          /\ \A d \in Callers : d # c => call'[d] = call[d]
        BY <1>6 DEF LogChanges, Cancel, TypeOK
    <2>2. /\ call'[c].run = call[c].run /\ call'[c].failed = call[c].failed
          /\ call'[c].pc = call[c].pc \/ call[c].pc = "closing"
        BY <1>6 DEF LogChanges, Cancel, TypeOK, Call
    <2>3. QED BY <2>1, <2>2
<1>7. CASE CloseFails(c) \/ OpenFails(c)
    BY <1>7 DEF CloseFails, OpenFails, Idle, Fresh, TypeOK
<1>8. CASE Begin(c)
    BY <1>8 DEF Begin, Fresh, TypeOK
<1>9. QED BY <1>1, <1>2, <1>3, <1>4, <1>5, <1>6, <1>7, <1>8 DEF Working, Reconciling

LEMMA WorkingOwners ==
    ASSUME TypeOK, Owners, NEW c \in Callers, Working(c)
    PROVE  Owners'
<1>1. /\ rows' = rows
      /\ \A d \in Callers : d # c => call'[d] = call[d]
      /\ Busy(c)' => Busy(c) /\ call'[c].run = call[c].run
    BY WorkingShape
<1>2. \A d \in Callers : Busy(d)' => Busy(d) /\ call'[d].run = call[d].run
    BY <1>1 DEF Busy
<1>3. QED BY <1>1, <1>2 DEF Owners

LEMMA OpenOwners ==
    ASSUME TypeOK, Owners, NEW c \in Callers, Open(c) \/ OpenLost(c)
    PROVE  Owners'
<1>1. NewRow(c)
    BY DEF Open, OpenLost
<1>2. /\ rows' \in Seq(Row) /\ Len(rows') = Len(rows) + 1 /\ Len(rows) \in Nat
      /\ rows'[Len(rows) + 1].state = "open"
      /\ \A r \in 1..Len(rows) : rows'[r] = rows[r]
    <2>1. rows' = Append(rows, rows'[Len(rows) + 1]) /\ rows' \in Seq(Row)
          /\ Len(rows') = Len(rows) + 1 /\ rows'[Len(rows) + 1].state = "open"
        BY <1>1, RowType
    <2>2. rows \in Seq(Row)
        BY DEF TypeOK
    <2>3. \A x \in Row, r \in 1..Len(rows) : Append(rows, x)[r] = rows[r]
        BY <2>2
    <2>4. rows'[Len(rows) + 1] \in Row /\ Len(rows) \in Nat
        BY <2>1, <2>2
    <2>5. QED BY <2>1, <2>3, <2>4
<1>3. CASE OpenLost(c)
    <2>1. \A d \in Callers : Busy(d)' => Busy(d) /\ call'[d].run = call[d].run
        BY <1>3 DEF OpenLost, Busy, Idle, Fresh, TypeOK
    <2>2. QED BY <1>2, <2>1 DEF Owners
<1>4. CASE Open(c)
    <2>1. \A d \in Callers : call'[d] = IF d = c THEN Fresh("feed", Len(rows) + 1) ELSE call[d]
        BY <1>4 DEF Open, TypeOK
    <2>2. call'[c].run = Len(rows) + 1
        BY <2>1 DEF Fresh
    <2>3. \A d \in Callers : d # c /\ Busy(d)' => Busy(d) /\ call'[d].run = call[d].run
                                                 /\ call[d].run \in 1..Len(rows)
        BY <2>1 DEF Busy, Owners
    <2>4. QED BY <1>2, <2>2, <2>3 DEF Owners
<1>5. QED BY <1>3, <1>4

LEMMA CloseOwners ==
    ASSUME TypeOK, Owners, NEW c \in Callers, Close(c)
    PROVE  Owners'
<1>1. /\ rows' = [rows EXCEPT ![call[c].run] = ClosedRow(c)]
      /\ rows \in Seq(Row) /\ Busy(c)
      /\ \A d \in Callers : call'[d] = IF d = c THEN Idle ELSE call[d]
    BY DEF Close, TypeOK, Busy
<1>2. \A d \in Callers : Busy(d)' => d # c /\ Busy(d) /\ call'[d].run = call[d].run
    BY <1>1 DEF Busy, Idle, Fresh
<1>3. \A d \in Callers : Busy(d)' => call[d].run \in 1..Len(rows) /\ call[d].run # call[c].run
    BY <1>1, <1>2 DEF Owners
<1>4. Len(rows') = Len(rows) /\ \A r \in 1..Len(rows) : r # call[c].run => rows'[r] = rows[r]
    BY <1>1
<1>5. QED BY <1>2, <1>3, <1>4 DEF Owners

\* What happens around the callers touches neither calls nor records.
LEMMA AroundShape ==
    ASSUME Environment \/ UNCHANGED vars
    PROVE  /\ call' = call /\ rows' = rows /\ changes' = changes
           /\ faults' = faults /\ left' = left
BY DEF Environment, BulkEnds, CatchUp, LateBatch, LateQuery, Merchant, Warehouse, vars,
       service, database

LEMMA OwnersStep == TypeOK /\ Owners /\ [Next]_vars => Owners'
<1> SUFFICES ASSUME TypeOK, Owners, [Next]_vars PROVE Owners'
    OBVIOUS
<1>1. ASSUME NEW c \in Callers, Run(c) PROVE Owners'
    BY <1>1, RunIs, WorkingOwners, OpenOwners, CloseOwners
<1>2. CASE Crash
    BY <1>2 DEF Crash, Owners, Busy, Idle, Fresh
<1>3. CASE Environment \/ UNCHANGED vars
    <2>1. call' = call /\ rows' = rows
        BY <1>3, AroundShape
    <2>2. QED BY <2>1 DEF Owners, Busy
<1>4. QED BY <1>1, <1>2, <1>3 DEF Next

-----------------------------------------------------------------------------
(***************************************************************************)
(* Progress.  A call that does not move keeps its progress, because no     *)
(* other call can land anything for its run.                               *)
(***************************************************************************)
Far(c) == Reading(c) /\ Holding(c) /\ Applying(c) /\ Ending(c)

LEMMA Unmoved ==
    ASSUME Progress, NEW d \in Callers, call'[d] = call[d],
           Busy(d) /\ ~call[d].failed => landed'[call[d].run] = landed[call[d].run]
    PROVE  Far(d)'
<1>1. Far(d)
    BY DEF Progress, Far
<1>2. \A n : Prefix(d, n)' = Prefix(d, n)
    BY DEF Prefix
<1>3. Reading(d)' /\ Holding(d)'
    BY <1>1 DEF Far, Reading, Holding, Busy
<1>4. Applying(d)'
    BY <1>1, <1>2 DEF Far, Applying, Busy
<1>5. Ending(d)'
    BY <1>1, <1>2 DEF Far, Ending, Busy
<1>6. QED BY <1>3, <1>4, <1>5 DEF Far

LEMMA FailedFar ==
    ASSUME TypeOK, NEW c \in Callers, Fail(c)
    PROVE  Far(c)'
<1>1. call'[c].pc = "closing" /\ call'[c].failed = TRUE /\ call'[c].updates = <<>>
    BY DEF Fail, Failed, TypeOK, Call
<1>2. QED BY <1>1 DEF Far, Reading, Holding, Applying, Ending

LEMMA IdleFar ==
    ASSUME NEW c \in Callers, call'[c] \in {Idle, Fresh("open", 0)}
    PROVE  Far(c)'
BY DEF Idle, Fresh, Far, Reading, Holding, Applying, Ending

LEMMA ReadFeedFar == ASSUME TypeOK, Progress, NEW c \in Callers, ReadFeed(c) PROVE Far(c)'
<1>1. /\ call'[c].pc = "list" /\ call'[c].stock \in Feeds
      /\ call'[c].failed = call[c].failed /\ call'[c].updates = call[c].updates
      /\ call'[c].next = call[c].next /\ call'[c].run = call[c].run
      /\ landed' = landed
    BY DEF ReadFeed, TypeOK, Call
<1>2. Reading(c) /\ call[c].pc = "feed"
    BY DEF Progress, ReadFeed
<1>3. QED BY <1>1, <1>2 DEF Far, Reading, Holding, Applying, Ending

LEMMA BulkRunFar ==
    ASSUME TypeOK, Progress, NEW c \in Callers, BulkRun(c) \/ BulkRunUnnamed(c)
    PROVE  Far(c)'
<1>1. /\ call'[c].pc = "poll" /\ call'[c].stock = call[c].stock
      /\ call'[c].failed = call[c].failed /\ call'[c].updates = call[c].updates
      /\ call'[c].next = call[c].next /\ call'[c].run = call[c].run
      /\ landed' = landed
    BY DEF BulkRun, BulkRunUnnamed, TypeOK, Call
<1>2. Reading(c) /\ Holding(c) /\ call[c].pc = "list"
    BY DEF Progress, BulkRun, BulkRunUnnamed
<1>3. QED BY <1>1, <1>2 DEF Far, Reading, Holding, Applying, Ending

LEMMA PollFar == ASSUME TypeOK, Progress, NEW c \in Callers, Poll(c) PROVE Far(c)'
<1>1. call[c].stock \in Feeds /\ shown \in 1..Len(ops)
    BY DEF TypeOK, Progress, Holding, Poll, Awaits, Call
<1>2. ops[shown].lines \in [Variants -> Int]
    <2>1. ops[shown] \in Operation
        BY <1>1 DEF TypeOK
    <2>2. QED BY <2>1 DEF Operation
<1>3. PICK u \in Diff(Items(ops[shown].lines), call[c].stock) :
        call' = [call EXCEPT ![c].pc = IF u = <<>> THEN "closing" ELSE "apply",
                             ![c].checked = Cardinality(Variants),
                             ![c].updates = u]
    BY DEF Poll
<1>4. /\ u \in Seq(Update) /\ NamesOnce(u)
      /\ \A n \in 1..Len(u) : FollowsFeed(u[n], call[c].stock)
    BY <1>1, <1>2, DiffType
<1>5. /\ call'[c].pc = IF u = <<>> THEN "closing" ELSE "apply"
      /\ call'[c].updates = u /\ call'[c].stock = call[c].stock
      /\ call'[c].failed = call[c].failed /\ call'[c].next = call[c].next
      /\ call'[c].run = call[c].run /\ landed' = landed
    BY <1>3 DEF Poll, TypeOK, Call
<1>6. ~call[c].failed /\ call[c].next = 1 /\ landed[call[c].run] = {}
    BY DEF Progress, Reading, Poll
<1>7. Prefix(c, 0)' = {}
    BY DEF Prefix
<1>8. CASE u = <<>>
    <2>1. Prefix(c, Len(call[c].updates))' = {}
        BY <1>5, <1>7, <1>8
    <2>2. QED BY <1>5, <1>6, <1>8, <2>1 DEF Far, Reading, Holding, Applying, Ending
<1>9. CASE u # <<>>
    <2>1. 1 <= Len(u) /\ call'[c].next - 1 = 0
        BY <1>4, <1>5, <1>6, <1>9
    <2>2. NamesOnce(call[c].updates)'
        BY <1>4, <1>5 DEF NamesOnce
    <2>3. Applying(c)'
        BY <1>4, <1>5, <1>6, <1>7, <1>9, <2>1, <2>2 DEF Applying
    <2>4. QED BY <1>1, <1>5, <1>6, <1>9, <2>3 DEF Far, Reading, Holding, Ending
<1>10. QED BY <1>8, <1>9

LEMMA ApplyBatchFar ==
    ASSUME TypeOK, Owners, Progress, NEW c \in Callers, ApplyBatch(c)
    PROVE  Far(c)'
<1>1. PICK e, n, us : e = BatchEnd(c) /\ n = call[c].next /\ us = call[c].updates
    OBVIOUS
<1>2. /\ ~call[c].failed /\ n <= Len(us)
      /\ landed[call[c].run] = Prefix(c, n - 1)
      /\ \A i \in 1..Len(us) : FollowsFeed(us[i], call[c].stock)
      /\ call[c].stock \in Feeds /\ NamesOnce(us)
    <2>1. Applying(c) /\ Holding(c) /\ call[c].pc = "apply"
        BY DEF Progress, ApplyBatch
    <2>2. QED BY <1>1, <2>1 DEF Applying, Holding
<1>3. e \in n..Len(us) /\ n \in Nat \ {0} /\ Len(us) \in Nat
    <2>1. call[c] \in Call
        BY DEF TypeOK
    <2>2. BatchEnd(c) \in call[c].next..Len(call[c].updates)
        BY <1>1, <1>2, BatchType
    <2>3. QED BY <1>1, <2>1, <2>2 DEF Call
<1>4. /\ call'[c].pc = IF e = Len(us) THEN "closing" ELSE "apply"
      /\ call'[c].next = e + 1 /\ call'[c].updates = us
      /\ call'[c].stock = call[c].stock /\ call'[c].failed = call[c].failed
      /\ call'[c].run = call[c].run
    BY <1>1 DEF ApplyBatch, TypeOK, Call
<1>5. landed'[call[c].run] = landed[call[c].run] \cup Batch(c)
    <2>1. call[c].run \in 1..Len(landed) /\ landed \in Seq(SUBSET Update)
        BY DEF TypeOK, Owners, Busy, ApplyBatch
    <2>2. QED BY <2>1 DEF ApplyBatch, Land
<1>6. Prefix(c, n - 1) \cup Batch(c) = {us[i] : i \in 1..e}
    <2>1. 1..e = (1..(n - 1)) \cup (n..e)
        BY <1>3
    <2>2. QED BY <1>1, <2>1 DEF Prefix, Batch
<1>7. \A k : Prefix(c, k)' = {us[i] : i \in 1..k}
    BY <1>4 DEF Prefix
<1>8. landed'[call'[c].run] = {us[i] : i \in 1..e}
    BY <1>2, <1>4, <1>5, <1>6
<1>9. CASE e = Len(us)
    <2>1. Ending(c)'
        BY <1>2, <1>4, <1>7, <1>8, <1>9 DEF Ending
    <2>2. QED BY <1>4, <1>9, <2>1 DEF Far, Reading, Holding, Applying
<1>10. CASE e # Len(us)
    <2>1. e + 1 <= Len(us) /\ (e + 1) - 1 = e
        BY <1>3, <1>10
    <2>2. NamesOnce(call[c].updates)'
        BY <1>2, <1>4 DEF NamesOnce
    <2>3. Applying(c)'
        BY <1>2, <1>4, <1>7, <1>8, <2>1, <2>2 DEF Applying
    <2>4. QED BY <1>2, <1>4, <1>10, <2>3 DEF Far, Reading, Holding, Ending
<1>11. QED BY <1>9, <1>10

LEMMA LogChangesFar ==
    ASSUME TypeOK, Progress, NEW c \in Callers, LogChanges(c) \/ Cancel(c)
    PROVE  Far(c)'
<1>1. /\ call'[c].pc \in {call[c].pc, "logged"}
      /\ call'[c].pc = "logged" /\ call[c].pc # "logged" =>
            call[c].pc = "closing" /\ ~call[c].failed
      /\ call'[c].stock = call[c].stock /\ call'[c].op = call[c].op
      /\ call'[c].failed = call[c].failed /\ call'[c].updates = call[c].updates
      /\ call'[c].next = call[c].next /\ call'[c].run = call[c].run
      /\ landed' = landed
    BY DEF LogChanges, Cancel, TypeOK, Call
<1>2. /\ Far(c) /\ \A n : Prefix(c, n)' = Prefix(c, n)
      /\ NamesOnce(call[c].updates)' = NamesOnce(call[c].updates)
    BY <1>1 DEF Progress, Far, Prefix, NamesOnce
<1>3. Reading(c)' /\ Holding(c)'
    BY <1>1, <1>2 DEF Far, Reading, Holding
<1>4. Applying(c)'
    BY <1>1, <1>2 DEF Far, Applying
<1>5. Ending(c)'
    BY <1>1, <1>2 DEF Far, Ending
<1>6. QED BY <1>3, <1>4, <1>5 DEF Far

\* The store sees nothing of a caller's steps but its batches.
LEMMA KeepsLanded ==
    ASSUME NEW c \in Callers, Working(c), ~ApplyBatch(c)
    PROVE  landed' = landed /\ level' = level
BY DEF Working, Begin, OpenFails, Reconciling, ReadFeed, FeedFails, BulkRun, BulkRunUnnamed,
       BulkRefused, BulkRunLost, ListFails, Poll, PollFails, ApplyLost, ApplyFails,
       LogChanges, CloseFails, Cancel, shopify

\* What a caller does concerns its own call and its own run only.
LEMMA OthersStay ==
    ASSUME TypeOK, Owners, NEW c \in Callers, Run(c), NEW d \in Callers, d # c
    PROVE  call'[d] = call[d] /\ (Busy(d) => landed'[call[d].run] = landed[call[d].run])
<1>1. call'[d] = call[d]
    <2>1. CASE Working(c)
        BY <2>1, WorkingShape
    <2>2. CASE Open(c) \/ OpenLost(c) \/ Close(c)
        BY <2>2 DEF Open, OpenLost, Close, TypeOK
    <2>3. QED BY <2>1, <2>2, RunIs
<1>2. ASSUME Busy(d) PROVE landed'[call[d].run] = landed[call[d].run]
    <2>1. call[d].run \in 1..Len(landed) /\ landed \in Seq(SUBSET Update)
        BY <1>2 DEF Owners, TypeOK
    <2>2. CASE NewRow(c)
        BY <2>1, <2>2 DEF NewRow
    <2>3. CASE ApplyBatch(c)
        <3>1. call[c].run # call[d].run
            BY <1>2, <2>3 DEF Owners, ApplyBatch, Busy
        <3>2. QED BY <2>1, <2>3, <3>1 DEF ApplyBatch, Land
    <2>4. CASE landed' = landed
        BY <2>4
    <2>5. QED BY <2>2, <2>3, <2>4, RunIs, KeepsLanded DEF Open, OpenLost, Close
<1>3. QED BY <1>1, <1>2

LEMMA RunFar ==
    ASSUME TypeOK, Owners, Progress, NEW c \in Callers, Run(c)
    PROVE  Far(c)'
<1>1. CASE Open(c)
    <2>1. call'[c] = Fresh("feed", Len(rows) + 1)
        BY <1>1 DEF Open, TypeOK
    <2>2. landed'[Len(rows) + 1] = {}
        BY <1>1 DEF Open, NewRow, TypeOK
    <2>3. QED BY <2>1, <2>2 DEF Fresh, Far, Reading, Holding, Applying, Ending
<1>2. CASE Begin(c) \/ OpenLost(c) \/ OpenFails(c)
    BY <1>2, IdleFar DEF Begin, OpenLost, OpenFails, TypeOK
<1>3. CASE Reconciling(c)
    BY <1>3, FailedFar, ReadFeedFar, BulkRunFar, PollFar, ApplyBatchFar
    DEF Reconciling, FeedFails, BulkRefused, BulkRunLost, ListFails, PollFails, ApplyLost,
        ApplyFails
<1>4. CASE Close(c) \/ CloseFails(c)
    BY <1>4, IdleFar DEF Close, CloseFails, TypeOK
<1>5. QED BY <1>1, <1>2, <1>3, <1>4, LogChangesFar DEF Run, Opening, Closing

LEMMA ProgressStep == TypeOK /\ Owners /\ Progress /\ Strays /\ [Next]_vars => Progress'
<1> SUFFICES ASSUME TypeOK, Owners, Progress, Strays, [Next]_vars, NEW d \in Callers
             PROVE  Far(d)'
    BY DEF Progress, Far
<1>1. ASSUME NEW c \in Callers, Run(c) PROVE Far(d)'
    BY <1>1, RunFar, OthersStay, Unmoved
<1>2. CASE Crash
    BY <1>2, IdleFar DEF Crash
<1>3. CASE Environment \/ UNCHANGED vars
    <2>1. call' = call
        BY <1>3, AroundShape
    <2>2. ASSUME NEW r \in 1..MaxRuns, LateBatch(r) PROVE Far(d)'
        <3>1. Busy(d) /\ ~call[d].failed => call[d].run # r /\ call[d].run \in 1..Len(landed)
            BY <2>2 DEF Strays, Stray, LateBatch, Owners, TypeOK
        <3>2. \A k \in 1..Len(landed) : k # r => landed'[k] = landed[k]
            BY <2>2 DEF LateBatch, Land, TypeOK
        <3>3. QED BY <2>1, <3>1, <3>2, Unmoved
    <2>3. CASE landed' = landed
        BY <2>1, <2>3, Unmoved
    <2>4. QED BY <1>3, <2>2, <2>3 DEF Environment, BulkEnds, CatchUp, LateQuery, Merchant,
              Warehouse, vars
<1>4. QED BY <1>1, <1>2, <1>3 DEF Next

-----------------------------------------------------------------------------
(***************************************************************************)
(* The ledger, row by row.  Only Close writes a row that succeeded, and    *)
(* Progress says that all its updates have landed by then; whatever lands  *)
(* later lands for another run.                                            *)
(***************************************************************************)
Booked(r) == /\ rows[r].updated = Len(changes[r])
             /\ ~Succeeded(rows[r]) => changes[r] = <<>>
             /\ Succeeded(rows[r]) => Entries(changes[r]) = Logged(landed[r])

Ledger == \A r \in 1..Len(rows) : Booked(r)

LEMMA LedgerIs == Ledger <=> ClaimMatchesLog /\ LogMatchesStore
BY DEF Ledger, Booked, ClaimMatchesLog, LogMatchesStore

LEMMA NewRowLedger ==
    ASSUME TypeOK, Ledger, NEW c \in Callers, NewRow(c)
    PROVE  Ledger'
<1>1. PICK n \in Nat : n = Len(rows)
    BY DEF TypeOK
<1>2. Len(rows') = n + 1
    BY <1>1, RowType
<1>3. ASSUME NEW r \in 1..n PROVE Booked(r)'
    <2>1. rows'[r] = rows[r] /\ changes'[r] = changes[r] /\ landed'[r] = landed[r]
        BY <1>1, <1>3 DEF NewRow, TypeOK
    <2>2. QED BY <1>1, <2>1 DEF Ledger, Booked
<1>4. Booked(n + 1)'
    <2>1. changes'[n + 1] = <<>> /\ rows'[n + 1].updated = 0 /\ rows'[n + 1].state = "open"
        BY <1>1 DEF NewRow, TypeOK
    <2>2. QED BY <2>1 DEF Booked, Succeeded
<1>5. QED BY <1>2, <1>3, <1>4 DEF Ledger

LEMMA LandLedger ==
    ASSUME TypeOK, Ledger, NEW k \in 1..Len(rows), NEW batch,
           ~Succeeded(rows[k]), Land(k, batch), rows' = rows, changes' = changes
    PROVE  Ledger'
<1>1. ASSUME NEW r \in 1..Len(rows) PROVE Booked(r)'
    <2>1. CASE r = k
        BY <2>1 DEF Ledger, Booked, Succeeded
    <2>2. CASE r # k
        <3>1. landed'[r] = landed[r]
            BY <2>2 DEF Land, TypeOK
        <3>2. QED BY <3>1 DEF Ledger, Booked
    <2>3. QED BY <2>1, <2>2
<1>2. QED BY <1>1 DEF Ledger

LEMMA LogHolds ==
    ASSUME NEW us \in Seq(Update)
    PROVE  Entries(LogOf(us)) = Logged({us[i] : i \in 1..Len(us)})
<1>1. Len(LogOf(us)) = Len(us) /\ Len(us) \in Nat
    BY LogType
<1>2. \A i \in 1..Len(us) : LogOf(us)[i] = [sku |-> us[i].item.sku,
          before |-> us[i].item.quantity, after |-> us[i].new]
    BY DEF LogOf
<1>3. QED BY <1>1, <1>2 DEF Entries, Logged

LEMMA CloseLedger ==
    ASSUME TypeOK, Owners, Progress, Ledger, NEW c \in Callers, Close(c)
    PROVE  Ledger'
<1>1. PICK k, us : k = call[c].run /\ us = call[c].updates
    OBVIOUS
<1>2. k \in 1..Len(rows) /\ us \in Seq(Update) /\ rows[k] \in Row /\ call[c].failed \in BOOLEAN
    <2>1. call[c] \in Call /\ rows \in Seq(Row)
        BY DEF TypeOK
    <2>2. k \in 1..Len(rows)
        BY <1>1 DEF Owners, Busy, Close
    <2>3. QED BY <1>1, <2>1, <2>2 DEF Call
<1>3. /\ rows' = [rows EXCEPT ![k] = ClosedRow(c)]
      /\ changes' = [changes EXCEPT ![k] = LogOf(us)]
      /\ landed' = landed /\ Len(rows') = Len(rows)
      /\ rows \in Seq(Row) /\ changes \in Seq(Seq(Change)) /\ Len(changes) = Len(rows)
    BY <1>1 DEF Close, TypeOK
<1>4. ASSUME NEW r \in 1..Len(rows), r # k PROVE Booked(r)'
    <2>1. rows'[r] = rows[r] /\ changes'[r] = changes[r] /\ landed'[r] = landed[r]
        BY <1>3, <1>4
    <2>2. QED BY <2>1 DEF Ledger, Booked
<1>5. Booked(k)'
    <2>1. rows'[k] = ClosedRow(c) /\ changes'[k] = LogOf(us) /\ landed'[k] = landed[k]
        BY <1>2, <1>3
    <2>2. ClosedRow(c).updated = Len(us) /\ ClosedRow(c).state = "closed"
          /\ ClosedRow(c).failed = call[c].failed
        BY <1>1, <1>2 DEF ClosedRow, Row
    <2>3. Len(LogOf(us)) = Len(us)
        BY <1>2, LogType
    <2>4. CASE call[c].failed
        <3>1. us = <<>>
            BY <1>1, <2>4 DEF Progress, Ending
        <3>2. LogOf(us) = <<>>
            BY <1>2, <2>3, <3>1, LogType
        <3>3. QED BY <2>1, <2>2, <2>3, <2>4, <3>2 DEF Booked, Succeeded
    <2>5. CASE ~call[c].failed
        <3>1. landed[k] = {us[i] : i \in 1..Len(us)}
            BY <1>1, <2>5 DEF Progress, Ending, Close, Prefix
        <3>2. Entries(LogOf(us)) = Logged(landed[k])
            BY <1>2, <3>1, LogHolds
        <3>3. Entries(changes[k])' = Logged(landed[k])'
            BY <2>1, <3>2 DEF Entries, Logged
        <3>4. QED BY <2>1, <2>2, <2>3, <2>5, <3>3 DEF Booked, Succeeded
    <2>6. QED BY <1>2, <2>4, <2>5
<1>6. QED BY <1>3, <1>4, <1>5 DEF Ledger

LEMMA LedgerStep ==
    TypeOK /\ Owners /\ Progress /\ Strays /\ Ledger /\ [Next]_vars => Ledger'
<1> SUFFICES ASSUME TypeOK, Owners, Progress, Strays, Ledger, [Next]_vars PROVE Ledger'
    OBVIOUS
<1>1. ASSUME rows' = rows, changes' = changes, landed' = landed PROVE Ledger'
    BY <1>1 DEF Ledger, Booked
<1>2. ASSUME NEW c \in Callers, Run(c) PROVE Ledger'
    <2>1. CASE Open(c) \/ OpenLost(c)
        BY <2>1, NewRowLedger DEF Open, OpenLost
    <2>2. CASE ApplyBatch(c)
        <3>1. call[c].run \in 1..Len(rows) /\ ~Succeeded(rows[call[c].run])
            BY <2>2 DEF ApplyBatch, Owners, Busy, Succeeded
        <3>2. QED BY <2>2, <3>1, LandLedger DEF ApplyBatch, database
    <2>3. CASE Close(c)
        BY <2>3, CloseLedger
    <2>4. CASE Working(c) /\ ~ApplyBatch(c)
        <3>1. landed' = landed
            BY <2>4, KeepsLanded
        <3>2. QED BY <1>1, <2>4, <3>1, WorkingShape
    <2>5. QED BY <1>2, <2>1, <2>2, <2>3, <2>4, RunIs
<1>3. ASSUME NEW r \in 1..MaxRuns, LateBatch(r) PROVE Ledger'
    <2>1. r \in 1..Len(rows) /\ ~Succeeded(rows[r])
        BY <1>3 DEF Strays, Stray, LateBatch
    <2>2. QED BY <1>3, <2>1, LandLedger DEF LateBatch, database
<1>4. CASE Crash \/ Environment \/ UNCHANGED vars
    BY <1>1, <1>3, <1>4 DEF Crash, Environment, BulkEnds, CatchUp, LateQuery, Merchant,
       Warehouse, vars, database
<1>5. QED BY <1>2, <1>4 DEF Next

-----------------------------------------------------------------------------
(***************************************************************************)
(* Strays.  A request is given up by the step that fails the call or ends  *)
(* the process, so the run it belongs to never works nor succeeds again,   *)
(* and it names what the run had still to set.                             *)
(***************************************************************************)
LEMMA StrayStays ==
    ASSUME NEW r \in 1..MaxRuns, Stray(r), late'[r] = late[r],
           Len(rows) \in Nat, Len(rows') \in Nat, Len(rows) <= Len(rows'),
           r \in 1..Len(rows) => /\ landed'[r] = landed[r]
                                 /\ Succeeded(rows'[r]) => Succeeded(rows[r])
                                 /\ \A c \in Callers : Busy(c)' /\ call'[c].run = r =>
                                      /\ Busy(c) /\ call[c].run = r
                                      /\ call[c].failed => call'[c].failed
    PROVE  Stray(r)'
<1> SUFFICES ASSUME late'[r].batch # {}
             PROVE  /\ r \in 1..Len(rows') /\ ~Succeeded(rows[r])'
                    /\ \A c \in Callers : Busy(c)' /\ call'[c].run = r => call'[c].failed
                    /\ \A u \in late'[r].batch : FollowsFeed(u, late'[r].stock)
                    /\ \A u \in late'[r].batch, w \in landed'[r] : u.item.id # w.item.id
    BY DEF Stray
<1>1. late[r].batch # {}
    OBVIOUS
<1>2. r \in 1..Len(rows) /\ ~Succeeded(rows[r]) /\ r \in 1..Len(rows')
    BY <1>1 DEF Stray
<1>3. ~Succeeded(rows[r])'
    BY <1>2 DEF Succeeded
<1>4. QED BY <1>1, <1>2, <1>3 DEF Stray

\* The batch a call sends is what its run has still to set.
LEMMA SendingStrays ==
    ASSUME TypeOK, Progress, NEW c \in Callers, call[c].pc = "apply"
    PROVE  /\ \A u \in Batch(c) : FollowsFeed(u, call[c].stock)
           /\ \A u \in Batch(c), w \in landed[call[c].run] : u.item.id # w.item.id
<1>1. PICK e, n, us : e = BatchEnd(c) /\ n = call[c].next /\ us = call[c].updates
    OBVIOUS
<1>2. /\ n <= Len(us) /\ landed[call[c].run] = {us[i] : i \in 1..(n - 1)}
      /\ \A i \in 1..Len(us) : FollowsFeed(us[i], call[c].stock)
      /\ NamesOnce(us)
    BY <1>1 DEF Progress, Applying, Prefix
<1>3. e \in n..Len(us) /\ n \in Nat \ {0} /\ Len(us) \in Nat
    <2>1. call[c] \in Call
        BY DEF TypeOK
    <2>2. e \in n..Len(us)
        BY <1>1, <1>2, BatchType
    <2>3. QED BY <1>1, <2>1, <2>2 DEF Call
<1>4. Batch(c) = {us[i] : i \in n..e}
    BY <1>1 DEF Batch
<1>5. \A i \in n..e : i \in 1..Len(us)
    BY <1>3
<1>6. \A i \in n..e, j \in 1..(n - 1) : us[i].item.id # us[j].item.id
    <2>1. \A i \in n..e, j \in 1..(n - 1) : j \in 1..Len(us) /\ i # j
        BY <1>3
    <2>2. QED BY <1>2, <1>5, <2>1 DEF NamesOnce
<1>7. QED BY <1>2, <1>4, <1>5, <1>6

LEMMA ApplyLostStray ==
    ASSUME TypeOK, Owners, Progress, NEW c \in Callers, ApplyLost(c),
           NEW r \in 1..MaxRuns, r = call[c].run
    PROVE  Stray(r)'
<1>1. /\ late'[r] = Sending(c) /\ landed' = landed /\ rows' = rows
      /\ call'[c].failed /\ \A d \in Callers : d # c => call'[d] = call[d]
    BY DEF ApplyLost, Fail, Failed, database, TypeOK, Call
<1>2. Busy(c) /\ r \in 1..Len(rows) /\ rows[r].state = "open"
    BY DEF ApplyLost, Busy, Owners
<1>3. \A d \in Callers : Busy(d)' /\ call'[d].run = r => call'[d].failed
    BY <1>1, <1>2 DEF Busy, Owners
<1>4. /\ \A u \in Batch(c) : FollowsFeed(u, call[c].stock)
      /\ \A u \in Batch(c), w \in landed[r] : u.item.id # w.item.id
    BY SendingStrays DEF ApplyLost
<1>5. r \in 1..Len(rows') /\ ~Succeeded(rows[r])'
    BY <1>1, <1>2 DEF Succeeded
<1>6. late'[r].stock = call[c].stock /\ late'[r].batch = Batch(c)
    BY <1>1 DEF Sending
<1>7. QED BY <1>1, <1>3, <1>4, <1>5, <1>6 DEF Stray

LEMMA CrashStray ==
    ASSUME TypeOK, Owners, Progress, Strays, Crash, NEW r \in 1..MaxRuns
    PROVE  Stray(r)'
<1>1. /\ landed' = landed /\ rows' = rows
      /\ \A d \in Callers : ~Busy(d)'
    BY DEF Crash, Idle, Fresh, Busy, database
<1>2. CASE \E c \in Callers : call[c].pc = "apply" /\ call[c].run = r
    <2>1. PICK c \in Callers : call[c].pc = "apply" /\ call[c].run = r /\ late'[r] = Sending(c)
        BY <1>2 DEF Crash
    <2>2. r \in 1..Len(rows) /\ rows[r].state = "open"
        BY <2>1 DEF Owners, Busy
    <2>3. /\ \A u \in Batch(c) : FollowsFeed(u, call[c].stock)
          /\ \A u \in Batch(c), w \in landed[r] : u.item.id # w.item.id
        BY <2>1, SendingStrays
    <2>4. r \in 1..Len(rows') /\ ~Succeeded(rows[r])'
        BY <1>1, <2>2 DEF Succeeded
    <2>5. late'[r].stock = call[c].stock /\ late'[r].batch = Batch(c)
        BY <2>1 DEF Sending
    <2>6. QED BY <1>1, <2>3, <2>4, <2>5 DEF Stray
<1>3. CASE ~ \E c \in Callers : call[c].pc = "apply" /\ call[c].run = r
    <2>1. late'[r] = late[r] /\ Stray(r) /\ Len(rows) \in Nat
        BY <1>3 DEF Crash, Strays, TypeOK
    <2>2. QED BY <1>1, <2>1, StrayStays
<1>4. QED BY <1>2, <1>3

LEMMA RunStray ==
    ASSUME TypeOK, Owners, Progress, Strays, NEW c \in Callers, Run(c), NEW r \in 1..MaxRuns
    PROVE  Stray(r)'
<1>1. Stray(r) /\ Len(rows) \in Nat
    BY DEF Strays, TypeOK
<1>2. CASE Open(c) \/ OpenLost(c)
    <2>1. PICK n \in Nat : n = Len(rows)
        BY <1>1
    <2>2. NewRow(c) /\ late' = late
        BY <1>2 DEF Open, OpenLost, shopify
    <2>3. Len(rows') = n + 1
        BY <2>1, <2>2, RowType
    <2>4. \A k \in 1..n : rows'[k] = rows[k] /\ landed'[k] = landed[k]
        BY <2>1, <2>2 DEF NewRow, TypeOK
    <2>5. \A d \in Callers : Busy(d)' =>
             (Busy(d) /\ call'[d] = call[d]) \/ call'[d].run = n + 1
        BY <1>2, <2>1 DEF Open, OpenLost, Busy, Idle, Fresh, TypeOK
    <2>6. r \in 1..n => r # n + 1
        BY <2>1
    <2>7. QED BY <1>1, <2>1, <2>2, <2>3, <2>4, <2>5, <2>6, StrayStays
<1>3. CASE Close(c)
    <2>1. /\ rows' = [rows EXCEPT ![call[c].run] = ClosedRow(c)] /\ rows \in Seq(Row)
          /\ call[c].run \in 1..Len(rows) /\ late' = late /\ landed' = landed
          /\ \A d \in Callers : call'[d] = IF d = c THEN Idle ELSE call[d]
        BY <1>3 DEF Close, shopify, TypeOK, Owners, Busy
    <2>2. \A d \in Callers : Busy(d)' => d # c /\ Busy(d) /\ call'[d] = call[d]
        BY <2>1 DEF Busy, Idle, Fresh
    <2>3. Len(rows') = Len(rows) /\ \A k \in 1..Len(rows) : k # call[c].run => rows'[k] = rows[k]
        BY <2>1
    <2>4. CASE r # call[c].run
        BY <1>1, <2>1, <2>2, <2>3, <2>4, StrayStays DEF Succeeded
    <2>5. CASE r = call[c].run
        <3>1. CASE late[r].batch = {}
            BY <2>1, <3>1 DEF Stray
        <3>2. CASE late[r].batch # {}
            <4>1. call[c].failed
                BY <1>1, <1>3, <2>5, <3>2 DEF Stray, Close, Busy
            <4>2. rows'[r] = ClosedRow(c) /\ rows[r] \in Row
                BY <2>1, <2>5
            <4>3. ~Succeeded(rows'[r])
                BY <4>1, <4>2 DEF ClosedRow, Row, Succeeded
            <4>4. QED BY <1>1, <2>1, <2>2, <2>3, <4>3, StrayStays
        <3>3. QED BY <3>1, <3>2
    <2>6. QED BY <2>4, <2>5
<1>4. CASE Working(c)
    <2>1. /\ rows' = rows
          /\ \A d \in Callers : d # c => call'[d] = call[d]
          /\ Busy(c)' => Busy(c) /\ call'[c].run = call[c].run
                         /\ (call[c].failed => call'[c].failed)
        BY <1>4, WorkingShape
    <2>2. \A d \in Callers : Busy(d)' => Busy(d) /\ call'[d].run = call[d].run
                                         /\ (call[d].failed => call'[d].failed)
        BY <2>1 DEF Busy
    <2>3. CASE ApplyLost(c)
        <3>1. CASE r = call[c].run
            BY <2>3, <3>1, ApplyLostStray
        <3>2. CASE r # call[c].run
            <4>1. late'[r] = late[r] /\ landed' = landed
                BY <2>3, <3>2 DEF ApplyLost, TypeOK
            <4>2. QED BY <1>1, <2>1, <2>2, <4>1, StrayStays
        <3>3. QED BY <3>1, <3>2
    <2>4. CASE ApplyBatch(c)
        <3>1. late' = late
            BY <2>4 DEF ApplyBatch
        <3>2. CASE r = call[c].run
            <4>1. late[r].batch = {}
                BY <1>1, <2>4, <3>2 DEF Stray, ApplyBatch, Busy, Progress, Applying
            <4>2. QED BY <3>1, <4>1 DEF Stray
        <3>3. CASE r # call[c].run
            <4>1. r \in 1..Len(rows) => landed'[r] = landed[r]
                BY <2>4, <3>3 DEF ApplyBatch, Land, TypeOK
            <4>2. QED BY <1>1, <2>1, <2>2, <3>1, <4>1, StrayStays
        <3>4. QED BY <3>2, <3>3
    <2>5. CASE ~ApplyLost(c) /\ ~ApplyBatch(c)
        <3>1. landed' = landed
            BY <1>4, <2>5, KeepsLanded
        <3>2. late' = late
            BY <1>4, <2>5 DEF Working, Begin, OpenFails, Reconciling, ReadFeed, FeedFails,
               BulkRun, BulkRunUnnamed, BulkRefused, BulkRunLost, ListFails, Poll, PollFails,
               ApplyFails, LogChanges, CloseFails, Cancel, shopify
        <3>3. QED BY <1>1, <2>1, <2>2, <3>1, <3>2, StrayStays
    <2>6. QED BY <2>3, <2>4, <2>5
<1>5. QED BY <1>2, <1>3, <1>4, RunIs

LEMMA StraysStep == TypeOK /\ Owners /\ Progress /\ Strays /\ [Next]_vars => Strays'
<1> SUFFICES ASSUME TypeOK, Owners, Progress, Strays, [Next]_vars, NEW r \in 1..MaxRuns
             PROVE  Stray(r)'
    BY DEF Strays
<1>1. ASSUME NEW c \in Callers, Run(c) PROVE Stray(r)'
    BY <1>1, RunStray
<1>2. CASE Crash
    BY <1>2, CrashStray
<1>3. CASE Environment \/ UNCHANGED vars
    <2>1. call' = call /\ rows' = rows /\ Stray(r) /\ Len(rows) \in Nat
        BY <1>3, AroundShape DEF Strays, TypeOK
    <2>2. \A d \in Callers : Busy(d)' = Busy(d)
        BY <2>1 DEF Busy
    <2>3. ASSUME NEW k \in 1..MaxRuns, LateBatch(k) PROVE Stray(r)'
        <3>1. CASE r = k
            <4>1. late'[r].batch = {}
                BY <2>3, <3>1 DEF LateBatch, Nothing, TypeOK
            <4>2. QED BY <4>1 DEF Stray
        <3>2. CASE r # k
            <4>1. late'[r] = late[r] /\ (r \in 1..Len(rows) => landed'[r] = landed[r])
                BY <2>3, <3>2 DEF LateBatch, Land, TypeOK
            <4>2. QED BY <2>1, <2>2, <4>1, StrayStays
        <3>3. QED BY <3>1, <3>2
    <2>4. CASE late' = late /\ landed' = landed
        BY <2>1, <2>2, <2>4, StrayStays
    <2>5. QED BY <1>3, <2>3, <2>4 DEF Environment, BulkEnds, CatchUp, LateQuery, Merchant,
              Warehouse, vars, shopify
<1>4. QED BY <1>1, <1>2, <1>3 DEF Next

-----------------------------------------------------------------------------
(***************************************************************************)
(* The theorems.                                                           *)
(***************************************************************************)
LEMMA Inductive == Spec => []IInv
<1>1. IInv /\ [Next]_vars => IInv'
    <2> SUFFICES ASSUME IInv, [Next]_vars PROVE IInv'
        OBVIOUS
    <2>1. TypeOK' /\ Owners' /\ Progress' /\ Strays'
        BY TypeStep, OwnersStep, ProgressStep, StraysStep DEF IInv
    <2>2. Ledger'
        BY LedgerIs, LedgerStep DEF IInv
    <2>3. ClaimMatchesLog' /\ LogMatchesStore'
        BY <2>2 DEF Ledger, Booked, ClaimMatchesLog, LogMatchesStore
    <2>4. QED BY <2>1, <2>3 DEF IInv
<1>2. QED BY InitIInv, <1>1, PTL DEF Spec

\* The types hold however many callers and runs there are, and through every
\* crash, lost answer and cancelled context.
THEOREM TypeCorrect == Spec => []TypeOK
<1>1. IInv => TypeOK
    BY DEF IInv
<1>2. QED BY Inductive, <1>1, PTL

\* No store, feed, batch size or number of concurrent callers makes a row of
\* sync_runs claim more or fewer changes than inventory_changes holds for it.
THEOREM ClaimsAreLogged == Spec => []ClaimMatchesLog
<1>1. IInv => ClaimMatchesLog
    BY DEF IInv
<1>2. QED BY Inductive, <1>1, PTL

\* And what a successful run logged is what Shopify carried out for it.
THEOREM LogIsTrue == Spec => []LogMatchesStore
<1>1. IInv => LogMatchesStore
    BY DEF IInv
<1>2. QED BY Inductive, <1>1, PTL

\* A closed row and its log are never written again: each row has one owner,
\* and the owner goes when it closes.
THEOREM HistoryIsFinal == Spec => ClosedRowsAreFinal
<1> DEFINE Final == \A r \in 1..Len(rows) : rows[r].state = "closed" =>
                        rows'[r] = rows[r] /\ changes'[r] = changes[r]
<1>1. IInv /\ [Next]_vars => [Final]_vars
    <2> SUFFICES ASSUME TypeOK, Owners, [Next]_vars,
                        NEW r \in 1..Len(rows), rows[r].state = "closed"
                 PROVE  rows'[r] = rows[r] /\ changes'[r] = changes[r]
        BY DEF IInv
    <2>1. ASSUME NEW c \in Callers, Run(c)
          PROVE  rows'[r] = rows[r] /\ changes'[r] = changes[r]
        <3>1. CASE Open(c) \/ OpenLost(c)
            <4>1. NewRow(c) /\ Len(rows) \in Nat /\ r \in 1..Len(changes)
                BY <3>1 DEF Open, OpenLost, TypeOK
            <4>2. rows'[r] = rows[r]
                BY <4>1 DEF NewRow, TypeOK
            <4>3. changes'[r] = changes[r]
                BY <4>1 DEF NewRow, TypeOK
            <4>4. QED BY <4>2, <4>3
        <3>2. CASE Close(c)
            <4>1. call[c].run # r
                BY <3>2 DEF Owners, Busy, Close
            <4>2. QED BY <3>2, <4>1 DEF Close, TypeOK
        <3>3. CASE Working(c)
            BY <3>3, WorkingShape
        <3>4. QED BY <2>1, <3>1, <3>2, <3>3, RunIs
    <2>2. CASE Crash \/ Environment \/ UNCHANGED vars
        BY <2>2, AroundShape DEF Crash, database
    <2>3. QED BY <2>1, <2>2 DEF Next
<1>2. QED BY Inductive, <1>1, PTL DEF Spec, ClosedRowsAreFinal

\* What lands is what the feed says of that SKU, if the batch was made from it.
LEMMA LandFollowsFeed ==
    ASSUME TypeOK, NEW r, NEW batch, NEW stock, Land(r, batch),
           \A u \in batch : FollowsFeed(u, stock),
           NEW v \in Variants, level'[v] # level[v]
    PROVE  SkuOf[v] \in DOMAIN stock /\ level'[v] = Wanted(stock, SkuOf[v])
<1>1. PICK u \in batch : u.item.id = v /\ level'[v] = u.new
    <2>1. \E u \in batch : u.item.id = v
        BY DEF Land, TypeOK
    <2>2. level'[v] = (CHOOSE u \in batch : u.item.id = v).new
        BY <2>1 DEF Land
    <2>3. QED BY <2>1, <2>2
<1>2. QED BY <1>1 DEF FollowsFeed

\* The merchant aside, the store changes only by a batch that is under way.
LEMMA WhoWrites ==
    ASSUME TypeOK, [Next]_vars, level' # level, moves' = moves
    PROVE  \/ \E c \in Callers : ApplyBatch(c)
           \/ \E r \in 1..MaxRuns : LateBatch(r)
<1>1. ASSUME NEW c \in Callers, Run(c) PROVE ApplyBatch(c)
    <2>1. level' = level \/ Working(c)
        BY <1>1, RunIs DEF Open, OpenLost, Close, shopify
    <2>2. QED BY <2>1, KeepsLanded
<1>2. ~Crash /\ ~UNCHANGED vars
    BY DEF Crash, vars, shopify
<1>3. ASSUME Environment PROVE \E r \in 1..MaxRuns : LateBatch(r)
    <2>1. moves' # moves + 1
        BY DEF TypeOK
    <2>2. QED BY <1>3, <2>1 DEF Environment, BulkEnds, CatchUp, LateQuery, Merchant, Warehouse,
              Move
<1>4. QED BY <1>1, <1>2, <1>3 DEF Next

\* The merchant aside, every write to the store is the warehouse's word for
\* that SKU, however late it is carried out, and a SKU the warehouse does not
\* know is never written.
THEOREM WritesFollowFeed == Spec => WritesComeFromFeed
<1> DEFINE Follows == level' # level /\ moves' = moves =>
         \E q \in UnderWay : \A v \in Variants : level'[v] # level[v] =>
             /\ SkuOf[v] \in DOMAIN q.stock
             /\ level'[v] = Wanted(q.stock, SkuOf[v])
<1>1. IInv /\ [Next]_vars => [Follows]_vars
    <2> SUFFICES ASSUME TypeOK, Progress, Strays, [Next]_vars, level' # level, moves' = moves
                 PROVE  \E q \in UnderWay : \A v \in Variants : level'[v] # level[v] =>
                           /\ SkuOf[v] \in DOMAIN q.stock
                           /\ level'[v] = Wanted(q.stock, SkuOf[v])
        BY DEF IInv
    <2>1. ASSUME NEW q \in UnderWay, NEW r, Land(r, q.batch),
                 \A u \in q.batch : FollowsFeed(u, q.stock)
          PROVE  \E p \in UnderWay : \A v \in Variants : level'[v] # level[v] =>
                     /\ SkuOf[v] \in DOMAIN p.stock
                     /\ level'[v] = Wanted(p.stock, SkuOf[v])
        BY <2>1, LandFollowsFeed
    <2>2. ASSUME NEW c \in Callers, ApplyBatch(c)
          PROVE  \E q \in UnderWay, r \in Nat :
                     Land(r, q.batch) /\ \A u \in q.batch : FollowsFeed(u, q.stock)
        <3>1. Sending(c) \in UnderWay /\ Land(call[c].run, Batch(c)) /\ call[c].run \in Nat
            BY <2>2 DEF ApplyBatch, UnderWay, TypeOK, Call
        <3>2. Sending(c).batch = Batch(c) /\ Sending(c).stock = call[c].stock
            BY DEF Sending
        <3>3. \A u \in Batch(c) : FollowsFeed(u, call[c].stock)
            BY <2>2, SendingStrays DEF ApplyBatch
        <3>4. QED BY <3>1, <3>2, <3>3
    <2>3. ASSUME NEW r \in 1..MaxRuns, LateBatch(r)
          PROVE  \E q \in UnderWay, k \in Nat :
                     Land(k, q.batch) /\ \A u \in q.batch : FollowsFeed(u, q.stock)
        <3>1. late[r] \in UnderWay /\ Land(r, late[r].batch) /\ r \in Nat
            BY <2>3 DEF LateBatch, UnderWay
        <3>2. \A u \in late[r].batch : FollowsFeed(u, late[r].stock)
            BY <2>3 DEF Strays, Stray, LateBatch
        <3>3. QED BY <3>1, <3>2
    <2>4. QED BY <2>1, <2>2, <2>3, WhoWrites
<1>2. QED BY Inductive, <1>1, PTL DEF Spec, WritesComeFromFeed

-----------------------------------------------------------------------------
(***************************************************************************)
(* Open rows.  A call lets go of its row without closing it in three steps *)
(* only, and each of them leaves it for want of a database; no failed step *)
(* of the reconciliation and no cancelled context makes it forget.         *)
(***************************************************************************)
Minded(r) == (\E c \in Callers : Busy(c) /\ call[c].run = r) \/ r \in left

LEMMA StillBusy ==
    ASSUME TypeOK, NEW c \in Callers, Busy(c), Working(c), ~CloseFails(c)
    PROVE  Busy(c)' /\ call'[c].run = call[c].run
<1>1. Busy(c)'
    <2>1. CASE Fail(c)
        BY <2>1 DEF Fail, Failed, Busy, TypeOK, Call
    <2>2. CASE ReadFeed(c) \/ BulkRun(c) \/ BulkRunUnnamed(c)
        BY <2>2 DEF ReadFeed, BulkRun, BulkRunUnnamed, Busy, TypeOK, Call
    <2>3. CASE Poll(c) \/ ApplyBatch(c)
        <3>1. call'[c].pc \in {"closing", "apply"}
            <4>1. CASE Poll(c)
                BY <4>1 DEF Poll, TypeOK, Call
            <4>2. CASE ApplyBatch(c)
                BY <4>2 DEF ApplyBatch, TypeOK, Call
            <4>3. QED BY <2>3, <4>1, <4>2
        <3>2. QED BY <3>1 DEF Busy
    <2>4. CASE LogChanges(c) \/ Cancel(c)
        BY <2>4 DEF LogChanges, Cancel, Busy, TypeOK, Call
    <2>5. ~Begin(c) /\ ~OpenFails(c)
        BY DEF Begin, OpenFails, Busy
    <2>6. QED BY <2>1, <2>2, <2>3, <2>4, <2>5 DEF Working, Reconciling, FeedFails, BulkRefused,
              BulkRunLost, ListFails, PollFails, ApplyLost, ApplyFails
<1>2. QED BY <1>1, WorkingShape

LEMMA LeftGrows == ASSUME [Next]_vars PROVE left \subseteq left'
<1>1. ASSUME NEW c \in Callers, Run(c) PROVE left \subseteq left'
    BY <1>1 DEF Run, Begin, Opening, Open, OpenLost, OpenFails, Reconciling, ReadFeed, FeedFails,
       BulkRun, BulkRunUnnamed, BulkRefused, BulkRunLost, ListFails, Poll, PollFails,
       ApplyBatch, ApplyLost, ApplyFails, Closing, LogChanges, Close, CloseFails, Cancel
<1>2. QED BY <1>1, AroundShape DEF Next, Crash

\* A row that was there before the step and is still open after it.
LEMMA StaysMinded ==
    ASSUME TypeOK, Owners, [Next]_vars, NEW r \in 1..Len(rows), Minded(r),
           rows'[r].state = "open"
    PROVE  Minded(r)'
<1>1. CASE r \in left
    BY <1>1, LeftGrows DEF Minded
<1>2. ASSUME NEW d \in Callers, Busy(d), call[d].run = r PROVE Minded(r)'
    <2>1. CASE call'[d] = call[d]
        BY <1>2, <2>1 DEF Minded, Busy
    <2>2. ASSUME NEW c \in Callers, Run(c), c # d PROVE Minded(r)'
        BY <2>1, <2>2, OthersStay
    <2>3. CASE Close(d)
        <3>1. /\ rows' = [rows EXCEPT ![r] = ClosedRow(d)] /\ rows \in Seq(Row)
              /\ call[d] \in Call /\ call[d].run = r
            BY <1>2, <2>3 DEF Close, TypeOK
        <3>2. rows[r] \in Row
            BY <3>1
        <3>3. ClosedRow(d).state = "closed"
            BY <3>1, <3>2 DEF ClosedRow, Row
        <3>4. QED BY <3>1, <3>3
    <2>4. CASE Working(d) /\ ~CloseFails(d)
        BY <1>2, <2>4, StillBusy DEF Minded
    <2>5. CASE CloseFails(d)
        BY <1>2, <2>5 DEF CloseFails, Minded
    <2>6. ~Open(d) /\ ~OpenLost(d)
        BY <1>2 DEF Open, OpenLost, Busy
    <2>7. CASE Crash
        BY <1>2, <2>7 DEF Crash, Minded
    <2>8. CASE Environment \/ UNCHANGED vars
        BY <2>1, <2>8, AroundShape
    <2>9. QED BY <2>2, <2>3, <2>4, <2>5, <2>6, <2>7, <2>8, RunIs DEF Next
<1>3. QED BY <1>1, <1>2 DEF Minded

LEMMA OpenRowStep == TypeOK /\ Owners /\ OpenRowHasRun /\ [Next]_vars => OpenRowHasRun'
<1> SUFFICES ASSUME TypeOK, Owners, OpenRowHasRun, [Next]_vars,
                    NEW r \in 1..Len(rows'), rows'[r].state = "open"
             PROVE  Minded(r)'
    BY DEF OpenRowHasRun, Minded, Busy
<1>1. ASSUME r \in 1..Len(rows), rows[r].state = "open" PROVE Minded(r)'
    BY <1>1, StaysMinded DEF OpenRowHasRun, Minded
<1>2. ASSUME NEW c \in Callers, Open(c) \/ OpenLost(c) PROVE Minded(r)'
    <2>1. NewRow(c) /\ Len(rows) \in Nat
        BY <1>2 DEF Open, OpenLost, TypeOK
    <2>2. CASE r = Len(rows) + 1
        <3>1. CASE Open(c)
            <4>1. call'[c] = Fresh("feed", Len(rows) + 1)
                BY <3>1 DEF Open, TypeOK
            <4>2. QED BY <2>2, <4>1 DEF Fresh, Busy, Minded
        <3>2. CASE OpenLost(c)
            BY <2>2, <3>2 DEF OpenLost, Minded
        <3>3. QED BY <1>2, <3>1, <3>2
    <2>3. CASE r # Len(rows) + 1
        <3>1. Len(rows') = Len(rows) + 1
            BY <2>1, RowType
        <3>2. r \in 1..Len(rows)
            BY <2>1, <2>3, <3>1
        <3>3. rows'[r] = rows[r]
            BY <2>1, <3>2 DEF NewRow, TypeOK
        <3>4. QED BY <1>1, <3>2, <3>3
    <2>4. QED BY <2>2, <2>3
<1>3. ASSUME NEW c \in Callers, Close(c) PROVE Minded(r)'
    <2>1. /\ rows' = [rows EXCEPT ![call[c].run] = ClosedRow(c)] /\ rows \in Seq(Row)
          /\ call[c].run \in 1..Len(rows) /\ call[c] \in Call
        BY <1>3 DEF Close, TypeOK, Owners, Busy
    <2>2. rows[call[c].run] \in Row
        BY <2>1
    <2>3. ClosedRow(c).state = "closed"
        BY <2>1, <2>2 DEF ClosedRow, Row
    <2>4. r # call[c].run /\ r \in 1..Len(rows) /\ rows'[r] = rows[r]
        BY <2>1, <2>3
    <2>5. QED BY <1>1, <2>4
<1>4. CASE rows' = rows
    BY <1>1, <1>4
<1>5. QED BY <1>2, <1>3, <1>4, RunIs, WorkingShape, AroundShape DEF Next, Crash, database

\* A row is left without its end only where the database is out of reach or the
\* process is gone: of an opened run every failed step and every context that
\* ends leads to the closing transaction, whatever else fails.
THEOREM OpenRowsAreOwned == Spec => []OpenRowHasRun
<1>1. Init => OpenRowHasRun
    BY DEF Init, OpenRowHasRun
<1>2. IInv /\ OpenRowHasRun /\ [Next]_vars => OpenRowHasRun'
    BY OpenRowStep DEF IInv
<1>3. QED BY Inductive, <1>1, <1>2, PTL DEF Spec

-----------------------------------------------------------------------------
(***************************************************************************)
(* Reconciled.  While nobody interferes, the listing a call waits for by   *)
(* its id is the store as it is, and a variant the warehouse knows is      *)
(* either right or has an update that is still to come.                    *)
(***************************************************************************)
Right(c, v) == level[v] = Wanted(call[c].stock, SkuOf[v])

ToCome(c, v) == \E n \in call[c].next..Len(call[c].updates) : call[c].updates[n].item.id = v

Faithful(c) == c \in quiet /\ call[c].op # 0 =>
    /\ call[c].pc = "poll" => ops[call[c].op].lines = level
    /\ call[c].pc = "apply" =>
         \A v \in Variants : Known(v, call[c].stock) => Right(c, v) \/ ToCome(c, v)
    /\ call[c].pc \in {"closing", "logged"} /\ ~call[c].failed =>
         \A v \in Variants : Known(v, call[c].stock) => Right(c, v)

AllFaithful == \A c \in Callers : Faithful(c)

\* Diff leaves out no variant that is not right yet.
LEMMA DiffCovers ==
    ASSUME NEW lines \in [Variants -> Int], NEW stock \in Feeds,
           NEW s \in Diff(Items(lines), stock),
           NEW v \in Variants, Known(v, stock),
           lines[v] # Wanted(stock, SkuOf[v])
    PROVE  \E n \in 1..Len(s) : s[n].item.id = v
<1> DEFINE i == [sku |-> SkuOf[v], id |-> v, location |-> "primary", quantity |-> lines[v]]
           u == [item |-> i, new |-> Wanted(stock, i.sku)]
<1>1. i \in Items(lines)
    BY DEF Items
<1>2. Writable(i) /\ i.sku \in DOMAIN stock /\ Wanted(stock, i.sku) # i.quantity
    BY StoreAssumption DEF Known, Writable
<1>3. u \in Updates(Items(lines), stock)
    BY <1>1, <1>2 DEF Updates
<1>4. {s[n] : n \in 1..Len(s)} = Updates(Items(lines), stock)
    BY ItemsFinite, DiffListsUpdates
<1>5. QED BY <1>3, <1>4

\* A call that does not move stays faithful as long as the store does not
\* change and its operation lists the store.
LEMMA Unbothered ==
    ASSUME NEW d \in Callers, Faithful(d), call'[d] = call[d], level' = level,
           d \in quiet' => d \in quiet,
           call[d].op # 0 /\ ops[call[d].op].lines = level =>
               ops'[call[d].op].lines = level
    PROVE  Faithful(d)'
<1>1. \A v : Known(v, call[d].stock)' = Known(v, call[d].stock)
    BY DEF Known
<1>2. \A v : Right(d, v)' = Right(d, v) /\ ToCome(d, v)' = ToCome(d, v)
    BY DEF Right, ToCome
<1>3. QED BY <1>1, <1>2 DEF Faithful

LEMMA Vacuous ==
    ASSUME NEW c \in Callers,
           \/ call'[c].pc \notin {"poll", "apply", "closing", "logged"}
           \/ call'[c].op = 0 \/ c \notin quiet'
    PROVE  Faithful(c)'
BY DEF Faithful

\* A run that fails promises nothing.
LEMMA FailedFaithful ==
    ASSUME TypeOK, NEW c \in Callers, Fail(c)
    PROVE  Faithful(c)'
<1>1. call'[c].pc = "closing" /\ call'[c].failed = TRUE
    BY DEF Fail, Failed, TypeOK, Call
<1>2. QED BY <1>1 DEF Faithful

LEMMA BulkRunFaithful ==
    ASSUME TypeOK, NEW c \in Callers, BulkRun(c)
    PROVE  Faithful(c)'
<1>1. PICK n \in Nat : n = Len(ops)
    BY DEF TypeOK
<1>2. call'[c].pc = "poll" /\ call'[c].op = n + 1
    BY <1>1 DEF BulkRun, TypeOK, Call
<1>3. ops'[n + 1].lines = level /\ level' = level
    BY <1>1 DEF BulkRun, StartOperation, TypeOK
<1>4. QED BY <1>2, <1>3 DEF Faithful

LEMMA UnnamedFaithful ==
    ASSUME TypeOK, NEW c \in Callers, BulkRunUnnamed(c)
    PROVE  Faithful(c)'
<1>1. call'[c].op = 0
    BY DEF BulkRunUnnamed, TypeOK, Call
<1>2. QED BY <1>1, Vacuous

LEMMA PollFaithful ==
    ASSUME TypeOK, Progress, NEW c \in Callers, Faithful(c), Poll(c)
    PROVE  Faithful(c)'
<1>1. /\ call[c].stock \in Feeds /\ shown \in 1..Len(ops) /\ call[c].op \in {0, shown}
      /\ call[c].next = 1
    BY DEF TypeOK, Progress, Reading, Holding, Poll, Awaits, Call
<1>2. ops[shown].lines \in [Variants -> Int]
    <2>1. ops[shown] \in Operation
        BY <1>1 DEF TypeOK
    <2>2. QED BY <2>1 DEF Operation
<1>3. PICK u \in Diff(Items(ops[shown].lines), call[c].stock) :
        call' = [call EXCEPT ![c].pc = IF u = <<>> THEN "closing" ELSE "apply",
                             ![c].checked = Cardinality(Variants),
                             ![c].updates = u]
    BY DEF Poll
<1>4. /\ call'[c].pc = IF u = <<>> THEN "closing" ELSE "apply"
      /\ call'[c].updates = u /\ call'[c].stock = call[c].stock /\ call'[c].next = 1
      /\ call'[c].op = call[c].op /\ level' = level /\ quiet' = quiet
    BY <1>1, <1>3 DEF Poll, shopify, TypeOK, Call
<1>5. ASSUME c \in quiet, call[c].op # 0, NEW v \in Variants, Known(v, call[c].stock), ~Right(c, v)
      PROVE  \E n \in 1..Len(u) : u[n].item.id = v
    <2>1. ops[shown].lines = level
        BY <1>1, <1>5 DEF Faithful, Poll
    <2>2. ops[shown].lines[v] # Wanted(call[c].stock, SkuOf[v])
        BY <1>5, <2>1 DEF Right
    <2>3. QED BY <1>1, <1>2, <1>5, <2>2, DiffCovers
<1>6. \A v : /\ Right(c, v)' = Right(c, v)
             /\ Known(v, call[c].stock)' = Known(v, call[c].stock)
             /\ ToCome(c, v)' = \E n \in 1..Len(u) : u[n].item.id = v
    BY <1>4 DEF Right, Known, ToCome
<1>7. ASSUME c \in quiet', call[c].op # 0, u = <<>> PROVE Faithful(c)'
    <2>1. \A v \in Variants : Known(v, call[c].stock) => Right(c, v)
        BY <1>4, <1>5, <1>7
    <2>2. call'[c].pc = "closing"
        BY <1>4, <1>7
    <2>3. QED BY <1>4, <1>6, <2>1, <2>2 DEF Faithful
<1>8. ASSUME c \in quiet', call[c].op # 0, u # <<>> PROVE Faithful(c)'
    <2>1. \A v \in Variants : Known(v, call[c].stock) => Right(c, v) \/ ToCome(c, v)'
        BY <1>4, <1>5, <1>6, <1>8
    <2>2. call'[c].pc = "apply"
        BY <1>4, <1>8
    <2>3. QED BY <1>4, <1>6, <2>1, <2>2 DEF Faithful
<1>9. QED BY <1>4, <1>7, <1>8, Vacuous

LEMMA ApplyBatchFaithful ==
    ASSUME TypeOK, Progress, NEW c \in Callers, Faithful(c), ApplyBatch(c)
    PROVE  Faithful(c)'
<1>1. PICK e, n, us : e = BatchEnd(c) /\ n = call[c].next /\ us = call[c].updates
    OBVIOUS
<1>2. n <= Len(us) /\ \A i \in 1..Len(us) : FollowsFeed(us[i], call[c].stock)
    BY <1>1 DEF Progress, Applying, ApplyBatch
<1>3. e \in n..Len(us) /\ n \in Nat \ {0} /\ Len(us) \in Nat
    <2>1. call[c] \in Call
        BY DEF TypeOK
    <2>2. e \in n..Len(us)
        BY <1>1, <1>2, BatchType
    <2>3. QED BY <1>1, <2>1, <2>2 DEF Call
<1>4. /\ call'[c].pc = IF e = Len(us) THEN "closing" ELSE "apply"
      /\ call'[c].next = e + 1 /\ call'[c].updates = us
      /\ call'[c].stock = call[c].stock /\ (c \in quiet' => c \in quiet)
      /\ call'[c].op = call[c].op
    BY <1>1 DEF ApplyBatch, TypeOK, Call
<1>5. ASSUME c \in quiet, call[c].op # 0, NEW v \in Variants, Known(v, call[c].stock)
      PROVE  level'[v] = Wanted(call[c].stock, SkuOf[v])
             \/ \E i \in (e + 1)..Len(us) : us[i].item.id = v
    <2>1. CASE \E u \in Batch(c) : u.item.id = v
        <3>1. PICK u \in Batch(c) : u.item.id = v /\ level'[v] = u.new
            <4>1. level'[v] = (CHOOSE u \in Batch(c) : u.item.id = v).new
                BY <2>1 DEF ApplyBatch, Land
            <4>2. QED BY <2>1, <4>1
        <3>2. FollowsFeed(u, call[c].stock)
            BY <1>1, <1>2, <1>3, <3>1 DEF Batch
        <3>3. QED BY <3>1, <3>2 DEF FollowsFeed
    <2>2. CASE ~ \E u \in Batch(c) : u.item.id = v
        <3>1. level'[v] = level[v]
            BY <2>2 DEF ApplyBatch, Land
        <3>2. Right(c, v) \/ ToCome(c, v)
            BY <1>5 DEF Faithful, ApplyBatch
        <3>3. ~ \E i \in n..e : us[i].item.id = v
            BY <1>1, <2>2 DEF Batch
        <3>4. n..Len(us) = (n..e) \cup ((e + 1)..Len(us))
            BY <1>3
        <3>5. QED BY <1>1, <3>1, <3>2, <3>3, <3>4 DEF Right, ToCome
    <2>3. QED BY <2>1, <2>2
<1>6. \A v : /\ Right(c, v)' = (level'[v] = Wanted(call[c].stock, SkuOf[v]))
             /\ Known(v, call[c].stock)' = Known(v, call[c].stock)
             /\ ToCome(c, v)' = \E i \in (e + 1)..Len(us) : us[i].item.id = v
    BY <1>4 DEF Right, Known, ToCome
<1>7. e = Len(us) => ~ \E i \in (e + 1)..Len(us) : TRUE
    BY <1>3
<1>8. QED BY <1>4, <1>5, <1>6, <1>7 DEF Faithful

LEMMA LogChangesFaithful ==
    ASSUME TypeOK, NEW c \in Callers, Faithful(c), LogChanges(c) \/ Cancel(c)
    PROVE  Faithful(c)'
<1>1. /\ call'[c].pc # call[c].pc => call'[c].pc = "logged" /\ call[c].pc = "closing"
      /\ call'[c].stock = call[c].stock /\ call'[c].op = call[c].op
      /\ call'[c].failed = call[c].failed /\ call'[c].updates = call[c].updates
      /\ call'[c].next = call[c].next
      /\ level' = level /\ ops' = ops /\ quiet' = quiet
    BY DEF LogChanges, Cancel, shopify, TypeOK, Call
<1>2. \A v : Known(v, call[c].stock)' = Known(v, call[c].stock)
    BY <1>1 DEF Known
<1>3. \A v : Right(c, v)' = Right(c, v) /\ ToCome(c, v)' = ToCome(c, v)
    BY <1>1 DEF Right, ToCome
<1>4. QED BY <1>1, <1>2, <1>3 DEF Faithful

LEMMA RunFaithful ==
    ASSUME TypeOK, Progress, NEW c \in Callers, Faithful(c), Run(c)
    PROVE  Faithful(c)'
<1>1. CASE ReadFeed(c)
    <2>1. call'[c].pc = "list"
        BY <1>1 DEF ReadFeed, TypeOK, Call
    <2>2. QED BY <2>1, Vacuous
<1>2. CASE Begin(c) \/ Opening(c) \/ Close(c) \/ CloseFails(c)
    <2>1. call'[c].pc \in {"open", "feed", "idle"}
        BY <1>2 DEF Begin, Opening, Open, OpenLost, OpenFails, Close, CloseFails, Fresh, Idle,
           TypeOK
    <2>2. QED BY <2>1, Vacuous
<1>3. CASE Fail(c)
    BY <1>3, FailedFaithful
<1>4. QED BY <1>1, <1>2, <1>3, BulkRunFaithful, UnnamedFaithful, PollFaithful,
          ApplyBatchFaithful, LogChangesFaithful
          DEF Run, Reconciling, Closing, FeedFails, BulkRefused, BulkRunLost, ListFails,
              PollFails, ApplyLost, ApplyFails

LEMMA OperationKept ==
    ASSUME TypeOK, NEW d \in Callers, call[d].op # 0, ops' = ops \/ StartOperation
    PROVE  ops'[call[d].op] = ops[call[d].op]
<1>1. call[d].op \in 1..Len(ops)
    BY DEF TypeOK, Call
<1>2. QED BY <1>1 DEF StartOperation, TypeOK

\* Another caller's step: if it touches the store, d is no longer undisturbed.
LEMMA OthersFaithful ==
    ASSUME TypeOK, Owners, Progress, NEW c \in Callers, Run(c),
           NEW d \in Callers, d # c, Faithful(d)
    PROVE  Faithful(d)'
<1>1. call'[d] = call[d]
    BY OthersStay
<1>2. CASE ApplyBatch(c)
    <2>1. d \notin quiet'
        BY <1>2 DEF ApplyBatch
    <2>2. QED BY <2>1, Vacuous
<1>3. CASE ~ApplyBatch(c)
    <2>1. level' = level
        BY <1>3, RunIs, KeepsLanded DEF Open, OpenLost, Close, shopify
    <2>2. (d \in quiet' => d \in quiet) /\ (ops' = ops \/ StartOperation)
        BY <1>3 DEF Run, Begin, Opening, Open, OpenLost, OpenFails, Reconciling, ReadFeed,
           FeedFails, BulkRun, BulkRunUnnamed, BulkRefused, BulkRunLost, ListFails, Poll,
           PollFails, Closing, ApplyLost, ApplyFails, LogChanges, Close, CloseFails, Cancel,
           shopify, service
    <2>3. QED BY <1>1, <2>1, <2>2, OperationKept, Unbothered
<1>4. QED BY <1>2, <1>3

LEMMA FaithfulStep == TypeOK /\ Owners /\ Progress /\ AllFaithful /\ [Next]_vars => AllFaithful'
<1> SUFFICES ASSUME TypeOK, Owners, Progress, AllFaithful, [Next]_vars, NEW d \in Callers
             PROVE  Faithful(d)'
    BY DEF AllFaithful
<1>1. Faithful(d)
    BY DEF AllFaithful
<1>2. ASSUME NEW c \in Callers, Run(c) PROVE Faithful(d)'
    BY <1>1, <1>2, RunFaithful, OthersFaithful
<1>3. ASSUME quiet' = {} PROVE Faithful(d)'
    BY <1>3, Vacuous
<1>4. ASSUME NEW st \in {"COMPLETED", "FAILED"}, BulkEnds(st) PROVE Faithful(d)'
    <2>1. PICK i \in 1..Len(ops) : ops' = [ops EXCEPT ![i] = [status |-> st, lines |-> level]]
        BY <1>4 DEF BulkEnds
    <2>2. call[d].op # 0 => call[d].op \in 1..Len(ops)
        BY DEF TypeOK, Call
    <2>3. call[d].op # 0 => ops'[call[d].op].lines \in {ops[call[d].op].lines, level}
        BY <2>1, <2>2 DEF TypeOK
    <2>4. QED BY <1>1, <1>4, <2>3, Unbothered DEF BulkEnds, service
<1>5. CASE CatchUp \/ UNCHANGED vars
    BY <1>1, <1>5, Unbothered DEF CatchUp, vars, shopify, service
<1>6. ASSUME NEW r \in 1..MaxRuns, LateQuery(r) PROVE Faithful(d)'
    BY <1>1, <1>6, OperationKept, Unbothered DEF LateQuery, service
<1>7. QED BY <1>2, <1>3, <1>4, <1>5, <1>6
         DEF Next, Crash, Environment, LateBatch, Merchant, Warehouse, Move

\* A run that was told the id of its operation and succeeds undisturbed leaves
\* the store as the warehouse says: for every store, every feed, every batch
\* size, whatever other calls did before.
THEOREM SuccessReconciles == Spec => []SuccessMeansReconciled
<1>1. Init => AllFaithful
    BY DEF Init, AllFaithful, Faithful
<1>2. IInv /\ AllFaithful /\ [Next]_vars => AllFaithful'
    BY FaithfulStep DEF IInv
<1>3. IInv /\ AllFaithful => SuccessMeansReconciled
    BY DEF IInv, TypeOK, AllFaithful, Faithful, Right, SuccessMeansReconciled
<1>4. QED BY Inductive, <1>1, <1>2, <1>3, PTL DEF Spec

-----------------------------------------------------------------------------
(***************************************************************************)
(* The listing.  An operation belongs to the call that was told its id for *)
(* as long as that call waits for it or works on it, and one that has      *)
(* completed is never touched again.                                       *)
(***************************************************************************)
Waits(c) == call[c].pc \in {"poll", "apply"} /\ call[c].op # 0

Listed(c) == call[c].pc = "apply" /\ call[c].op # 0 =>
    /\ ops[call[c].op].status = "COMPLETED"
    /\ call[c].updates \in Diff(Items(ops[call[c].op].lines), call[c].stock)

OwnOperations ==
    /\ \A c \in Callers : Waits(c) => call[c].op \in 1..Len(ops)
    /\ \A c, d \in Callers : Waits(c) /\ Waits(d) /\ call[c].op = call[d].op => c = d
    /\ \A c \in Callers : Listed(c)

\* Operations are only added, and a completed one keeps its listing.
LEMMA OperationsStay ==
    ASSUME TypeOK, [Next]_vars
    PROVE  /\ Len(ops) \in Nat /\ Len(ops') \in Nat /\ Len(ops) <= Len(ops')
           /\ \A i \in 1..Len(ops) : ops[i].status = "COMPLETED" => ops'[i] = ops[i]
<1>1. Len(ops) \in Nat
    BY DEF TypeOK
<1>2. CASE StartOperation
    BY <1>1, <1>2 DEF StartOperation, TypeOK
<1>3. ASSUME NEW st \in {"COMPLETED", "FAILED"}, BulkEnds(st)
      PROVE  /\ Len(ops') = Len(ops)
             /\ \A i \in 1..Len(ops) : ops[i].status = "COMPLETED" => ops'[i] = ops[i]
    <2>1. PICK j \in 1..Len(ops) :
            /\ ops[j].status = "RUNNING"
            /\ ops' = [ops EXCEPT ![j] = [status |-> st, lines |-> level]]
        BY <1>3 DEF BulkEnds
    <2>2. QED BY <2>1 DEF TypeOK
<1>4. CASE ops' = ops
    BY <1>1, <1>4
<1>5. StartOperation \/ BulkEnds("COMPLETED") \/ BulkEnds("FAILED") \/ ops' = ops
    BY DEF Next, Run, Begin, Opening, Open, OpenLost, OpenFails, Reconciling, ReadFeed,
       FeedFails, BulkRun, BulkRunUnnamed, BulkRefused, BulkRunLost, ListFails, Poll, PollFails,
       ApplyBatch, ApplyLost, ApplyFails, Closing, LogChanges, Close, CloseFails, Cancel,
       Crash, Environment, CatchUp, LateBatch, LateQuery, Merchant, Warehouse, shopify, vars
<1>6. QED BY <1>1, <1>2, <1>3, <1>4, <1>5

\* A call that fails waits for nothing.
LEMMA FailedWaits ==
    ASSUME TypeOK, NEW c \in Callers, Fail(c)
    PROVE  ~Waits(c)'
<1>1. call'[c].pc = "closing"
    BY DEF Fail, Failed, TypeOK, Call
<1>2. QED BY <1>1 DEF Waits

\* A call comes to wait by starting an operation and being told its id, the
\* newest there is; apart from that it goes on with the one it has.
LEMMA OwnShape ==
    ASSUME TypeOK, NEW c \in Callers, Run(c), Waits(c)'
    PROVE  \/ /\ call'[c].pc = "poll"
              /\ call'[c].op = Len(ops) + 1 /\ Len(ops') = Len(ops) + 1
           \/ Waits(c) /\ call'[c].op = call[c].op
<1>1. CASE ReadFeed(c) \/ LogChanges(c) \/ Close(c) \/ CloseFails(c)
    <2>1. call'[c].pc \in {"list", "logged", "idle"}
        BY <1>1 DEF ReadFeed, LogChanges, Close, CloseFails, Fresh, Idle, TypeOK, Call
    <2>2. QED BY <2>1 DEF Waits
<1>2. CASE BulkRun(c)
    <2>1. PICK n \in Nat : n = Len(ops)
        BY DEF TypeOK
    <2>2. call'[c].pc = "poll" /\ call'[c].op = n + 1
        BY <1>2, <2>1 DEF BulkRun, TypeOK, Call
    <2>3. Len(ops') = n + 1
        BY <1>2, <2>1 DEF BulkRun, StartOperation, TypeOK
    <2>4. QED BY <2>1, <2>2, <2>3
<1>3. CASE Poll(c)
    <2>1. call[c].pc = "poll" /\ call'[c].op = call[c].op
        BY <1>3 DEF Poll, TypeOK, Call
    <2>2. QED BY <2>1 DEF Waits
<1>4. CASE ApplyBatch(c)
    <2>1. call[c].pc = "apply" /\ call'[c].op = call[c].op
        BY <1>4 DEF ApplyBatch, TypeOK, Call
    <2>2. QED BY <2>1 DEF Waits
<1>5. CASE Begin(c) \/ Opening(c) \/ BulkRunUnnamed(c)
    <2>1. call'[c].op = 0
        BY <1>5 DEF Begin, Opening, Open, OpenLost, OpenFails, BulkRunUnnamed, Fresh, Idle,
           TypeOK, Call
    <2>2. QED BY <2>1 DEF Waits
<1>6. CASE Cancel(c)
    <2>1. call'[c].pc = call[c].pc /\ call'[c].op = call[c].op
        BY <1>6 DEF Cancel, TypeOK, Call
    <2>2. QED BY <2>1 DEF Waits
<1>7. CASE Fail(c)
    BY <1>7, FailedWaits
<1>8. QED BY <1>1, <1>2, <1>3, <1>4, <1>5, <1>6, <1>7
         DEF Run, Reconciling, Closing, FeedFails, BulkRefused, BulkRunLost, ListFails,
             PollFails, ApplyLost, ApplyFails

\* A call whose record and whose completed operation stay has the same listing.
LEMMA StillListed ==
    ASSUME NEW d \in Callers, Listed(d), call[d].pc = "apply", call[d].op # 0,
           call'[d].op = call[d].op, call'[d].stock = call[d].stock,
           call'[d].updates = call[d].updates,
           ops[call[d].op].status = "COMPLETED" => ops'[call[d].op] = ops[call[d].op]
    PROVE  Listed(d)'
BY DEF Listed

\* A call that begins to write has just read its own operation's file.
LEMMA RunListed ==
    ASSUME TypeOK, OwnOperations, NEW c \in Callers, Run(c), [Next]_vars
    PROVE  Listed(c)'
<1>1. \A i \in 1..Len(ops) : ops[i].status = "COMPLETED" => ops'[i] = ops[i]
    BY OperationsStay
<1>2. CASE Poll(c)
    <2>1. PICK u \in Diff(Items(ops[shown].lines), call[c].stock) :
            call' = [call EXCEPT ![c].pc = IF u = <<>> THEN "closing" ELSE "apply",
                                 ![c].checked = Cardinality(Variants),
                                 ![c].updates = u]
        BY <1>2 DEF Poll
    <2>2. /\ call'[c].op \in {0, shown} /\ call'[c].updates = u
          /\ call'[c].stock = call[c].stock /\ ops' = ops
        BY <1>2, <2>1 DEF Poll, Awaits, shopify, TypeOK, Call
    <2>3. ops[shown].status = "COMPLETED"
        BY <1>2 DEF Poll
    <2>4. QED BY <2>2, <2>3 DEF Listed
<1>3. CASE ApplyBatch(c) \/ Cancel(c)
    <2>1. /\ call'[c].op = call[c].op /\ call'[c].updates = call[c].updates
          /\ call'[c].stock = call[c].stock
          /\ call'[c].pc = "apply" => call[c].pc = "apply"
        BY <1>3 DEF ApplyBatch, Cancel, TypeOK, Call
    <2>2. CASE call[c].pc = "apply" /\ call[c].op # 0
        <3>1. call[c].op \in 1..Len(ops) /\ Listed(c)
            BY <2>2 DEF OwnOperations, Waits
        <3>2. QED BY <1>1, <2>1, <2>2, <3>1, StillListed
    <2>3. CASE call[c].pc # "apply" \/ call[c].op = 0
        BY <2>1, <2>3 DEF Listed
    <2>4. QED BY <2>2, <2>3
<1>4. CASE ReadFeed(c) \/ BulkRun(c) \/ BulkRunUnnamed(c) \/ LogChanges(c)
    <2>1. call'[c].pc \in {"list", "poll", "logged"}
        BY <1>4 DEF ReadFeed, BulkRun, BulkRunUnnamed, LogChanges, TypeOK, Call
    <2>2. QED BY <2>1 DEF Listed
<1>5. CASE Begin(c) \/ Opening(c) \/ Close(c) \/ CloseFails(c)
    <2>1. call'[c].op = 0
        BY <1>5 DEF Begin, Opening, Open, OpenLost, OpenFails, Close, CloseFails, Fresh, Idle,
           TypeOK
    <2>2. QED BY <2>1 DEF Listed
<1>6. CASE Fail(c)
    BY <1>6, FailedWaits DEF Waits, Listed
<1>7. QED BY <1>2, <1>3, <1>4, <1>5, <1>6
         DEF Run, Reconciling, Closing, FeedFails, BulkRefused, BulkRunLost, ListFails,
             PollFails, ApplyLost, ApplyFails

LEMMA OwnOperationsStep == TypeOK /\ Owners /\ OwnOperations /\ [Next]_vars => OwnOperations'
<1> SUFFICES ASSUME TypeOK, Owners, OwnOperations, [Next]_vars
             PROVE  OwnOperations'
    OBVIOUS
<1>1. /\ Len(ops) \in Nat /\ Len(ops') \in Nat /\ Len(ops) <= Len(ops')
      /\ \A i \in 1..Len(ops) : ops[i].status = "COMPLETED" => ops'[i] = ops[i]
    BY OperationsStay
<1>2. /\ \A d \in Callers : Waits(d) => call[d].op \in 1..Len(ops)
      /\ \A d, e \in Callers : Waits(d) /\ Waits(e) /\ call[d].op = call[e].op => d = e
      /\ \A d \in Callers : Listed(d)
    BY DEF OwnOperations
<1>3. ASSUME NEW d \in Callers, call'[d] = call[d] PROVE Waits(d)' = Waits(d) /\ Listed(d)'
    <2>1. Waits(d)' = Waits(d)
        BY <1>3 DEF Waits
    <2>2. CASE call[d].pc = "apply" /\ call[d].op # 0
        <3>1. call[d].op \in 1..Len(ops) /\ Listed(d)
            BY <1>2, <2>2 DEF Waits
        <3>2. QED BY <1>1, <1>3, <2>1, <2>2, <3>1, StillListed
    <2>3. CASE call[d].pc # "apply" \/ call[d].op = 0
        BY <1>3, <2>1, <2>3 DEF Listed
    <2>4. QED BY <2>1, <2>2, <2>3
<1>4. ASSUME NEW c \in Callers, Run(c) PROVE OwnOperations'
    <2>1. \A d \in Callers : d # c => call'[d] = call[d]
        BY <1>4, OthersStay
    <2>2. Waits(c)' => \/ call'[c].op = Len(ops) + 1 /\ Len(ops') = Len(ops) + 1
                       \/ Waits(c) /\ call'[c].op = call[c].op
        BY <1>4, OwnShape
    <2>3. \A d \in Callers : Waits(d)' => call'[d].op \in 1..Len(ops')
        BY <1>1, <1>2, <1>3, <2>1, <2>2
    <2>4. \A d, e \in Callers : Waits(d)' /\ Waits(e)' /\ call'[d].op = call'[e].op => d = e
        <3>1. \A d \in Callers : d # c /\ Waits(d)' =>
                 Waits(d) /\ call'[d].op = call[d].op /\ call[d].op \in 1..Len(ops)
            BY <1>2, <1>3, <2>1
        <3>2. \A d \in Callers : d # c /\ Waits(d)' /\ Waits(c)' => call'[d].op # call'[c].op
            BY <1>1, <1>2, <2>2, <3>1
        <3>3. \A d, e \in Callers : d # c /\ e # c /\ Waits(d)' /\ Waits(e)'
                                    /\ call'[d].op = call'[e].op => d = e
            BY <1>2, <3>1
        <3>4. QED BY <3>2, <3>3
    <2>5. \A d \in Callers : Listed(d)'
        BY <1>3, <1>4, <2>1, RunListed
    <2>6. QED BY <2>3, <2>4, <2>5 DEF OwnOperations
<1>5. CASE Crash
    <2>1. \A d \in Callers : call'[d].pc = "idle"
        BY <1>5 DEF Crash, Idle, Fresh
    <2>2. QED BY <2>1 DEF OwnOperations, Waits, Listed
<1>6. CASE Environment \/ UNCHANGED vars
    <2>1. call' = call
        BY <1>6, AroundShape
    <2>2. \A d \in Callers : Waits(d)' = Waits(d) /\ Listed(d)'
        BY <1>3, <2>1
    <2>3. QED BY <1>1, <1>2, <2>1, <2>2 DEF OwnOperations
<1>7. QED BY <1>4, <1>5, <1>6 DEF Next

\* A run that was told the id of its operation writes on the completed listing
\* of that operation, whatever currentBulkOperation answered on the way and
\* however many calls wait at once.
THEOREM ListingIsOwn == Spec => []ActsOnOwnListing
<1>1. Init => OwnOperations
    BY DEF Init, OwnOperations, Waits, Listed, Idle, Fresh
<1>2. IInv /\ OwnOperations /\ [Next]_vars => OwnOperations'
    BY OwnOperationsStep DEF IInv
<1>3. OwnOperations => ActsOnOwnListing
    <2> SUFFICES ASSUME OwnOperations, NEW c \in Callers, call[c].pc = "apply", call[c].op # 0
                 PROVE  /\ Listed(c) /\ Waits(c)
                        /\ \A d \in Callers \ {c} :
                             call[d].pc \in {"poll", "apply"} => call[d].op # call[c].op
        BY DEF ActsOnOwnListing, Listed
    <2>1. Listed(c) /\ Waits(c)
        BY DEF OwnOperations, Waits
    <2>2. \A d \in Callers : call[d].pc \in {"poll", "apply"} /\ call[d].op = call[c].op => d = c
        BY <2>1 DEF OwnOperations, Waits
    <2>3. QED BY <2>1, <2>2
<1>4. QED BY Inductive, <1>1, <1>2, <1>3, PTL DEF Spec

-----------------------------------------------------------------------------
(***************************************************************************)
(* Once.  What landed is the part of the list that the call is past, the   *)
(* list names each item once, and a batch given up is of what is left.     *)
(***************************************************************************)
\* A run sets an item at most once, for every batch size and however many
\* answers were lost: a sale made after the first write is not undone by it.
THEOREM ItemsAreSetOnce == Spec => []EachItemOnce
<1>1. ASSUME IInv PROVE EachItemOnce
    <2>1. ASSUME NEW c \in Callers, call[c].pc = "apply",
                 NEW n \in call[c].next..Len(call[c].updates), NEW u \in landed[call[c].run]
          PROVE  u.item.id # call[c].updates[n].item.id
        <3>1. PICK us, next : us = call[c].updates /\ next = call[c].next
            OBVIOUS
        <3>2. us \in Seq(Update) /\ next \in Nat \ {0}
            BY <1>1, <3>1 DEF IInv, TypeOK, Call
        <3>3. /\ landed[call[c].run] = {us[i] : i \in 1..(next - 1)}
              /\ next <= Len(us) /\ NamesOnce(us)
            BY <1>1, <2>1, <3>1 DEF IInv, Progress, Applying, Prefix
        <3>4. PICK i \in 1..(next - 1) : u = us[i]
            BY <2>1, <3>3
        <3>5. i \in 1..Len(us) /\ n \in 1..Len(us) /\ i # n
            BY <2>1, <3>1, <3>2, <3>3
        <3>6. us[i].item.id # us[n].item.id
            BY <3>3, <3>5 DEF NamesOnce
        <3>7. QED BY <3>1, <3>4, <3>6
    <2>2. ASSUME NEW r \in 1..Len(rows), NEW u \in late[r].batch, NEW w \in landed[r]
          PROVE  u.item.id # w.item.id
        <3>1. r \in 1..MaxRuns
            BY <1>1, RunsBounded DEF IInv
        <3>2. Stray(r)
            BY <1>1, <3>1 DEF IInv, Strays
        <3>3. QED BY <2>2, <3>2 DEF Stray
    <2>3. QED BY <2>1, <2>2 DEF EachItemOnce
<1>2. QED BY Inductive, <1>1, PTL

-----------------------------------------------------------------------------
(***************************************************************************)
(* The deadline.  A call whose context is done starts nothing and waits    *)
(* for nothing any more.                                                   *)
(***************************************************************************)

\* How far a call is from its end.
Left(pc) == CASE pc = "feed"             -> 5
              [] pc = "list"             -> 4
              [] pc \in {"poll", "apply"} -> 3
              [] pc = "closing"          -> 2
              [] pc \in {"logged", "open"} -> 1
              [] OTHER                   -> 0

\* Once its context is done, whatever happens to a call brings it closer to its
\* end, and nothing brings the context back: the worker is stuck in a sync for
\* at most five more of its steps, and none of them sets a quantity.  What it
\* had sent when the context ended is LateBatch's.
DeadlineEndsTheRun ==
    [][\A c \in Callers : call[c].pc # "idle" /\ ~call[c].live /\ call'[c] # call[c] =>
          /\ Left(call'[c].pc) < Left(call[c].pc)
          /\ Left(call'[c].pc) > 0 => ~call'[c].live
          /\ Busy(c) => landed'[call[c].run] = landed[call[c].run]]_vars

LEMMA RunMovesOn ==
    ASSUME TypeOK, Owners, NEW c \in Callers, Run(c), call[c].pc # "idle", ~call[c].live,
           call'[c] # call[c]
    PROVE  /\ Left(call'[c].pc) < Left(call[c].pc)
           /\ Left(call'[c].pc) > 0 => ~call'[c].live
           /\ Busy(c) => landed'[call[c].run] = landed[call[c].run]
<1>1. CASE ReadFeed(c)
    <2>1. /\ call[c].pc = "feed" /\ call'[c].pc = "list"
          /\ call'[c].live = call[c].live /\ landed' = landed
        BY <1>1 DEF ReadFeed, TypeOK, Call
    <2>2. QED BY <2>1 DEF Left
<1>2. CASE Fail(c) /\ call[c].pc \in {"feed", "list", "poll", "apply"} /\ landed' = landed
    <2>1. call'[c].pc = "closing" /\ call'[c].live = call[c].live
        BY <1>2 DEF Fail, Failed, TypeOK, Call
    <2>2. QED BY <1>2, <2>1 DEF Left
<1>3. CASE LogChanges(c)
    <2>1. /\ call[c].pc = "closing" /\ call'[c].pc = "logged"
          /\ call'[c].live = call[c].live /\ landed' = landed
        BY <1>3 DEF LogChanges, TypeOK, Call
    <2>2. QED BY <2>1 DEF Left
<1>4. CASE Close(c) \/ CloseFails(c)
    <2>1. /\ call[c].pc \in {"closing", "logged"} /\ call'[c].pc = "idle"
          /\ landed' = landed
        BY <1>4 DEF Close, CloseFails, Idle, Fresh, TypeOK, Call
    <2>2. QED BY <2>1 DEF Left
<1>5. CASE OpenLost(c) \/ OpenFails(c)
    <2>1. call[c].pc = "open" /\ call'[c].pc = "idle"
        BY <1>5 DEF OpenLost, OpenFails, Idle, Fresh, TypeOK
    <2>2. QED BY <2>1 DEF Left, Busy
<1>6. ~(Begin(c) \/ Open(c) \/ BulkRun(c) \/ BulkRunUnnamed(c) \/ Poll(c) \/ ApplyBatch(c)
        \/ Cancel(c))
    BY DEF Begin, Open, BulkRun, BulkRunUnnamed, Poll, ApplyBatch, Cancel
<1>7. QED BY <1>1, <1>2, <1>3, <1>4, <1>5, <1>6
         DEF Run, Opening, Reconciling, Closing, FeedFails, BulkRefused, BulkRunLost, ListFails,
             PollFails, ApplyLost, ApplyFails

\* The ten minutes of the worker end a sync, wherever it stands and whatever
\* Shopify answers: the safety half of WorkerRowsClose.
THEOREM DeadlineHolds == Spec => DeadlineEndsTheRun
<1>1. IInv /\ [Next]_vars =>
        [\A c \in Callers : call[c].pc # "idle" /\ ~call[c].live /\ call'[c] # call[c] =>
            /\ Left(call'[c].pc) < Left(call[c].pc)
            /\ Left(call'[c].pc) > 0 => ~call'[c].live
            /\ Busy(c) => landed'[call[c].run] = landed[call[c].run]]_vars
    <2> SUFFICES ASSUME IInv, [Next]_vars, NEW c \in Callers,
                        call[c].pc # "idle", ~call[c].live, call'[c] # call[c]
                 PROVE  /\ Left(call'[c].pc) < Left(call[c].pc)
                        /\ Left(call'[c].pc) > 0 => ~call'[c].live
                        /\ Busy(c) => landed'[call[c].run] = landed[call[c].run]
        OBVIOUS
    <2>1. TypeOK /\ Owners
        BY DEF IInv
    <2>2. ASSUME NEW d \in Callers, Run(d) PROVE d = c
        BY <2>1, <2>2, OthersStay
    <2>3. CASE Crash
        <3>1. call'[c].pc = "idle" /\ landed' = landed
            BY <2>3 DEF Crash, Idle, Fresh
        <3>2. call[c].pc \in {"open", "feed", "list", "poll", "apply", "closing", "logged"}
            BY <2>1 DEF TypeOK, Call
        <3>3. QED BY <3>1, <3>2 DEF Left
    <2>4. ~Environment /\ ~UNCHANGED vars
        BY AroundShape
    <2>5. QED BY <2>1, <2>2, <2>3, <2>4, RunMovesOn DEF Next
<1>2. QED BY Inductive, <1>1, PTL DEF Spec, DeadlineEndsTheRun

-----------------------------------------------------------------------------
(***************************************************************************)
(* The refinement.  A row is SyncLedger's entry as soon as the types, the  *)
(* owners and the ledger of the new state are known: Open begins an entry, *)
(* a batch touches the store for a run that works or was sent by one that  *)
(* stopped, every failing step stops a run, Close concludes the entry.     *)
(***************************************************************************)
Story == [r \in 1..Len(rows) |-> Recorded(r)]

LEMMA StoryIs ==
    ASSUME TypeOK
    PROVE  /\ Len(rows) \in Nat /\ DOMAIN Story = 1..Len(rows) /\ Len(Story) = Len(rows)
           /\ Story \in Seq({Recorded(r) : r \in 1..Len(rows)})
           /\ \A r \in 1..Len(rows) : Story[r] = Recorded(r)
<1>1. Len(rows) \in Nat
    BY DEF TypeOK
<1>2. Story \in [1..Len(rows) -> {Recorded(r) : r \in 1..Len(rows)}]
    BY DEF Story
<1>3. Story \in Seq({Recorded(r) : r \in 1..Len(rows)})
    BY <1>1, <1>2
<1>4. QED BY <1>1, <1>2, <1>3 DEF Story

LEMMA StorySame ==
    ASSUME rows' = rows, changes' = changes
    PROVE  Story' = Story
BY DEF Story, Recorded

\* The runs that work, before and after a step of c.
LEMMA OthersActive ==
    ASSUME TypeOK, Owners, NEW c \in Callers,
           \A d \in Callers : d # c => call'[d] = call[d],
           Busy(c)' => call'[c].failed
    PROVE  Active' = {call[d].run : d \in {e \in Callers \ {c} : Busy(e) /\ ~call[e].failed}}
<1>1. \A d \in Callers : d # c => Busy(d)' = Busy(d)
    BY DEF Busy
<1>2. {d \in Callers : Busy(d)' /\ ~call'[d].failed}
        = {e \in Callers \ {c} : Busy(e) /\ ~call[e].failed}
    BY <1>1
<1>3. \A d \in Callers \ {c} : call'[d].run = call[d].run
    OBVIOUS
<1>4. QED BY <1>2, <1>3 DEF Active

LEMMA ActiveShrinks ==
    ASSUME TypeOK, NEW c \in Callers, Working(c)
    PROVE  Active' \subseteq Active
<1>1. /\ \A d \in Callers : d # c => call'[d] = call[d]
      /\ Busy(c)' => Busy(c) /\ call'[c].run = call[c].run
                     /\ (call[c].failed => call'[c].failed)
    BY WorkingShape
<1>2. \A d \in Callers : Busy(d)' /\ ~call'[d].failed =>
         Busy(d) /\ call'[d].run = call[d].run /\ ~call[d].failed
    <2>1. call[c].failed \in BOOLEAN /\ \A d \in Callers : d # c => Busy(d)' = Busy(d)
        BY <1>1 DEF TypeOK, Call, Busy
    <2>2. QED BY <1>1, <2>1
<1>3. QED BY <1>2 DEF Active

LEMMA NewRowBegins ==
    ASSUME TypeOK, TypeOK', Owners, NEW c \in Callers, Open(c) \/ OpenLost(c)
    PROVE  Book!Begin
<1> DEFINE e == [state |-> "open", log |-> <<>>]
<1>0. PICK n \in Nat : n = Len(rows)
    BY DEF TypeOK
<1>1. NewRow(c) /\ ~Busy(c) /\ late' = late
    BY DEF Open, OpenLost, Busy, shopify
<1>2. Len(rows') = n + 1
    BY <1>0, <1>1, RowType
<1>3. ASSUME NEW r \in 1..n PROVE Recorded(r)' = Recorded(r)
    <2>1. rows'[r] = rows[r] /\ changes'[r] = changes[r]
        BY <1>0, <1>1, <1>3 DEF NewRow, TypeOK
    <2>2. QED BY <2>1 DEF Recorded
<1>4. Recorded(n + 1)' = e
    <2>1. changes'[n + 1] = <<>> /\ rows'[n + 1].state = "open"
        BY <1>0, <1>1 DEF NewRow, TypeOK
    <2>2. QED BY <2>1 DEF Recorded
<1>5. Story' = [r \in 1..(n + 1) |-> Recorded(r)']
    BY <1>2 DEF Story
<1>6. Append(Story, e) = [r \in 1..(n + 1) |-> IF r = n + 1 THEN e ELSE Story[r]]
    BY <1>0, StoryIs
<1>7. \A r \in 1..(n + 1) : Recorded(r)' = IF r = n + 1 THEN e ELSE Story[r]
    BY <1>0, <1>3, <1>4, StoryIs
<1>8. Story' = Append(Story, e)
    BY <1>5, <1>6, <1>7
<1>9. Active' \in {Active, Active \cup {Len(Story) + 1}}
    <2>1. Len(Story) = n
        BY <1>0, StoryIs
    <2>2. \A d \in Callers : d # c => call'[d] = call[d] /\ Busy(d)' = Busy(d)
        BY DEF Open, OpenLost, TypeOK, Busy
    <2>3. CASE OpenLost(c)
        <3>1. ~Busy(c)'
            BY <2>3 DEF OpenLost, Busy, Idle, Fresh, TypeOK
        <3>2. QED BY <1>1, <2>2, <3>1, OthersActive DEF Active
    <2>4. CASE Open(c)
        <3>1. Busy(c)' /\ ~call'[c].failed /\ call'[c].run = n + 1
            BY <1>0, <2>4 DEF Open, Busy, Fresh, TypeOK
        <3>2. {d \in Callers : Busy(d)' /\ ~call'[d].failed}
                = {d \in Callers : Busy(d) /\ ~call[d].failed} \cup {c}
            BY <1>1, <2>2, <3>1
        <3>3. \A d \in {k \in Callers : Busy(k) /\ ~call[k].failed} : call'[d].run = call[d].run
            BY <1>1, <2>2
        <3>4. QED BY <2>1, <3>1, <3>2, <3>3 DEF Active
    <2>5. QED BY <2>3, <2>4
<1>10. Due' = Due
    BY <1>1 DEF Due
<1>11. landed' = Append(landed, {})
    BY <1>1 DEF NewRow
<1>12. QED BY <1>8, <1>9, <1>10, <1>11 DEF Book!Begin, Story

LEMMA LandGrows ==
    ASSUME TypeOK, NEW k \in 1..Len(rows), NEW batch, Land(k, batch)
    PROVE  Book!Grows(k)
<1>1. landed' = [landed EXCEPT ![k] = @ \cup batch] /\ k \in DOMAIN landed
    BY DEF Land, TypeOK
<1>2. landed'[k] = landed[k] \cup batch
    BY <1>1
<1>3. QED BY <1>1, <1>2 DEF Book!Grows

LEMMA BatchTouches ==
    ASSUME TypeOK, Owners, Progress, NEW c \in Callers, ApplyBatch(c)
    PROVE  Book!Next
<1>1. PICK k \in 1..Len(rows) : k = call[c].run /\ Busy(c) /\ ~call[c].failed
    BY DEF Owners, Busy, ApplyBatch, Progress, Applying
<1>2. k \in Active
    BY <1>1 DEF Active
<1>3. Book!Grows(k)
    BY <1>1, LandGrows DEF ApplyBatch
<1>4. Story' = Story /\ Due' = Due
    BY StorySame DEF ApplyBatch, database, Due
<1>5. Active' = Active
    <2>1. /\ call'[c].failed = call[c].failed /\ call'[c].run = call[c].run
          /\ call'[c].pc \in {"closing", "apply"}
          /\ \A d \in Callers : d # c => call'[d] = call[d]
        BY DEF ApplyBatch, TypeOK, Call
    <2>2. \A d \in Callers : Busy(d)' = Busy(d) /\ call'[d].failed = call[d].failed
                             /\ call'[d].run = call[d].run
        BY <1>1, <2>1 DEF Busy
    <2>3. QED BY <2>2 DEF Active
<1>6. Book!Touch(k)
    BY <1>2, <1>3, <1>4, <1>5 DEF Book!Touch, Story
<1>7. k \in 1..Len(Story)
    BY StoryIs
<1>8. QED BY <1>6, <1>7 DEF Book!Next, Story

LEMMA LateArrives ==
    ASSUME TypeOK, Strays, NEW r \in 1..MaxRuns, LateBatch(r)
    PROVE  Book!Next
<1>1. r \in Due /\ r \in 1..Len(rows)
    BY DEF Due, LateBatch, Strays, Stray
<1>2. Book!Grows(r)
    BY <1>1, LandGrows DEF LateBatch
<1>3. Due' = Due \ {r}
    BY DEF LateBatch, Due, Nothing, TypeOK
<1>4. Story' = Story /\ Active' = Active
    BY StorySame DEF LateBatch, database, Active, Busy
<1>5. Book!Arrive(r)
    BY <1>1, <1>2, <1>3, <1>4 DEF Book!Arrive, Story
<1>6. r \in 1..Len(Story)
    BY <1>1, StoryIs
<1>7. QED BY <1>5, <1>6 DEF Book!Next, Story

\* The steps of a call that neither reach the store nor write a row.
LEMMA WorkingStops ==
    ASSUME TypeOK, Owners, Progress, Strays, NEW c \in Callers, Working(c), ~ApplyBatch(c)
    PROVE  Book!Stop
<1>1. Story' = Story /\ landed' = landed /\ Active' \subseteq Active
    BY WorkingShape, StorySame, KeepsLanded, ActiveShrinks
<1>2. CASE ApplyLost(c)
    <2>1. PICK k \in 1..MaxRuns : k = call[c].run
        BY <1>2, RunsBounded DEF ApplyLost, Owners, Busy
    <2>2. Busy(c) /\ ~call[c].failed
        BY <1>2 DEF ApplyLost, Busy, Progress, Applying
    <2>3. k \in Active /\ late[k].batch = {}
        BY <2>1, <2>2 DEF Active, Strays, Stray
    <2>4. k \notin Active'
        <3>1. call'[c].failed /\ \A d \in Callers : d # c => call'[d] = call[d]
            BY <1>2 DEF ApplyLost, Fail, Failed, TypeOK, Call
        <3>2. \A d \in Callers : d # c /\ Busy(d) => call[d].run # k
            BY <2>1, <2>2 DEF Owners
        <3>3. QED BY <3>1, <3>2, OthersActive
    <2>5. \A r \in 1..MaxRuns : r # k => late'[r] = late[r]
        BY <1>2, <2>1 DEF ApplyLost, TypeOK
    <2>6. Due \subseteq Due' /\ Due' \ Due \subseteq {k}
        BY <2>3, <2>5 DEF Due
    <2>7. QED BY <1>1, <2>3, <2>4, <2>6 DEF Book!Stop, Story
<1>3. CASE ~ApplyLost(c)
    <2>1. late' = late
        BY <1>3 DEF Working, Begin, OpenFails, Reconciling, ReadFeed, FeedFails,
           BulkRun, BulkRunUnnamed, BulkRefused, BulkRunLost, ListFails, Poll, PollFails,
           ApplyFails, LogChanges, CloseFails, Cancel, shopify
    <2>2. Due' = Due
        BY <2>1 DEF Due
    <2>3. QED BY <1>1, <2>2 DEF Book!Stop, Story
<1>4. QED BY <1>2, <1>3

LEMMA CrashStops ==
    ASSUME TypeOK, Owners, Progress, Strays, Crash
    PROVE  Book!Stop
<1>1. Story' = Story /\ landed' = landed
    BY StorySame DEF Crash, database
<1>2. Active' = {}
    BY DEF Crash, Active, Busy, Idle, Fresh
<1>3. ASSUME NEW r \in 1..MaxRuns, late'[r] # late[r]
      PROVE  r \in Active /\ late[r].batch = {}
    <2>1. PICK c \in Callers : call[c].pc = "apply" /\ call[c].run = r
        BY <1>3 DEF Crash
    <2>2. Busy(c) /\ ~call[c].failed
        BY <2>1 DEF Busy, Progress, Applying
    <2>3. QED BY <2>1, <2>2 DEF Active, Strays, Stray
<1>4. Due \subseteq Due' /\ Due' \ Due \subseteq Active
    BY <1>3 DEF Due
<1>5. QED BY <1>1, <1>2, <1>4 DEF Book!Stop, Story

LEMMA CloseConcludes ==
    ASSUME TypeOK, Owners, Progress, TypeOK', Ledger', NEW c \in Callers, Close(c)
    PROVE  Book!Next
<1>0. PICK k : k = call[c].run
    OBVIOUS
<1>1. k \in 1..Len(rows) /\ rows[k].state = "open" /\ rows[k] \in Row /\ Busy(c)
    <2>1. Busy(c)
        BY DEF Busy, Close
    <2>2. k \in 1..Len(rows) /\ rows[k].state = "open"
        BY <1>0, <2>1 DEF Owners
    <2>3. QED BY <2>1, <2>2 DEF TypeOK
<1>2. rows' = [rows EXCEPT ![k] = ClosedRow(c)] /\ landed' = landed
      /\ changes' = [changes EXCEPT ![k] = LogOf(call[c].updates)]
      /\ Len(rows') = Len(rows) /\ Len(rows) \in Nat
    BY <1>0 DEF Close, TypeOK
<1>3. Story[k].state = "open" /\ k \in 1..Len(Story)
    BY <1>1, StoryIs DEF Recorded
<1>4. /\ rows'[k].state = "closed" /\ rows'[k].failed = call[c].failed
      /\ call[c].failed \in BOOLEAN
    <2>1. rows'[k] = ClosedRow(c)
        BY <1>1, <1>2 DEF TypeOK
    <2>2. ClosedRow(c).state = "closed" /\ ClosedRow(c).failed = call[c].failed
        BY <1>0, <1>1 DEF ClosedRow, Row
    <2>3. QED BY <2>1, <2>2 DEF TypeOK, Call
<1>5. Booked(k)'
    BY <1>1, <1>2 DEF Ledger
<1>6. Story'[k] = Recorded(k)'
    BY <1>1, <1>2 DEF Story
<1>7. Story' = [Story EXCEPT ![k] = Story'[k]]
    <2>1. ASSUME NEW r \in 1..Len(rows), r # k PROVE Recorded(r)' = Recorded(r)
        <3>1. rows'[r] = rows[r] /\ changes'[r] = changes[r]
            BY <1>2, <2>1 DEF TypeOK
        <3>2. QED BY <3>1 DEF Recorded
    <2>2. QED BY <1>2, <2>1 DEF Story
<1>8. Due' = Due
    BY DEF Close, shopify, Due
<1>9. /\ Active' = {call[d].run : d \in {e \in Callers \ {c} : Busy(e) /\ ~call[e].failed}}
      /\ k \notin Active'
    <2>1. ~Busy(c)' /\ \A d \in Callers : d # c => call'[d] = call[d]
        BY DEF Close, Busy, Idle, Fresh, TypeOK
    <2>2. \A d \in Callers : d # c /\ Busy(d) => call[d].run # k
        BY <1>0, <1>1 DEF Owners
    <2>3. QED BY <2>1, <2>2, OthersActive
<1>10. CASE call[c].failed
    <2>1. Story'[k].state = "failed" /\ Story'[k].log = <<>>
        BY <1>4, <1>5, <1>6, <1>10 DEF Recorded, Booked, Succeeded
    <2>2. Active' = Active
        BY <1>9, <1>10 DEF Active
    <2>3. Book!Fail(k)
        BY <1>2, <1>3, <1>7, <1>8, <1>9, <2>1, <2>2 DEF Book!Fail, Story
    <2>4. QED BY <1>3, <2>3 DEF Book!Next, Story
<1>11. CASE ~call[c].failed
    <2>1. Story'[k].state = "succeeded" /\ Story'[k].log = changes'[k]
        BY <1>4, <1>6, <1>11 DEF Recorded
    <2>2. Entries(changes'[k]) = Logged(landed[k])
        BY <1>2, <1>4, <1>5, <1>11 DEF Booked, Succeeded, Entries, Logged
    <2>3. Book!Lists(Story'[k].log, landed[k])
        BY <2>1, <2>2 DEF Entries, Logged, Book!Lists, Book!Line
    <2>4. k \in Active /\ Active' = Active \ {k}
        <3>1. {d \in Callers : Busy(d) /\ ~call[d].failed}
                = {d \in Callers \ {c} : Busy(d) /\ ~call[d].failed} \cup {c}
            BY <1>1, <1>11
        <3>2. Active = Active' \cup {k}
            BY <1>0, <1>9, <3>1 DEF Active
        <3>3. QED BY <1>9, <3>2
    <2>5. Book!Succeed(k)
        BY <1>2, <1>3, <1>7, <1>8, <2>1, <2>3, <2>4 DEF Book!Succeed, Story
    <2>6. QED BY <1>3, <2>5 DEF Book!Next, Story
<1>12. QED BY <1>4, <1>10, <1>11

LEMMA BookStep ==
    ASSUME IInv, IInv', [Next]_vars
    PROVE  Book!Next \/ UNCHANGED <<Story, landed, Active, Due>>
<1>1. ASSUME NEW c \in Callers, Run(c) PROVE Book!Next
    <2>1. CASE Open(c) \/ OpenLost(c)
        BY <2>1, NewRowBegins DEF Book!Next, IInv
    <2>2. CASE ApplyBatch(c)
        BY <2>2, BatchTouches DEF IInv
    <2>3. CASE Close(c)
        <3>1. Ledger'
            BY DEF IInv, Ledger, Booked, ClaimMatchesLog, LogMatchesStore
        <3>2. QED BY <2>3, <3>1, CloseConcludes DEF IInv
    <2>4. CASE Working(c) /\ ~ApplyBatch(c)
        BY <2>4, WorkingStops DEF Book!Next, IInv
    <2>5. QED BY <1>1, <2>1, <2>2, <2>3, <2>4, RunIs
<1>2. CASE Crash
    BY <1>2, CrashStops DEF Book!Next, IInv
<1>3. ASSUME NEW r \in 1..MaxRuns, LateBatch(r) PROVE Book!Next
    BY <1>3, LateArrives DEF IInv
<1>4. CASE Environment \/ UNCHANGED vars
    <2>1. call' = call /\ Story' = Story
        BY <1>4, AroundShape, StorySame
    <2>2. Active' = Active
        BY <2>1 DEF Active, Busy
    <2>3. CASE late' = late /\ landed' = landed
        BY <2>1, <2>2, <2>3 DEF Due
    <2>4. QED BY <1>3, <1>4, <2>3 DEF Environment, BulkEnds, CatchUp, LateQuery, Merchant,
              Warehouse, vars, shopify
<1>5. QED BY <1>1, <1>2, <1>4 DEF Next

\* The history is SyncLedger's: for every number of callers, every batch size
\* and all faults, a run concludes once; it succeeds after all it did to the
\* store and says what that was; of a run that stopped, whether its row is
\* closed or not, at most the one batch it had sent still reaches the store.
THEOREM Refinement == Spec => ImplementsLedger
<1>1. Init => Book!Init
    <2> SUFFICES ASSUME Init PROVE Book!Init
        OBVIOUS
    <2>1. rows = <<>> /\ landed = <<>> /\ Len(rows) = 0
        BY DEF Init
    <2>2. Story = <<>>
        BY <2>1 DEF Story
    <2>3. Active = {} /\ Due = {}
        BY DEF Init, Active, Due, Busy, Idle, Fresh, Nothing
    <2>4. QED BY <2>1, <2>2, <2>3 DEF Book!Init, Story
<1>2. IInv /\ IInv' /\ [Next]_vars => [Book!Next]_(Book!vars)
    BY BookStep DEF Book!vars, Story
<1>3. QED BY <1>1, <1>2, Inductive, PTL DEF Spec, ImplementsLedger, Book!Spec
=============================================================================
