-------------------------- MODULE Reconcile_proofs --------------------------
(***************************************************************************)
(* Diff for every finite store and every feed: what its lists contain.     *)
(***************************************************************************)
EXTENDS Reconcile, FiniteSetTheorems, FunctionTheorems, TLAPS

\* A listing of a store: finitely many items, inventory item ids used once.
IsStore(store) ==
    /\ IsFiniteSet(store)
    /\ \A i \in store : i.quantity \in Int /\
          i = [sku |-> i.sku, id |-> i.id, location |-> i.location, quantity |-> i.quantity]
    /\ \A i, j \in store : i.id = j.id /\ i.id # Blank => i = j

\* A feed line, read: its quantity, and zero where the feed is negative.
LEMMA WantedType ==
    ASSUME NEW feed, feed \in [DOMAIN feed -> Int], NEW sku \in DOMAIN feed
    PROVE  /\ Wanted(feed, sku) \in Nat
           /\ Wanted(feed, sku) >= feed[sku]
           /\ Wanted(feed, sku) \in {0, feed[sku]}
<1>1. feed[sku] \in Int
    OBVIOUS
<1>2. QED BY <1>1 DEF Wanted

\* Only what the warehouse names is written, and only to what it says.
LEMMA UpdatesFollowFeed ==
    ASSUME NEW store, NEW feed, NEW u \in Updates(store, feed)
    PROVE  /\ u.item \in store /\ Writable(u.item)
           /\ u.item.sku \in DOMAIN feed
           /\ u.new = Wanted(feed, u.item.sku)
           /\ u.new # u.item.quantity
           /\ u = [item |-> u.item, new |-> Wanted(feed, u.item.sku)]
BY DEF Updates

\* The updates are the image of the items they change.
LEMMA UpdatesFinite ==
    ASSUME NEW store, IsFiniteSet(store), NEW feed
    PROVE  IsFiniteSet(Updates(store, feed)) /\ Cardinality(Updates(store, feed)) \in Nat
<1> DEFINE changed == {i \in store : Writable(i) /\ i.sku \in DOMAIN feed
                                     /\ Wanted(feed, i.sku) # i.quantity}
           f == [i \in changed |-> [item |-> i, new |-> Wanted(feed, i.sku)]]
<1>1. IsFiniteSet(changed)
    BY FS_Subset
<1>2. f \in Surjection(changed, Updates(store, feed))
    BY DEF Surjection, Updates
<1>3. IsFiniteSet(Updates(store, feed))
    BY <1>1, <1>2, FS_Surjection
<1>4. QED BY <1>3, FS_CardinalityType

\* A list that Diff returns holds every update once, and nothing else.
THEOREM DiffListsUpdates ==
    ASSUME NEW store, IsFiniteSet(store), NEW feed, NEW s \in Diff(store, feed)
    PROVE  /\ s \in Seq(Updates(store, feed))
           /\ {s[n] : n \in 1..Len(s)} = Updates(store, feed)
           /\ \A m, n \in 1..Len(s) : s[m] = s[n] => m = n
<1> DEFINE U == Updates(store, feed)
           D == 1..Cardinality(U)
<1>1. IsFiniteSet(U) /\ Cardinality(U) \in Nat
    BY UpdatesFinite
<1>2. s \in [D -> U] /\ \A i, j \in D : i # j => s[i] # s[j]
    BY DEF Diff, SetToSeqs
<1>3. s \in Seq(U) /\ Len(s) = Cardinality(U)
    BY <1>1, <1>2
<1>4. s \in Injection(D, U)
    BY <1>2 DEF Injection, IsInjective
<1>5. Cardinality(D) = Cardinality(U)
    BY <1>1, FS_Interval
<1>6. s \in Surjection(D, U)
    BY <1>1, <1>4, <1>5, FS_Injection
<1>7. {s[n] : n \in D} = U
    BY <1>2, <1>6 DEF Surjection
<1>8. QED BY <1>2, <1>3, <1>7

\* A sync leaves the store as the warehouse describes it, for every store whose
\* inventory item ids are unique and every feed: Diff misses no item it could
\* set, sets each to the warehouse's quantity, and touches no other.
THEOREM DiffReconciles ==
    ASSUME NEW store, IsStore(store), NEW feed, feed \in [DOMAIN feed -> Int],
           NEW s \in Diff(store, feed)
    PROVE  Written(store, s) = Described(store, feed)
<1> DEFINE U == Updates(store, feed)
           Names(u, i) == u.item.id = i.id /\ u.item.location = i.location
           Known(i) == Writable(i) /\ i.sku \in DOMAIN feed
           W(i) == IF \E n \in 1..Len(s) : Names(s[n], i)
                   THEN [i EXCEPT !.quantity =
                           (CHOOSE u \in {s[n] : n \in 1..Len(s)} : Names(u, i)).new]
                   ELSE i
           D(i) == IF Writable(i) /\ \E k \in DOMAIN feed : k = i.sku
                   THEN [i EXCEPT !.quantity = CHOOSE q \in {0, feed[i.sku]} :
                                                 q >= 0 /\ q >= feed[i.sku]]
                   ELSE i
<1>1. {s[n] : n \in 1..Len(s)} = U
    BY DiffListsUpdates DEF IsStore
<1>2. ASSUME NEW i \in store, NEW u \in U, Names(u, i)
      PROVE  u.item = i /\ Known(i) /\ u.new = Wanted(feed, i.sku) /\ Wanted(feed, i.sku) # i.quantity
    <2>1. u.item \in store /\ Writable(u.item) /\ u.item.sku \in DOMAIN feed
          /\ u.new = Wanted(feed, u.item.sku) /\ u.new # u.item.quantity
        BY UpdatesFollowFeed
    <2>2. u.item.id # Blank
        BY <2>1 DEF Writable
    <2>3. u.item = i
        BY <1>2, <2>1, <2>2 DEF IsStore
    <2>4. QED BY <2>1, <2>3
<1>3. ASSUME NEW i \in store PROVE W(i) = D(i)
    <2>1. CASE Known(i) /\ Wanted(feed, i.sku) # i.quantity
        <3> DEFINE v == [item |-> i, new |-> Wanted(feed, i.sku)]
        <3>1. v \in U /\ Names(v, i)
            BY <2>1 DEF Updates
        <3>2. \E n \in 1..Len(s) : Names(s[n], i)
            BY <1>1, <3>1
        <3>3. (CHOOSE u \in {s[n] : n \in 1..Len(s)} : Names(u, i)) \in U
              /\ Names(CHOOSE u \in {s[n] : n \in 1..Len(s)} : Names(u, i), i)
            BY <1>1, <3>1
        <3>4. W(i) = [i EXCEPT !.quantity = Wanted(feed, i.sku)]
            BY <1>2, <3>2, <3>3 DEF IsStore
        <3>5. D(i) = [i EXCEPT !.quantity = Wanted(feed, i.sku)]
            <4>1. (CHOOSE q \in {0, feed[i.sku]} : q >= 0 /\ q >= feed[i.sku]) = Wanted(feed, i.sku)
                BY <2>1 DEF Wanted
            <4>2. QED BY <2>1, <4>1
        <3>6. QED BY <3>4, <3>5
    <2>2. CASE Known(i) /\ Wanted(feed, i.sku) = i.quantity
        <3>1. ~ \E n \in 1..Len(s) : Names(s[n], i)
            BY <1>1, <1>2, <2>2
        <3>2. (CHOOSE q \in {0, feed[i.sku]} : q >= 0 /\ q >= feed[i.sku]) = i.quantity
            BY <2>2 DEF Wanted
        <3>3. D(i) = [i EXCEPT !.quantity = i.quantity]
            BY <2>2, <3>2
        <3>4. [i EXCEPT !.quantity = i.quantity] = i
            BY DEF IsStore
        <3>5. QED BY <3>1, <3>3, <3>4
    <2>3. CASE ~Known(i)
        <3>1. ~ \E n \in 1..Len(s) : Names(s[n], i)
            BY <1>1, <1>2, <2>3
        <3>2. QED BY <2>3, <3>1
    <2>4. QED BY <2>1, <2>2, <2>3
<1>4. Written(store, s) = {W(i) : i \in store}
    BY DEF Written
<1>5. Described(store, feed) = {D(i) : i \in store}
    BY DEF Described
<1> HIDE DEF W, D
<1>6. {W(i) : i \in store} = {D(i) : i \in store}
    BY <1>3
<1>7. QED BY <1>4, <1>5, <1>6

\* Nothing to update: Diff returns the empty list, and only that.
LEMMA NothingToUpdate ==
    ASSUME NEW store, NEW feed, Updates(store, feed) = {}
    PROVE  Diff(store, feed) = {<<>>}
<1>1. Cardinality(Updates(store, feed)) = 0
    BY FS_EmptySet
<1>2. SetToSeqs(Updates(store, feed)) = {f \in [1..0 -> {}] : TRUE}
    BY <1>1 DEF SetToSeqs
<1>3. SetToSeqs(Updates(store, feed)) = {<<>>}
    <2>1. \A f \in [1..0 -> {}] : f = <<>>
        OBVIOUS
    <2>2. <<>> \in [1..0 -> {}]
        OBVIOUS
    <2>3. QED BY <1>2, <2>1, <2>2
<1>4. SortedBySku(<<>>)
    BY DEF SortedBySku
<1>5. QED BY <1>3, <1>4 DEF Diff

\* Once a sync has written, a second one against the same feed has nothing left
\* to do: the webhooks its own writes cause do not feed on themselves.
THEOREM SecondDiffIsEmpty ==
    ASSUME NEW store, IsStore(store), NEW feed, feed \in [DOMAIN feed -> Int],
           NEW s \in Diff(store, feed)
    PROVE  Diff(Written(store, s), feed) = {<<>>}
<1>1. Written(store, s) = Described(store, feed)
    BY DiffReconciles
<1>2. ASSUME NEW j \in Described(store, feed), Writable(j), j.sku \in DOMAIN feed
      PROVE  Wanted(feed, j.sku) = j.quantity
    <2>1. PICK i \in store :
            j = IF Writable(i) /\ \E k \in DOMAIN feed : k = i.sku
                THEN [i EXCEPT !.quantity = CHOOSE q \in {0, feed[i.sku]} :
                                              q >= 0 /\ q >= feed[i.sku]]
                ELSE i
        BY DEF Described
    <2>2. j.sku = i.sku /\ j.id = i.id /\ j.location = i.location
        BY <2>1
    <2>3. Writable(i) /\ i.sku \in DOMAIN feed
        BY <1>2, <2>2 DEF Writable
    <2>4. j.quantity = CHOOSE q \in {0, feed[i.sku]} : q >= 0 /\ q >= feed[i.sku]
        BY <2>1, <2>3
    <2>5. (CHOOSE q \in {0, feed[i.sku]} : q >= 0 /\ q >= feed[i.sku]) = Wanted(feed, i.sku)
        BY <2>3 DEF Wanted
    <2>6. QED BY <2>2, <2>4, <2>5
<1>3. Updates(Described(store, feed), feed) = {}
    BY <1>2 DEF Updates
<1>4. QED BY <1>1, <1>3, NothingToUpdate

-----------------------------------------------------------------------------
(***************************************************************************)
(* Change logs can be compared: there is one sorted list of updates where  *)
(* no two of them share a SKU.  An update stands at its rank, the number   *)
(* of updates whose SKU is not greater; no induction is needed.            *)
(***************************************************************************)

\* Updates that a SKU names one by one.
Keyed(U) == /\ IsFiniteSet(U)
            /\ \A u \in U : u.item.sku \in Int
            /\ \A u, v \in U : u.item.sku = v.item.sku => u = v

UpTo(U, u) == {v \in U : v.item.sku <= u.item.sku}

Rank(U, u) == Cardinality(UpTo(U, u))

LEMMA RankType ==
    ASSUME NEW U, Keyed(U), NEW u \in U
    PROVE  IsFiniteSet(UpTo(U, u)) /\ Rank(U, u) \in 1..Cardinality(U)
<1>1. UpTo(U, u) \in SUBSET U /\ u \in UpTo(U, u)
    BY DEF UpTo, Keyed
<1>2. IsFiniteSet(UpTo(U, u)) /\ Rank(U, u) <= Cardinality(U)
    BY <1>1, FS_Subset DEF Keyed, Rank
<1>3. Cardinality(U) \in Nat /\ Rank(U, u) \in Nat
    BY <1>2, FS_CardinalityType DEF Keyed, Rank
<1>4. Rank(U, u) # 0
    BY <1>1, <1>2, FS_EmptySet DEF Rank
<1>5. QED BY <1>2, <1>3, <1>4

LEMMA RankFollowsSku ==
    ASSUME NEW U, Keyed(U), NEW u \in U, NEW v \in U, u.item.sku < v.item.sku
    PROVE  Rank(U, u) < Rank(U, v)
<1>1. u.item.sku \in Int /\ v.item.sku \in Int
    BY DEF Keyed
<1>2. UpTo(U, u) \in SUBSET UpTo(U, v)
    BY <1>1 DEF UpTo, Keyed
<1>3. v \in UpTo(U, v) /\ v \notin UpTo(U, u)
    BY <1>1 DEF UpTo
<1>4. IsFiniteSet(UpTo(U, v)) /\ Rank(U, v) \in Nat /\ Rank(U, u) \in Nat
    BY RankType, FS_CardinalityType DEF Keyed
<1>5. Rank(U, u) <= Rank(U, v) /\ Rank(U, u) # Rank(U, v)
    BY <1>2, <1>3, <1>4, FS_Subset DEF Rank
<1>6. QED BY <1>4, <1>5

\* The ranks are 1..Cardinality(U), each taken once.
LEMMA RanksAreTakenOnce ==
    ASSUME NEW U, Keyed(U)
    PROVE  /\ \A u, v \in U : Rank(U, u) = Rank(U, v) => u = v
           /\ \A i \in 1..Cardinality(U) : \E u \in U : Rank(U, u) = i
<1> DEFINE r == [u \in U |-> Rank(U, u)]
           D == 1..Cardinality(U)
<1>1. Cardinality(U) \in Nat
    BY FS_CardinalityType DEF Keyed
<1>2. r \in [U -> D]
    BY RankType
<1>3. \A u, v \in U : Rank(U, u) = Rank(U, v) => u = v
    <2> SUFFICES ASSUME NEW u \in U, NEW v \in U, Rank(U, u) = Rank(U, v) PROVE u = v
        OBVIOUS
    <2>1. Rank(U, u) = Rank(U, v) /\ Rank(U, u) \in Int
        BY RankType
    <2>2. u.item.sku \in Int /\ v.item.sku \in Int
        BY DEF Keyed
    <2>3. ~(u.item.sku < v.item.sku) /\ ~(v.item.sku < u.item.sku)
        BY <2>1, RankFollowsSku
    <2>4. QED BY <2>2, <2>3 DEF Keyed
<1>4. r \in Injection(U, D)
    BY <1>2, <1>3, Fun_IsInj
<1>5. IsFiniteSet(D) /\ Cardinality(D) = Cardinality(U)
    BY <1>1, FS_Interval
<1>6. r \in Surjection(U, D)
    BY <1>4, <1>5, FS_Injection DEF Keyed
<1>7. \A i \in D : \E u \in U : r[u] = i
    BY <1>6 DEF Surjection
<1>8. QED BY <1>3, <1>7

\* In a sorted list an update stands at its rank.
LEMMA SortedAtRank ==
    ASSUME NEW U, Keyed(U), NEW s \in SetToSeqs(U), SortedBySku(s),
           NEW i \in 1..Cardinality(U)
    PROVE  Rank(U, s[i]) = i
<1> DEFINE n == Cardinality(U)
<1>1. n \in Nat
    BY FS_CardinalityType DEF Keyed
<1>2. s \in [1..n -> U] /\ \A j, k \in 1..n : j # k => s[j] # s[k]
    BY DEF SetToSeqs
<1>3. Len(s) = n
    BY <1>1, <1>2
<1>4. \A j, k \in 1..n : j < k => s[j].item.sku < s[k].item.sku
    <2> SUFFICES ASSUME NEW j \in 1..n, NEW k \in 1..n, j < k
                 PROVE  s[j].item.sku < s[k].item.sku
        OBVIOUS
    <2>1. s[j] \in U /\ s[k] \in U /\ s[j] # s[k]
        BY <1>2
    <2>2. s[j].item.sku \in Int /\ s[k].item.sku \in Int /\ s[j].item.sku # s[k].item.sku
        BY <2>1 DEF Keyed
    <2>3. s[j].item.sku <= s[k].item.sku
        BY <1>3 DEF SortedBySku
    <2>4. QED BY <2>2, <2>3
<1>5. \A j \in 1..n : s[j].item.sku \in Int
    BY <1>2 DEF Keyed
<1>6. s \in Surjection(1..n, U)
    <2>1. s \in Injection(1..n, U)
        BY <1>2, Fun_IsInj
    <2>2. IsFiniteSet(1..n) /\ Cardinality(1..n) = n
        BY <1>1, FS_Interval
    <2>3. QED BY <2>1, <2>2, FS_Injection DEF Keyed
<1> DEFINE f == [j \in 1..i |-> s[j]]
<1>7. f \in Bijection(1..i, UpTo(U, s[i]))
    <2>1. \A j \in 1..i : j \in 1..n /\ (j = i \/ j < i)
        BY <1>1
    <2>2. \A j \in 1..i : s[j] \in UpTo(U, s[i])
        BY <1>2, <1>4, <1>5, <2>1 DEF UpTo
    <2>3. \A v \in UpTo(U, s[i]) : \E j \in 1..i : f[j] = v
        <3> SUFFICES ASSUME NEW v \in UpTo(U, s[i]) PROVE \E j \in 1..i : f[j] = v
            OBVIOUS
        <3>1. v \in U /\ v.item.sku <= s[i].item.sku
            BY DEF UpTo
        <3>2. PICK j \in 1..n : s[j] = v
            BY <1>6, <3>1 DEF Surjection
        <3>3. ~(i < j)
            BY <1>4, <1>5, <3>1, <3>2
        <3>4. j \in 1..i
            BY <1>1, <3>3
        <3>5. QED BY <3>2, <3>4
    <2>4. f \in [1..i -> UpTo(U, s[i])]
        BY <2>2
    <2>5. \A j, k \in 1..i : f[j] = f[k] => j = k
        BY <1>2, <2>1
    <2> HIDE DEF f
    <2>6. QED BY <2>3, <2>4, <2>5, Fun_IsBij
<1>8. IsFiniteSet(1..i) /\ Cardinality(1..i) = i
    BY FS_Interval
<1>9. Cardinality(UpTo(U, s[i])) = i
    BY <1>7, <1>8, FS_Bijection DEF ExistsBijection
<1>10. QED BY <1>9 DEF Rank

\* The list that puts every update at its rank is sorted.
LEMMA RankedIsSorted ==
    ASSUME NEW U, Keyed(U)
    PROVE  \E s \in SetToSeqs(U) : SortedBySku(s)
<1> DEFINE n == Cardinality(U)
           s == [i \in 1..n |-> CHOOSE u \in U : Rank(U, u) = i]
<1>1. n \in Nat
    BY FS_CardinalityType DEF Keyed
<1>2. \A i \in 1..n : s[i] \in U /\ Rank(U, s[i]) = i
    <2>1. \A i \in 1..n : \E u \in U : Rank(U, u) = i
        BY RanksAreTakenOnce
    <2>2. QED BY <2>1
<1>3. s \in [1..n -> U]
    BY <1>2
<1> HIDE DEF s
<1>4. s \in SetToSeqs(U)
    BY <1>2, <1>3 DEF SetToSeqs
<1>5. Len(s) = n
    BY <1>1, <1>3
<1>6. ASSUME NEW i \in 1..n, NEW j \in 1..n, i < j
      PROVE  s[i].item.sku <= s[j].item.sku
    <2>1. s[i] \in U /\ s[j] \in U /\ Rank(U, s[i]) = i /\ Rank(U, s[j]) = j
        BY <1>2
    <2>2. ~(s[j].item.sku < s[i].item.sku)
        BY <1>6, <2>1, RankFollowsSku
    <2>3. QED BY <2>1, <2>2 DEF Keyed
<1>7. SortedBySku(s)
    BY <1>5, <1>6 DEF SortedBySku
<1>8. QED BY <1>4, <1>7

\* Where no two items share a SKU, Diff returns one list, whatever the order
\* Shopify lists the items in and whatever sort.Slice does with it.
THEOREM DiffIsOneList ==
    ASSUME NEW store, IsFiniteSet(store), NEW feed,
           \A i \in store : i.sku \in Int \cup {Blank},
           \A i, j \in store : i.sku = j.sku => i = j
    PROVE  Cardinality(Diff(store, feed)) = 1
<1> DEFINE U == Updates(store, feed)
<1>1. Keyed(U)
    <2>1. \A u \in U : u.item \in store /\ Writable(u.item)
                       /\ u = [item |-> u.item, new |-> Wanted(feed, u.item.sku)]
        BY UpdatesFollowFeed
    <2>2. \A u \in U : u.item.sku \in Int
        BY <2>1 DEF Writable
    <2>3. \A u, v \in U : u.item.sku = v.item.sku => u = v
        <3> SUFFICES ASSUME NEW u \in U, NEW v \in U, u.item.sku = v.item.sku PROVE u = v
            OBVIOUS
        <3>1. u.item = v.item
            BY <2>1
        <3>2. QED BY <2>1, <3>1
    <2>4. QED BY <2>2, <2>3, UpdatesFinite DEF Keyed
<1> HIDE DEF U
<1>2. Diff(store, feed) = {s \in SetToSeqs(U) : SortedBySku(s)}
    BY DEF Diff, U
<1>3. PICK s \in Diff(store, feed) : TRUE
    BY <1>1, <1>2, RankedIsSorted
<1>4. ASSUME NEW t \in Diff(store, feed) PROVE t = s
    <2> DEFINE D == 1..Cardinality(U)
    <2>1. s \in [D -> U] /\ t \in [D -> U]
        BY <1>2 DEF SetToSeqs
    <2>2. \A u, v \in U : Rank(U, u) = Rank(U, v) => u = v
        BY <1>1, RanksAreTakenOnce
    <2>3. \A i \in D : Rank(U, s[i]) = i /\ Rank(U, t[i]) = i
        BY <1>1, <1>2, SortedAtRank
    <2>4. \A i \in D : s[i] = t[i]
        BY <2>1, <2>2, <2>3
    <2> HIDE DEF D
    <2>5. QED BY <2>1, <2>4
<1>5. Diff(store, feed) = {s}
    BY <1>3, <1>4
<1>6. QED BY <1>5, FS_Singleton
=============================================================================
