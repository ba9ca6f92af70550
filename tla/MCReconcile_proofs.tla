------------------------- MODULE MCReconcile_proofs -------------------------
(***************************************************************************)
(* What the diff run checks of Diff on small stores holds on every store   *)
(* that Shopify can list and for every feed.                               *)
(***************************************************************************)
EXTENDS MCReconcile, Reconcile_proofs

\* Items that Shopify can list, SKUs that can be compared, and a feed.
IInv == /\ IsStore(store)
        /\ \A i \in store : i.sku \in Int \cup {Blank}
        /\ feed \in [DOMAIN feed -> Int]

LEMMA ListKeepsStore ==
    ASSUME IInv, NEW i \in Items, List(i)
    PROVE  IInv'
<1>1. store' = store \cup {i} /\ feed' = feed /\ \A j \in store : i.id = j.id => i.id = Blank
    BY DEF List
<1>2. IsFiniteSet(store')
    BY <1>1, FS_AddElement DEF IInv, IsStore
<1>3. i.quantity \in Int /\
      i = [sku |-> i.sku, id |-> i.id, location |-> i.location, quantity |-> i.quantity]
    BY QuantityAssumption DEF Items
<1>4. \A j \in store' : j.quantity \in Int /\
        j = [sku |-> j.sku, id |-> j.id, location |-> j.location, quantity |-> j.quantity]
    BY <1>1, <1>3 DEF IInv, IsStore
<1>5. \A j, k \in store' : j.id = k.id /\ j.id # Blank => j = k
    BY <1>1 DEF IInv, IsStore
<1>6. \A j \in store' : j.sku \in Int \cup {Blank}
    <2>1. i.sku \in Skus \cup {Blank}
        BY DEF Items
    <2>2. QED BY <1>1, <2>1, SkusAssumption DEF IInv
<1>7. QED BY <1>1, <1>2, <1>4, <1>5, <1>6 DEF IInv, IsStore

LEMMA Inductive == Spec => []IInv
<1>1. Init => IInv
    BY FS_EmptySet DEF Init, IInv, IsStore
<1>2. IInv /\ [Next]_vars => IInv'
    <2> SUFFICES ASSUME IInv, [Next]_vars PROVE IInv'
        OBVIOUS
    <2>1. ASSUME NEW i \in Items, List(i) PROVE IInv'
        BY <2>1, ListKeepsStore
    <2>2. ASSUME NEW k \in Skus \cup {Blank}, NEW q \in -1..MaxQuantity, Stock(k, q) PROVE IInv'
        <3>1. feed' = [x \in DOMAIN feed \cup {k} |-> IF x = k THEN q ELSE feed[x]]
              /\ store' = store
            BY <2>2 DEF Stock
        <3>2. q \in Int
            BY QuantityAssumption
        <3>3. feed' \in [DOMAIN feed' -> Int]
            BY <3>1, <3>2 DEF IInv
        <3>4. QED BY <3>1, <3>3 DEF IInv, IsStore
    <2>3. CASE UNCHANGED vars
        BY <2>3 DEF vars, IInv, IsStore
    <2>4. QED BY <2>1, <2>2, <2>3 DEF Next
<1>3. QED BY <1>1, <1>2, PTL DEF Spec

\* Diff leaves a store as the warehouse describes it.
THEOREM AlwaysReconciled == Spec => []ReconciledExactly
<1>1. IInv => ReconciledExactly
    BY DiffReconciles DEF IInv, ReconciledExactly
<1>2. QED BY <1>1, Inductive, PTL

\* A second sync against the same feed changes nothing.
THEOREM AlwaysSilent == Spec => []SecondSyncIsSilent
<1>1. IInv => SecondSyncIsSilent
    BY SecondDiffIsEmpty DEF IInv, SecondSyncIsSilent
<1>2. QED BY <1>1, Inductive, PTL

\* Where no two items share a SKU the change log has one order.
THEOREM AlwaysComparable == Spec => []LogsComparable
<1>1. IInv => LogsComparable
    BY DiffIsOneList DEF IInv, IsStore, LogsComparable
<1>2. QED BY <1>1, Inductive, PTL
=============================================================================
