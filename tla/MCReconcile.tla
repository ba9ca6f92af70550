----------------------------- MODULE MCReconcile -----------------------------
(***************************************************************************)
(* Diff over every store of at most MaxItems items and every feed, grown   *)
(* one item and one feed line at a time.                                   *)
(***************************************************************************)
EXTENDS Reconcile

CONSTANTS Skus, Ids, Location, MaxQuantity, MaxItems

ASSUME SkusAssumption     == Skus \subseteq Int
ASSUME QuantityAssumption == MaxQuantity \in Nat

VARIABLES store, feed

vars == <<store, feed>>

Items == [sku : Skus \cup {Blank}, id : Ids \cup {Blank},
          location : {Location, Blank}, quantity : 0..MaxQuantity]

Init == store = {} /\ feed = <<>>

\* Inventory item ids are Shopify's, and unique; SKUs are the merchant's.
List(i) == /\ Cardinality(store) < MaxItems
           /\ \A j \in store : i.id = j.id => i.id = Blank
           /\ store' = store \cup {i}
           /\ UNCHANGED feed

Stock(k, q) == /\ k \notin DOMAIN feed
               /\ feed' = [x \in DOMAIN feed \cup {k} |-> IF x = k THEN q ELSE feed[x]]
               /\ UNCHANGED store

Next == \/ \E i \in Items : List(i)
        \/ \E k \in Skus \cup {Blank}, q \in -1..MaxQuantity : Stock(k, q)

Spec == Init /\ [][Next]_vars

\* A sync leaves the store as the warehouse describes it: every item it knows
\* at its quantity, also where two variants share a SKU, and every item it does
\* not know, or that has no SKU, id or location, untouched.
ReconciledExactly == \A s \in Diff(store, feed) :
    Written(store, s) = Described(store, feed)

\* A second sync against the same feed changes nothing: the webhooks that
\* Apply's own writes cause die out.
SecondSyncIsSilent == \A s \in Diff(store, feed) :
    Diff(Written(store, s), feed) = {<<>>}

\* "Sorted so change logs can be compared between syncs": where no two items
\* share a SKU there is one list of updates, whatever order Shopify lists in.
LogsComparable ==
    (\A i, j \in store : i.sku = j.sku => i = j) => Cardinality(Diff(store, feed)) = 1
=============================================================================
