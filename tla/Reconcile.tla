------------------------------ MODULE Reconcile ------------------------------
(***************************************************************************)
(* Diff of internal/services/sync.go: which quantities a sync changes.     *)
(*                                                                         *)
(* The store is the set of items the bulk operation listed, the feed maps  *)
(* the SKUs the warehouse names to quantities.  SKUs are numbers here,     *)
(* ordered as the code orders its strings; Blank stands for "".            *)
(*                                                                         *)
(* The order in which Shopify lists items is arbitrary and sort.Slice is   *)
(* not stable, so items that share a SKU come out in any order: Diff is    *)
(* the set of the lists the code can return.                               *)
(***************************************************************************)
EXTENDS Integers, SequencesExt

CONSTANT Blank

ASSUME BlankAssumption == Blank \notin Int

\* A negative quantity means the item is out.
Wanted(feed, sku) == IF feed[sku] < 0 THEN 0 ELSE feed[sku]

\* Slip: a SKU the feed does not name counts as zero.
WantedOrZero(feed, sku) == IF sku \notin DOMAIN feed \/ feed[sku] < 0 THEN 0 ELSE feed[sku]

\* An item without a SKU cannot be matched, one without id or location cannot
\* be written back.
Writable(item) == Blank \notin {item.sku, item.id, item.location}

\* Slip: an unknown SKU is zeroed instead of skipped.
ZeroUnknown(store, feed) ==
    {[item |-> i, new |-> WantedOrZero(feed, i.sku)] :
        i \in {i \in store : Writable(i) /\ WantedOrZero(feed, i.sku) # i.quantity}}

\* Slip: the feed's quantity goes to Shopify as it is.
KeepNegative(store, feed) ==
    {[item |-> i, new |-> feed[i.sku]] :
        i \in {i \in store : Writable(i) /\ i.sku \in DOMAIN feed
                             /\ feed[i.sku] # i.quantity}}

\* Slip: one update for each SKU, as if no two variants shared one.
OnePerSku(store, feed) ==
    {[item |-> CHOOSE i \in store : Writable(i) /\ i.sku = k, new |-> Wanted(feed, k)] :
        k \in {k \in DOMAIN feed : \E i \in store :
                 Writable(i) /\ i.sku = k /\ Wanted(feed, k) # i.quantity}}

\* The changes: of every item the feed knows whose quantity is not the wanted
\* one.  A SKU the feed does not name is unknown and left alone.
Updates(store, feed) ==
    {[item |-> i, new |-> Wanted(feed, i.sku)] :
        i \in {i \in store : Writable(i) /\ i.sku \in DOMAIN feed
                             /\ Wanted(feed, i.sku) # i.quantity}}

\* Slip: the updates are left in the order Shopify listed the items.
AnyOrder(s) == TRUE

SortedBySku(s) == \A i, j \in 1..Len(s) : i < j => s[i].item.sku <= s[j].item.sku

Diff(store, feed) == {s \in SetToSeqs(Updates(store, feed)) : SortedBySku(s)}

-----------------------------------------------------------------------------
(***************************************************************************)
(* What a sync is for, said without Diff.                                  *)
(***************************************************************************)

\* The store once a list of updates was written: Apply names inventory item
\* and location.
Written(store, s) ==
    {IF \E n \in 1..Len(s) : s[n].item.id = i.id /\ s[n].item.location = i.location
     THEN [i EXCEPT !.quantity =
             (CHOOSE u \in {s[n] : n \in 1..Len(s)} :
                 u.item.id = i.id /\ u.item.location = i.location).new]
     ELSE i : i \in store}

\* The store the warehouse describes: its quantity, out meaning zero, where it
\* names the SKU of an item that can be written, and the store's own elsewhere.
Described(store, feed) ==
    {IF Writable(i) /\ \E k \in DOMAIN feed : k = i.sku
     THEN [i EXCEPT !.quantity = CHOOSE q \in {0, feed[i.sku]} :
                                   q >= 0 /\ q >= feed[i.sku]]
     ELSE i : i \in store}
=============================================================================
