------------------------------ MODULE MCSyncRun ------------------------------
(***************************************************************************)
(* SyncRun on a store of two variants with SKUs 1 and 2.  The feeds        *)
(* disagree on SKU 1, once with a negative quantity, and one of them does  *)
(* not name SKU 2.                                                         *)
(***************************************************************************)
EXTENDS SyncRun

CONSTANTS a, b

MCVariants == {a, b}
MCSkuOf    == (a :> 1) @@ (b :> 2)
MCFeeds    == {(1 :> 1) @@ (2 :> 1), 1 :> -1}

\* Enough for the liveness runs: one variant, which the feed always changes.
MCOneVariant == {a}
MCOneSku     == a :> 1
MCOneFeed    == {1 :> 1}
=============================================================================
