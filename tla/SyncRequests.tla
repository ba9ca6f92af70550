---------------------------- MODULE SyncRequests ----------------------------
(***************************************************************************)
(* What the webhook queue of internal/services/sync.go promises, without   *)
(* its channel, its mutex and its handlers: a store is either owed a sync  *)
(* or it is not, asking twice is asking once, and one sync runs at a time. *)
(*                                                                         *)
(* Requests live in memory, so the end of the process forgets them; and a  *)
(* request may be lost for want of room, which is only allowed when there  *)
(* are more stores than the channel has places.                            *)
(***************************************************************************)
CONSTANTS Shops, NoShop,
          Lossy     \* whether a request may be lost

VARIABLES due,      \* the stores that are owed a sync
          active    \* the store being synced, or NoShop

vars == <<due, active>>

TypeOK == /\ due \subseteq Shops
          /\ active \in Shops \cup {NoShop}

Init == due = {} /\ active = NoShop

Ask(d) == due' = due \cup {d} /\ UNCHANGED active

\* The store stops being owed a sync when one starts: stock that changes while
\* it runs is a new request.
Begin(d) == /\ d \in due
            /\ active = NoShop
            /\ due' = due \ {d}
            /\ active' = d

End == active # NoShop /\ active' = NoShop /\ UNCHANGED due

Lose(d) == /\ Lossy
           /\ due' = due \ {d}
           /\ UNCHANGED active

Forget == due' = {} /\ active' = NoShop

Next == \/ \E d \in Shops : Ask(d) \/ Begin(d) \/ Lose(d)
        \/ End
        \/ Forget

Spec == Init /\ [][Next]_vars

\* A sync ends, and no store that is owed one is passed over for ever.
Serving == WF_vars(End) /\ \A d \in Shops : SF_vars(Begin(d))
=============================================================================
