----------------------------- MODULE RemoteCall -----------------------------
(***************************************************************************)
(* What the rest of the service may expect of a call to Shopify's Admin    *)
(* API, without the attempts, the budget and the waiting of                *)
(* internal/shopify/client.go: what is asked for is carried out at most    *)
(* once; it was, when the call answers; and when the call breaks, nobody   *)
(* can tell.  SyncRun builds its remote steps on this.                     *)
(***************************************************************************)
CONSTANT Callers

VARIABLES status,   \* of each caller's latest call
          effect    \* whether Shopify carried that call out: 0 or 1 times

vars == <<status, effect>>

TypeOK == /\ status \in [Callers -> {"none", "asked", "answered", "broken"}]
          /\ effect \in [Callers -> {0, 1}]

Init == /\ status = [c \in Callers |-> "none"]
        /\ effect = [c \in Callers |-> 0]

Ask(c) == /\ status[c] # "asked"
          /\ status' = [status EXCEPT ![c] = "asked"]
          /\ effect' = [effect EXCEPT ![c] = 0]

CarryOut(c) == /\ status[c] = "asked" /\ effect[c] = 0
               /\ effect' = [effect EXCEPT ![c] = 1]
               /\ UNCHANGED status

Answer(c) == /\ status[c] = "asked" /\ effect[c] = 1
             /\ status' = [status EXCEPT ![c] = "answered"]
             /\ UNCHANGED effect

Break(c) == /\ status[c] = "asked"
            /\ status' = [status EXCEPT ![c] = "broken"]
            /\ UNCHANGED effect

Next == \E c \in Callers : Ask(c) \/ CarryOut(c) \/ Answer(c) \/ Break(c)

Spec == Init /\ [][Next]_vars
=============================================================================
