------------------------------ MODULE Throttle ------------------------------
(***************************************************************************)
(* Client.graphql of internal/shopify/client.go: attempts, budget, waits.  *)
(*                                                                         *)
(* Shopify gives each store a bucket of points that refills steadily.  A   *)
(* query is paid from it or answered "Throttled"; independently of it      *)
(* Shopify may answer 429.  The callers of one store share its bucket and  *)
(* know of it only what the last answer said.                              *)
(*                                                                         *)
(* The unit of time is what it takes to restore one point, so that pause's *)
(* shortfall divided by the rate is the shortfall.                         *)
(***************************************************************************)
EXTENDS Integers

CONSTANTS Callers,     \* calls that may run at once for one store
          Capacity,    \* points of a full bucket
          Threshold,   \* 200 in pause
          Costs,       \* what a query may cost
          Delays,      \* what Retry-After may say, 2 seconds if it is missing
          MaxAttempts  \* 5 in graphql

ASSUME BucketAssumption   == /\ Capacity \in Nat /\ Threshold \in Nat
                             /\ Threshold <= Capacity
ASSUME CostsAssumption    == Costs \subseteq Nat \ {0}
ASSUME DelaysAssumption   == Delays \subseteq Nat \ {0}
ASSUME AttemptsAssumption == MaxAttempts \in Nat

VARIABLES bucket,   \* Shopify: the points left
          call,     \* the call of graphql each caller is in, or was in last
          paced     \* history: callers whose next query nobody else's has
                    \* preceded since Shopify told them what was left, and who
                    \* waited as long as pause says

vars == <<bucket, call, paced>>

NoReply == [kind |-> "none", told |-> FALSE, left |-> 0]

Reply == [kind : {"none", "data", "empty", "failed", "tooMany", "throttled"},
          told : BOOLEAN,  \* whether the answer reports the budget
          left : Nat]      \* currentlyAvailable

Call == [pc : {"idle", "ready", "sent", "served", "waiting", "pausing"},
         cost : Nat, attempt : 0..MaxAttempts, wait : Nat, live : BOOLEAN,
         reply : Reply,
         outcome : {"none", "asked", "answered", "broken"},
         effect : {0, 1}]  \* history: how often Shopify carried it out

NoCall == [pc |-> "idle", cost |-> 0, attempt |-> 0, wait |-> 0, live |-> TRUE,
           reply |-> NoReply, outcome |-> "none", effect |-> 0]

\* Every variable keeps its type; no query is carried out twice.
TypeOK == /\ bucket \in 0..Capacity
          /\ call \in [Callers -> Call]
          /\ paced \subseteq Callers

Init == /\ bucket \in 0..Capacity
        /\ call = [c \in Callers |-> NoCall]
        /\ paced = {}

-----------------------------------------------------------------------------
(***************************************************************************)
(* One attempt.                                                            *)
(***************************************************************************)

Begin(c, k) ==
    /\ call[c].pc = "idle"
    /\ call' = [call EXCEPT ![c] =
                  [NoCall EXCEPT !.pc = "ready", !.cost = k, !.outcome = "asked"]]
    /\ UNCHANGED <<bucket, paced>>

Send(c) == /\ call[c].pc = "ready" /\ call[c].live
           /\ call' = [call EXCEPT ![c].pc = "sent"]
           /\ UNCHANGED <<bucket, paced>>

Return(c, outcome) ==
    call' = [call EXCEPT ![c] =
               [NoCall EXCEPT !.outcome = outcome, !.effect = call[c].effect]]

\* http.Client refuses a context that is done, and sends nothing.
NotSent(c) == /\ call[c].pc = "ready" /\ ~call[c].live
              /\ Return(c, "broken")
              /\ UNCHANGED <<bucket, paced>>

Serve(c, r) == call' = [call EXCEPT ![c].pc = "served", ![c].reply = r]

\* An answer with the budget in it, or without.
Report(kind, told, left) == [kind |-> kind, told |-> told, left |-> IF told THEN left ELSE 0]

\* Shopify carries the query out.  The answer may come without data, with an
\* error, or not at all.
CarriedOut(c, kind, told) ==
    /\ call[c].pc = "sent" /\ call[c].cost <= bucket
    /\ kind \in {"data", "empty", "failed"} /\ (kind = "failed" => ~told)
    /\ bucket' = bucket - call[c].cost
    /\ call' = [call EXCEPT ![c].pc = "served", ![c].effect = @ + 1,
                            ![c].reply = Report(kind, told, bucket')]
    /\ paced' = IF told THEN {c} ELSE {}

Throttled(c, told) ==
    /\ call[c].pc = "sent" /\ bucket < call[c].cost
    /\ Serve(c, Report("throttled", told, bucket))
    /\ paced' = IF told THEN paced \cup {c} ELSE paced
    /\ UNCHANGED bucket

\* 429, another status, an unreadable body, a broken connection, or a context
\* that ended with the request in flight: not carried out.
Refused(c, kind) ==
    /\ call[c].pc = "sent"
    /\ kind \in {"tooMany", "failed"}
    /\ Serve(c, [NoReply EXCEPT !.kind = kind])
    /\ UNCHANGED <<bucket, paced>>

-----------------------------------------------------------------------------
(***************************************************************************)
(* What graphql makes of an answer.                                        *)
(***************************************************************************)

\* Slip: the wait is for what is left, not for what is missing.
PauseByLeft(r) == IF ~r.told \/ r.left >= Threshold THEN 0 ELSE r.left

\* An answer without a restore rate means no pause.
Pause(r) == IF ~r.told \/ r.left >= Threshold THEN 0 ELSE Threshold - r.left

Retryable(c) == call[c].reply.kind \in {"tooMany", "throttled"}

Await(c, pc, wait, outcome) ==
    call' = [call EXCEPT ![c] = [@ EXCEPT !.pc = pc, !.wait = wait,
                                          !.reply = NoReply, !.outcome = outcome]]

\* 429 waits as long as it says, Throttled as long as the budget needs; both
\* count as the same attempts.
Retry(c) ==
    /\ call[c].pc = "served" /\ Retryable(c)
    /\ call[c].attempt < MaxAttempts
    /\ \E d \in IF call[c].reply.kind = "tooMany" THEN Delays ELSE {Pause(call[c].reply)} :
         Await(c, "waiting", d, "asked")
    /\ UNCHANGED <<bucket, paced>>

\* Slip: a connection that broke is tried again.
GiveUpUnlessBroken(c) ==
    /\ call[c].pc = "served"
    /\ \/ Retryable(c) /\ call[c].attempt = MaxAttempts /\ Return(c, "broken")
       \/ call[c].reply.kind = "failed" /\ Await(c, "waiting", 0, "asked")
    /\ paced' = paced \ {c}
    /\ UNCHANGED bucket

\* The attempts are used up, or the answer is not one to try again: an error at
\* once, without a pause.
GiveUp(c) ==
    /\ call[c].pc = "served"
    /\ \/ Retryable(c) /\ call[c].attempt = MaxAttempts
       \/ call[c].reply.kind = "failed"
    /\ Return(c, "broken")
    /\ paced' = paced \ {c}
    /\ UNCHANGED bucket

\* The pause comes before the result, and before the look at the data.
Answered(c) ==
    /\ call[c].pc = "served" /\ call[c].reply.kind \in {"data", "empty"}
    /\ Await(c, "pausing", Pause(call[c].reply),
             IF call[c].reply.kind = "data" THEN "answered" ELSE "broken")
    /\ UNCHANGED <<bucket, paced>>

\* Slip: a wait starts the same attempt over.
WakeUpUncounted(c) ==
    /\ call[c].pc \in {"waiting", "pausing"}
    /\ call[c].wait = 0 \/ ~call[c].live
    /\ IF call[c].pc = "waiting"
       THEN call' = [call EXCEPT ![c].pc = "ready", ![c].wait = 0]
       ELSE Return(c, call[c].outcome)
    /\ paced' = IF call[c].wait = 0 THEN paced ELSE paced \ {c}
    /\ UNCHANGED bucket

\* Slip: a sleep that the context ends is an error of the call.
WakeUpFails(c) ==
    /\ call[c].pc \in {"waiting", "pausing"}
    /\ call[c].wait = 0 \/ ~call[c].live
    /\ IF call[c].pc = "waiting"
       THEN call' = [call EXCEPT ![c].pc = "ready", ![c].wait = 0, ![c].attempt = @ + 1]
       ELSE Return(c, IF call[c].live THEN call[c].outcome ELSE "broken")
    /\ paced' = IF call[c].wait = 0 THEN paced ELSE paced \ {c}
    /\ UNCHANGED bucket

\* sleep ends: its timer, or the context.  Neither is an error.
WakeUp(c) ==
    /\ call[c].pc \in {"waiting", "pausing"}
    /\ call[c].wait = 0 \/ ~call[c].live
    /\ IF call[c].pc = "waiting"
       THEN call' = [call EXCEPT ![c].pc = "ready", ![c].wait = 0, ![c].attempt = @ + 1]
       ELSE Return(c, call[c].outcome)
    /\ paced' = IF call[c].wait = 0 THEN paced ELSE paced \ {c}
    /\ UNCHANGED bucket

ContextEnds(c) == /\ call[c].pc # "idle" /\ call[c].live
                  /\ call' = [call EXCEPT ![c].live = FALSE]
                  /\ UNCHANGED <<bucket, paced>>

\* Time passes: a point is restored, waits get shorter.
Tick == /\ bucket' = IF bucket < Capacity THEN bucket + 1 ELSE bucket
        /\ call' = [c \in Callers |->
                      [call[c] EXCEPT !.wait = IF @ > 0 THEN @ - 1 ELSE 0]]
        /\ UNCHANGED paced

-----------------------------------------------------------------------------
Shopify(c) == \/ \E kind \in {"data", "empty", "failed"}, told \in BOOLEAN :
                   CarriedOut(c, kind, told)
              \/ \E told \in BOOLEAN : Throttled(c, told)
              \/ \E kind \in {"tooMany", "failed"} : Refused(c, kind)

Graphql(c) == Send(c) \/ NotSent(c) \/ Retry(c) \/ GiveUp(c) \/ Answered(c) \/ WakeUp(c)

Next == \/ \E c \in Callers : \/ \E k \in Costs : Begin(c, k)
                              \/ Graphql(c) \/ Shopify(c) \/ ContextEnds(c)
        \/ Tick

Spec == Init /\ [][Next]_vars

\* Time passes, a call goes on, and a request is answered or timed out by the
\* client's 120 seconds.
Fairness == /\ WF_vars(Tick)
            /\ \A c \in Callers : WF_vars(Graphql(c)) /\ WF_vars(Shopify(c))

FairSpec == Spec /\ Fairness

-----------------------------------------------------------------------------
(***************************************************************************)
(* Properties                                                              *)
(***************************************************************************)

\* "While the bucket is above the threshold the next query may go straight out.
\* Only the shortfall is waited on": a caller alone on its store's budget never
\* sends a query below the threshold, through pauses, retries and 429s, when
\* Shopify reports the budget and no context cuts the wait short.  With others
\* on the bucket nothing is promised.
PacedHasBudget == \A c \in paced :
    call[c].pc \in {"idle", "ready", "sent"} => bucket >= Threshold

\* No attempts, waits or lost answers carry a query out twice, an answer means
\* that it was carried out, and a wait that is cut short spoils no answer.
Remote == INSTANCE RemoteCall
    WITH status <- [c \in Callers |-> call[c].outcome],
         effect <- [c \in Callers |-> call[c].effect]

ImplementsRemoteCall == Remote!Spec

\* A call returns while Shopify answers 429 or Throttled for ever, with no context
\* to end it, and through the pause before the result: the attempts are counted
\* together, and a wait leads to the next one or to the end.
CallsReturn == \A c \in Callers : call[c].pc # "idle" ~> call[c].pc = "idle"
=============================================================================
