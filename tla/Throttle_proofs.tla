--------------------------- MODULE Throttle_proofs ---------------------------
(***************************************************************************)
(* Proofs about Throttle, for any number of callers and attempts and any   *)
(* bucket, costs and delays.                                               *)
(***************************************************************************)
EXTENDS Throttle, TLAPS

-----------------------------------------------------------------------------
(***************************************************************************)
(* The inductive invariant.                                                *)
(***************************************************************************)

\* What a call has asked for and what Shopify has done, by program counter.
Phase(c) ==
    /\ call[c].pc = "idle" => call[c].outcome # "asked"
    /\ call[c].pc \in {"ready", "sent", "waiting"} =>
         call[c].outcome = "asked" /\ call[c].effect = 0
    /\ call[c].pc = "waiting" => call[c].attempt < MaxAttempts
    /\ call[c].pc = "served" =>
         /\ call[c].outcome = "asked"
         /\ call[c].reply.kind \in {"data", "empty"} => call[c].effect = 1
         /\ call[c].reply.kind \in {"tooMany", "throttled"} => call[c].effect = 0
    /\ call[c].pc = "pausing" => call[c].outcome # "asked"

Phases == \A c \in Callers : Phase(c)

\* What is left of the wait the last answer asks for.
Due(c) == IF call[c].pc = "served"
          THEN IF call[c].reply.kind \in {"data", "empty", "throttled"}
               THEN Pause(call[c].reply) ELSE 0
          ELSE IF call[c].pc \in {"waiting", "pausing"} THEN call[c].wait ELSE 0

\* A paced caller that still waits as long as it has to finds the budget.
Budgeted == \A c \in paced : bucket + Due(c) >= Threshold

IInv == TypeOK /\ Phases /\ Budgeted

LEMMA NoCallTyped == NoCall \in Call /\ NoReply \in Reply
<1>1. NoReply \in Reply
    BY DEF NoReply, Reply
<1>2. NoCall \in Call
    BY <1>1, AttemptsAssumption DEF NoCall, Call
<1>3. QED BY <1>1, <1>2

LEMMA InitIInv == Init => IInv
<1> SUFFICES ASSUME Init PROVE IInv
    OBVIOUS
<1>1. TypeOK
    BY NoCallTyped DEF Init, TypeOK
<1>2. Phases
    BY DEF Init, Phases, Phase, NoCall
<1>3. Budgeted
    BY DEF Init, Budgeted
<1>4. QED BY <1>1, <1>2, <1>3 DEF IInv

LEMMA PauseTyped == \A r \in Reply : Pause(r) \in Nat
BY BucketAssumption DEF Pause, Reply

LEMMA PauseCovers == \A r \in Reply : r.told => r.left + Pause(r) >= Threshold
BY BucketAssumption DEF Pause, Reply

-----------------------------------------------------------------------------
(***************************************************************************)
(* Types, one lemma per kind of step.                                      *)
(***************************************************************************)

LEMMA ReturnTyped ==
    ASSUME TypeOK, NEW c \in Callers, NEW o \in {"none", "answered", "broken"}, Return(c, o)
    PROVE  /\ call' \in [Callers -> Call]
           /\ \A d \in Callers \ {c} : call'[d] = call[d]
           /\ call'[c].pc = "idle" /\ call'[c].outcome = o /\ call'[c].effect = call[c].effect
<1> DEFINE v == [NoCall EXCEPT !.outcome = o, !.effect = call[c].effect]
<1>1. call[c].effect \in {0, 1}
    BY DEF TypeOK, Call
<1>2. v \in Call
    BY <1>1, NoCallTyped DEF Call
<1>3. v.pc = "idle" /\ v.outcome = o /\ v.effect = call[c].effect
    BY DEF NoCall
<1>4. call' = [call EXCEPT ![c] = v]
    BY DEF Return
<1> HIDE DEF v
<1>5. QED BY <1>2, <1>3, <1>4 DEF TypeOK

LEMMA AwaitTyped ==
    ASSUME TypeOK, NEW c \in Callers, NEW p \in {"waiting", "pausing"}, NEW w \in Nat,
           NEW o \in {"asked", "answered", "broken"}, Await(c, p, w, o)
    PROVE  /\ call' \in [Callers -> Call]
           /\ \A d \in Callers \ {c} : call'[d] = call[d]
           /\ call'[c].pc = p /\ call'[c].wait = w /\ call'[c].outcome = o
           /\ call'[c].effect = call[c].effect /\ call'[c].attempt = call[c].attempt
<1> DEFINE v == [call[c] EXCEPT !.pc = p, !.wait = w, !.reply = NoReply, !.outcome = o]
<1>1. call[c] \in Call
    BY DEF TypeOK
<1>2. v \in Call /\ v.pc = p /\ v.wait = w /\ v.outcome = o
    BY <1>1, NoCallTyped DEF Call
<1>3. v.effect = call[c].effect /\ v.attempt = call[c].attempt
    BY <1>1 DEF Call
<1>4. call' = [call EXCEPT ![c] = v]
    BY DEF Await
<1> HIDE DEF v
<1>5. QED BY <1>2, <1>3, <1>4 DEF TypeOK

LEMMA ServeTyped ==
    ASSUME TypeOK, NEW c \in Callers, NEW r \in Reply, Serve(c, r)
    PROVE  /\ call' \in [Callers -> Call]
           /\ \A d \in Callers \ {c} : call'[d] = call[d]
           /\ call'[c].pc = "served" /\ call'[c].reply = r
           /\ call'[c].outcome = call[c].outcome /\ call'[c].effect = call[c].effect
<1> DEFINE v == [call[c] EXCEPT !.pc = "served", !.reply = r]
<1>1. call[c] \in Call
    BY DEF TypeOK
<1>2. v \in Call
    BY <1>1 DEF Call
<1>3. v.pc = "served" /\ v.reply = r /\ v.outcome = call[c].outcome /\ v.effect = call[c].effect
    BY <1>1 DEF Call
<1>4. call' = [call EXCEPT ![c] = v]
    BY <1>1 DEF Serve, TypeOK, Call
<1> HIDE DEF v
<1>5. QED BY <1>2, <1>3, <1>4 DEF TypeOK

LEMMA CarriedOutTyped ==
    ASSUME IInv, NEW c \in Callers, NEW kind \in {"data", "empty", "failed"},
           NEW told \in BOOLEAN, CarriedOut(c, kind, told)
    PROVE  /\ call' \in [Callers -> Call]
           /\ \A d \in Callers \ {c} : call'[d] = call[d]
           /\ call'[c].pc = "served" /\ call'[c].outcome = "asked" /\ call'[c].effect = 1
           /\ call'[c].reply = Report(kind, told, bucket')
           /\ bucket' \in 0..Capacity
<1>1. call[c] \in Call /\ call[c].effect = 0 /\ call[c].outcome = "asked"
    BY DEF IInv, TypeOK, Phases, Phase, CarriedOut
<1>2. bucket' \in 0..Capacity
    BY <1>1, BucketAssumption DEF IInv, TypeOK, CarriedOut, Call
<1>3. Report(kind, told, bucket') \in Reply
    BY <1>2 DEF Report, Reply
<1> DEFINE v == [call[c] EXCEPT !.pc = "served", !.effect = 1,
                                !.reply = Report(kind, told, bucket')]
<1>4. v \in Call
    BY <1>1, <1>3 DEF Call
<1>5. v.pc = "served" /\ v.outcome = "asked" /\ v.effect = 1 /\ v.reply = Report(kind, told, bucket')
    BY <1>1 DEF Call
<1>6. call' = [call EXCEPT ![c] = v]
    BY <1>1 DEF CarriedOut, IInv, TypeOK, Call
<1> HIDE DEF v
<1>7. QED BY <1>2, <1>4, <1>5, <1>6 DEF IInv, TypeOK

LEMMA BeginTyped ==
    ASSUME TypeOK, NEW c \in Callers, NEW k \in Costs, Begin(c, k)
    PROVE  /\ call' \in [Callers -> Call]
           /\ \A d \in Callers \ {c} : call'[d] = call[d]
           /\ call'[c].pc = "ready" /\ call'[c].outcome = "asked" /\ call'[c].effect = 0
<1> DEFINE v == [NoCall EXCEPT !.pc = "ready", !.cost = k, !.outcome = "asked"]
<1>1. v \in Call /\ v.pc = "ready" /\ v.outcome = "asked" /\ v.effect = 0
    BY NoCallTyped, CostsAssumption DEF Call, NoCall
<1>2. call' = [call EXCEPT ![c] = v]
    BY DEF Begin
<1> HIDE DEF v
<1>3. QED BY <1>1, <1>2 DEF TypeOK

LEMMA WakeTyped ==
    ASSUME IInv, NEW c \in Callers, call[c].pc = "waiting",
           call' = [call EXCEPT ![c].pc = "ready", ![c].wait = 0, ![c].attempt = @ + 1]
    PROVE  /\ call' \in [Callers -> Call]
           /\ \A d \in Callers \ {c} : call'[d] = call[d]
           /\ call'[c].pc = "ready"
           /\ call'[c].outcome = call[c].outcome /\ call'[c].effect = call[c].effect
<1> DEFINE v == [call[c] EXCEPT !.pc = "ready", !.wait = 0, !.attempt = @ + 1]
<1>1. call[c] \in Call /\ call[c].attempt < MaxAttempts
    BY DEF IInv, TypeOK, Phases, Phase
<1>2. call[c].attempt \in 0..MaxAttempts /\ MaxAttempts \in Nat
    BY <1>1, AttemptsAssumption DEF Call
<1>3. call[c].attempt + 1 \in 0..MaxAttempts
    BY <1>1, <1>2
<1>4. v \in Call
    BY <1>1, <1>3 DEF Call
<1>5. v.pc = "ready" /\ v.outcome = call[c].outcome /\ v.effect = call[c].effect
    BY <1>1 DEF Call
<1>6. call' = [call EXCEPT ![c] = v]
    BY <1>1 DEF IInv, TypeOK, Call
<1> HIDE DEF v
<1>7. QED BY <1>4, <1>5, <1>6 DEF IInv, TypeOK

LEMMA SendTyped ==
    ASSUME TypeOK, NEW c \in Callers, Send(c)
    PROVE  /\ call' \in [Callers -> Call]
           /\ \A d \in Callers \ {c} : call'[d] = call[d]
           /\ call'[c].pc = "sent"
           /\ call'[c].outcome = call[c].outcome /\ call'[c].effect = call[c].effect
<1> DEFINE v == [call[c] EXCEPT !.pc = "sent"]
<1>1. call[c] \in Call
    BY DEF TypeOK
<1>2. v \in Call
    BY <1>1 DEF Call
<1>3. v.pc = "sent" /\ v.outcome = call[c].outcome /\ v.effect = call[c].effect
    BY <1>1 DEF Call
<1>4. call' = [call EXCEPT ![c] = v]
    BY <1>1 DEF Send, TypeOK, Call
<1> HIDE DEF v
<1>5. QED BY <1>2, <1>3, <1>4 DEF TypeOK

LEMMA ContextTyped ==
    ASSUME TypeOK, NEW c \in Callers, ContextEnds(c)
    PROVE  /\ call' \in [Callers -> Call]
           /\ \A d \in Callers \ {c} : call'[d] = call[d]
           /\ call'[c].pc = call[c].pc /\ call'[c].wait = call[c].wait
           /\ call'[c].reply = call[c].reply /\ call'[c].attempt = call[c].attempt
           /\ call'[c].outcome = call[c].outcome /\ call'[c].effect = call[c].effect
<1> DEFINE v == [call[c] EXCEPT !.live = FALSE]
<1>1. call[c] \in Call
    BY DEF TypeOK
<1>2. v \in Call
    BY <1>1 DEF Call
<1>3. /\ v.pc = call[c].pc /\ v.wait = call[c].wait
      /\ v.reply = call[c].reply /\ v.attempt = call[c].attempt
      /\ v.outcome = call[c].outcome /\ v.effect = call[c].effect
    BY <1>1 DEF Call
<1>4. call' = [call EXCEPT ![c] = v]
    BY <1>1 DEF ContextEnds, TypeOK, Call
<1> HIDE DEF v
<1>5. QED BY <1>2, <1>3, <1>4 DEF TypeOK

LEMMA TickTyped ==
    ASSUME TypeOK, Tick
    PROVE  /\ call' \in [Callers -> Call]
           /\ bucket' \in 0..Capacity
           /\ \A d \in Callers :
                /\ call'[d].pc = call[d].pc /\ call'[d].attempt = call[d].attempt
                /\ call'[d].reply = call[d].reply
                /\ call'[d].outcome = call[d].outcome /\ call'[d].effect = call[d].effect
                /\ call'[d].wait = IF call[d].wait > 0 THEN call[d].wait - 1 ELSE 0
<1>1. bucket' \in 0..Capacity
    BY BucketAssumption DEF TypeOK, Tick
<1>2. ASSUME NEW d \in Callers
      PROVE  /\ call'[d] \in Call
             /\ call'[d].pc = call[d].pc /\ call'[d].attempt = call[d].attempt
             /\ call'[d].reply = call[d].reply
             /\ call'[d].outcome = call[d].outcome /\ call'[d].effect = call[d].effect
             /\ call'[d].wait = IF call[d].wait > 0 THEN call[d].wait - 1 ELSE 0
  <2> DEFINE w == IF call[d].wait > 0 THEN call[d].wait - 1 ELSE 0
             v == [call[d] EXCEPT !.wait = w]
  <2>1. call[d] \in Call /\ call[d].wait \in Nat
      BY DEF TypeOK, Call
  <2>2. w \in Nat
      BY <2>1
  <2>3. call'[d] = v
      BY DEF Tick
  <2> HIDE DEF w
  <2>4. v \in Call
      BY <2>1, <2>2 DEF Call
  <2>5. /\ v.pc = call[d].pc /\ v.attempt = call[d].attempt /\ v.reply = call[d].reply
        /\ v.outcome = call[d].outcome /\ v.effect = call[d].effect /\ v.wait = w
      BY <2>1 DEF Call
  <2>6. QED BY <2>3, <2>4, <2>5 DEF w
<1>3. call' = [d \in Callers |-> call'[d]]
    BY DEF Tick
<1>4. QED BY <1>1, <1>2, <1>3

-----------------------------------------------------------------------------
(***************************************************************************)
(* A step of one caller: what is left to show of it.                       *)
(***************************************************************************)

Status == [c \in Callers |-> call[c].outcome]
Effect == [c \in Callers |-> call[c].effect]

LEMMA StepOfOne ==
    ASSUME IInv, NEW c \in Callers,
           call' \in [Callers -> Call], \A d \in Callers \ {c} : call'[d] = call[d],
           bucket' = bucket, Phase(c)', paced' \subseteq paced \cup {c},
           c \in paced' => bucket + Due(c)' >= Threshold
    PROVE  IInv'
<1>1. TypeOK'
    BY DEF IInv, TypeOK
<1>2. Phases'
    BY DEF IInv, Phases, Phase
<1>3. Budgeted'
  <2> SUFFICES ASSUME NEW d \in paced' PROVE (bucket + Due(d) >= Threshold)'
      BY DEF Budgeted
  <2>1. CASE d = c
      BY <2>1
  <2>2. CASE d # c
    <3>1. d \in paced /\ d \in Callers \ {c}
        BY <2>2 DEF IInv, TypeOK
    <3>2. Due(d)' = Due(d)
        BY <3>1 DEF Due
    <3>3. QED BY <3>1, <3>2 DEF IInv, Budgeted
  <2>3. QED BY <2>1, <2>2
<1>4. QED BY <1>1, <1>2, <1>3 DEF IInv

LEMMA RemoteOfOne ==
    ASSUME TypeOK, NEW c \in Callers,
           call' \in [Callers -> Call], \A d \in Callers \ {c} : call'[d] = call[d]
    PROVE  /\ Status' = [Status EXCEPT ![c] = call'[c].outcome]
           /\ Effect' = [Effect EXCEPT ![c] = call'[c].effect]
BY DEF Status, Effect

LEMMA RemoteStutters ==
    ASSUME TypeOK, NEW c \in Callers,
           call' \in [Callers -> Call], \A d \in Callers \ {c} : call'[d] = call[d],
           call'[c].outcome = call[c].outcome, call'[c].effect = call[c].effect
    PROVE  UNCHANGED <<Status, Effect>>
BY DEF Status, Effect

-----------------------------------------------------------------------------
(***************************************************************************)
(* Every step preserves the invariant, and is a step of RemoteCall or      *)
(* leaves its variables alone.                                             *)
(***************************************************************************)

LEMMA BeginStep ==
    ASSUME IInv, NEW c \in Callers, NEW k \in Costs, Begin(c, k)
    PROVE  IInv' /\ Remote!Next
<1>1. /\ call' \in [Callers -> Call] /\ \A d \in Callers \ {c} : call'[d] = call[d]
      /\ call'[c].pc = "ready" /\ call'[c].outcome = "asked" /\ call'[c].effect = 0
    BY BeginTyped DEF IInv
<1>2. call[c].pc = "idle" /\ call[c].outcome # "asked" /\ UNCHANGED <<bucket, paced>>
    BY DEF Begin, IInv, Phases, Phase
<1>3. Phase(c)'
    BY <1>1 DEF Phase
<1>4. c \in paced' => bucket + Due(c)' >= Threshold
    BY <1>1, <1>2 DEF IInv, Budgeted, Due
<1>5. IInv'
    BY <1>1, <1>2, <1>3, <1>4, StepOfOne
<1>6. /\ Status' = [Status EXCEPT ![c] = "asked"]
      /\ Effect' = [Effect EXCEPT ![c] = 0]
    BY <1>1, RemoteOfOne DEF IInv
<1>7. Remote!Ask(c)
    BY <1>2, <1>6 DEF Remote!Ask, Status, Effect
<1>8. QED BY <1>5, <1>7 DEF Remote!Next

LEMMA SendStep ==
    ASSUME IInv, NEW c \in Callers, Send(c)
    PROVE  IInv' /\ UNCHANGED <<Status, Effect>>
<1>1. /\ call' \in [Callers -> Call] /\ \A d \in Callers \ {c} : call'[d] = call[d]
      /\ call'[c].pc = "sent"
      /\ call'[c].outcome = call[c].outcome /\ call'[c].effect = call[c].effect
    BY SendTyped DEF IInv
<1>2. call[c].pc = "ready" /\ UNCHANGED <<bucket, paced>>
    BY DEF Send
<1>3. Phase(c)'
    BY <1>1, <1>2 DEF IInv, Phases, Phase
<1>4. c \in paced' => bucket + Due(c)' >= Threshold
    BY <1>1, <1>2 DEF IInv, Budgeted, Due
<1>5. QED BY <1>1, <1>2, <1>3, <1>4, StepOfOne, RemoteStutters DEF IInv

LEMMA NotSentStep ==
    ASSUME IInv, NEW c \in Callers, NotSent(c)
    PROVE  IInv' /\ Remote!Next
<1>1. call[c].pc = "ready" /\ UNCHANGED <<bucket, paced>> /\ Return(c, "broken")
    BY DEF NotSent
<1>2. /\ call' \in [Callers -> Call] /\ \A d \in Callers \ {c} : call'[d] = call[d]
      /\ call'[c].pc = "idle" /\ call'[c].outcome = "broken"
      /\ call'[c].effect = call[c].effect
    BY <1>1, ReturnTyped DEF IInv
<1>3. call[c].outcome = "asked"
    BY <1>1 DEF IInv, Phases, Phase
<1>4. Phase(c)'
    BY <1>2 DEF Phase
<1>5. c \in paced' => bucket + Due(c)' >= Threshold
    BY <1>1, <1>2 DEF IInv, Budgeted, Due
<1>6. IInv'
    BY <1>1, <1>2, <1>4, <1>5, StepOfOne
<1>7. /\ Status' = [Status EXCEPT ![c] = "broken"]
      /\ Effect' = [Effect EXCEPT ![c] = call[c].effect]
    BY <1>2, RemoteOfOne DEF IInv
<1>8. Remote!Break(c)
    BY <1>3, <1>7 DEF Remote!Break, Status, Effect
<1>9. QED BY <1>6, <1>8 DEF Remote!Next

LEMMA CarriedOutStep ==
    ASSUME IInv, NEW c \in Callers, NEW kind \in {"data", "empty", "failed"},
           NEW told \in BOOLEAN, CarriedOut(c, kind, told)
    PROVE  IInv' /\ Remote!Next
<1>1. /\ call' \in [Callers -> Call] /\ \A d \in Callers \ {c} : call'[d] = call[d]
      /\ call'[c].pc = "served" /\ call'[c].outcome = "asked" /\ call'[c].effect = 1
      /\ call'[c].reply = Report(kind, told, bucket')
      /\ bucket' \in 0..Capacity
    BY CarriedOutTyped
<1>2. call[c].outcome = "asked" /\ call[c].effect = 0 /\ (kind = "failed" => ~told)
    BY DEF IInv, Phases, Phase, CarriedOut
<1>3. paced' = IF told THEN {c} ELSE {}
    BY DEF CarriedOut
<1>4. TypeOK'
    BY <1>1, <1>3 DEF TypeOK
<1>5. Phase(c)'
    BY <1>1 DEF Phase, Report
<1>6. Phases'
    BY <1>1, <1>5 DEF IInv, Phases, Phase
<1>7. ASSUME told PROVE bucket' + Due(c)' >= Threshold
  <2>1. Due(c)' = Pause(Report(kind, TRUE, bucket'))
      BY <1>1, <1>2, <1>7 DEF Due, Report
  <2>2. Report(kind, TRUE, bucket') \in Reply
      BY <1>1 DEF Report, Reply
  <2>3. Report(kind, TRUE, bucket').told /\ Report(kind, TRUE, bucket').left = bucket'
      BY DEF Report
  <2>4. bucket' + Pause(Report(kind, TRUE, bucket')) >= Threshold
      BY <2>2, <2>3, PauseCovers
  <2>5. QED BY <2>1, <2>4, Zenon
<1>8. Budgeted'
    BY <1>3, <1>7 DEF Budgeted
<1>9. /\ Status' = [Status EXCEPT ![c] = "asked"]
      /\ Effect' = [Effect EXCEPT ![c] = 1]
    BY <1>1, RemoteOfOne DEF IInv
<1>10. Remote!CarryOut(c)
    BY <1>2, <1>9 DEF Remote!CarryOut, Status, Effect
<1>11. QED BY <1>4, <1>6, <1>8, <1>10 DEF IInv, Remote!Next

LEMMA ThrottledStep ==
    ASSUME IInv, NEW c \in Callers, NEW told \in BOOLEAN, Throttled(c, told)
    PROVE  IInv' /\ UNCHANGED <<Status, Effect>>
<1> DEFINE r == Report("throttled", told, bucket)
<1>1. r \in Reply /\ r.kind = "throttled"
    BY DEF Report, Reply, IInv, TypeOK
<1>2. call[c].pc = "sent" /\ Serve(c, r) /\ bucket' = bucket
    BY DEF Throttled
<1>3. call[c].outcome = "asked" /\ call[c].effect = 0
    BY <1>2 DEF IInv, Phases, Phase
<1>4. paced' = IF told THEN paced \cup {c} ELSE paced
    BY DEF Throttled
<1>5. Pause(r) = IF ~told \/ bucket >= Threshold THEN 0 ELSE Threshold - bucket
    BY DEF Pause, Report
<1> HIDE DEF r
<1>6. /\ call' \in [Callers -> Call] /\ \A d \in Callers \ {c} : call'[d] = call[d]
      /\ call'[c].pc = "served" /\ call'[c].reply = r
      /\ call'[c].outcome = call[c].outcome /\ call'[c].effect = call[c].effect
    BY <1>1, <1>2, ServeTyped DEF IInv
<1>7. Phase(c)'
    BY <1>1, <1>3, <1>6 DEF Phase
<1>8. Due(c)' = Pause(r)
    BY <1>1, <1>6 DEF Due
<1>9. c \in paced /\ ~told => bucket >= Threshold
    BY <1>2, BucketAssumption DEF IInv, TypeOK, Budgeted, Due
<1>10. c \in paced' => bucket + Due(c)' >= Threshold
    BY <1>4, <1>5, <1>8, <1>9, BucketAssumption DEF IInv, TypeOK
<1>11. paced' \subseteq paced \cup {c}
    BY <1>4
<1>12. IInv'
    BY <1>2, <1>6, <1>7, <1>10, <1>11, StepOfOne
<1>13. QED BY <1>6, <1>12, RemoteStutters DEF IInv

LEMMA RefusedStep ==
    ASSUME IInv, NEW c \in Callers, NEW kind \in {"tooMany", "failed"}, Refused(c, kind)
    PROVE  IInv' /\ UNCHANGED <<Status, Effect>>
<1> DEFINE r == [NoReply EXCEPT !.kind = kind]
<1>1. r \in Reply /\ r.kind = kind
    BY DEF NoReply, Reply
<1>2. call[c].pc = "sent" /\ Serve(c, r) /\ UNCHANGED <<bucket, paced>>
    BY DEF Refused
<1> HIDE DEF r
<1>3. call[c].outcome = "asked" /\ call[c].effect = 0
    BY <1>2 DEF IInv, Phases, Phase
<1>4. /\ call' \in [Callers -> Call] /\ \A d \in Callers \ {c} : call'[d] = call[d]
      /\ call'[c].pc = "served" /\ call'[c].reply = r
      /\ call'[c].outcome = call[c].outcome /\ call'[c].effect = call[c].effect
    BY <1>1, <1>2, ServeTyped DEF IInv
<1>5. Phase(c)'
    BY <1>1, <1>3, <1>4 DEF Phase
<1>6. Due(c) = 0 /\ Due(c)' = 0
    BY <1>1, <1>2, <1>4 DEF Due
<1>7. c \in paced' => bucket + Due(c)' >= Threshold
    BY <1>2, <1>6 DEF IInv, Budgeted
<1>8. IInv'
    BY <1>2, <1>4, <1>5, <1>7, StepOfOne
<1>9. QED BY <1>4, <1>8, RemoteStutters DEF IInv

LEMMA RetryStep ==
    ASSUME IInv, NEW c \in Callers, Retry(c)
    PROVE  IInv' /\ UNCHANGED <<Status, Effect>>
<1>1. /\ call[c].pc = "served" /\ call[c].reply.kind \in {"tooMany", "throttled"}
      /\ call[c].attempt < MaxAttempts /\ UNCHANGED <<bucket, paced>>
    BY DEF Retry, Retryable
<1>2. call[c].reply \in Reply
    BY DEF IInv, TypeOK, Call
<1>3. PICK w \in Nat : /\ Await(c, "waiting", w, "asked")
                       /\ call[c].reply.kind = "throttled" => w = Pause(call[c].reply)
    BY <1>1, <1>2, PauseTyped, DelaysAssumption DEF Retry
<1>4. call[c].outcome = "asked" /\ call[c].effect = 0
    BY <1>1 DEF IInv, Phases, Phase
<1>5. /\ call' \in [Callers -> Call] /\ \A d \in Callers \ {c} : call'[d] = call[d]
      /\ call'[c].pc = "waiting" /\ call'[c].wait = w /\ call'[c].outcome = "asked"
      /\ call'[c].effect = call[c].effect /\ call'[c].attempt = call[c].attempt
    BY <1>3, AwaitTyped DEF IInv
<1>6. Phase(c)'
    BY <1>1, <1>4, <1>5 DEF Phase
<1>7. ASSUME c \in paced PROVE bucket + w >= Threshold
  <2>1. CASE call[c].reply.kind = "throttled"
    <3>1. bucket + Due(c) >= Threshold
        BY <1>7 DEF IInv, Budgeted
    <3>2. Due(c) = Pause(call[c].reply)
        BY <1>1, <2>1 DEF Due
    <3>3. w = Pause(call[c].reply)
        BY <1>3, <2>1
    <3>4. QED BY <3>1, <3>2, <3>3
  <2>2. CASE call[c].reply.kind = "tooMany"
    <3>1. bucket + 0 >= Threshold
        BY <1>1, <1>7, <2>2 DEF IInv, Budgeted, Due
    <3>2. QED BY <3>1, <1>3, BucketAssumption DEF IInv, TypeOK
  <2>3. QED BY <1>1, <2>1, <2>2
<1>8. c \in paced' => bucket + Due(c)' >= Threshold
    BY <1>1, <1>5, <1>7 DEF Due
<1>9. IInv'
    BY <1>1, <1>5, <1>6, <1>8, StepOfOne
<1>10. QED BY <1>4, <1>5, <1>9, RemoteStutters DEF IInv

LEMMA GiveUpStep ==
    ASSUME IInv, NEW c \in Callers, GiveUp(c)
    PROVE  IInv' /\ Remote!Next
<1>1. /\ call[c].pc = "served" /\ Return(c, "broken")
      /\ paced' = paced \ {c} /\ bucket' = bucket
    BY DEF GiveUp
<1>2. /\ call' \in [Callers -> Call] /\ \A d \in Callers \ {c} : call'[d] = call[d]
      /\ call'[c].pc = "idle" /\ call'[c].outcome = "broken"
      /\ call'[c].effect = call[c].effect
    BY <1>1, ReturnTyped DEF IInv
<1>3. call[c].outcome = "asked"
    BY <1>1 DEF IInv, Phases, Phase
<1>4. Phase(c)'
    BY <1>2 DEF Phase
<1>5. IInv'
    BY <1>1, <1>2, <1>4, StepOfOne
<1>6. /\ Status' = [Status EXCEPT ![c] = "broken"]
      /\ Effect' = [Effect EXCEPT ![c] = call[c].effect]
    BY <1>2, RemoteOfOne DEF IInv
<1>7. Remote!Break(c)
    BY <1>3, <1>6 DEF Remote!Break, Status, Effect
<1>8. QED BY <1>5, <1>7 DEF Remote!Next

LEMMA AnsweredStep ==
    ASSUME IInv, NEW c \in Callers, Answered(c)
    PROVE  IInv' /\ Remote!Next
<1> DEFINE w == Pause(call[c].reply)
           o == IF call[c].reply.kind = "data" THEN "answered" ELSE "broken"
<1>1. /\ call[c].pc = "served" /\ call[c].reply.kind \in {"data", "empty"}
      /\ Await(c, "pausing", w, o) /\ UNCHANGED <<bucket, paced>>
    BY DEF Answered
<1>2. w \in Nat /\ o \in {"answered", "broken"}
    BY PauseTyped DEF IInv, TypeOK, Call
<1>3. call[c].outcome = "asked" /\ call[c].effect = 1
    BY <1>1 DEF IInv, Phases, Phase
<1>4. c \in paced => bucket + w >= Threshold
    BY <1>1 DEF IInv, Budgeted, Due
<1> HIDE DEF w, o
<1>5. /\ call' \in [Callers -> Call] /\ \A d \in Callers \ {c} : call'[d] = call[d]
      /\ call'[c].pc = "pausing" /\ call'[c].wait = w /\ call'[c].outcome = o
      /\ call'[c].effect = call[c].effect
    BY <1>1, <1>2, AwaitTyped DEF IInv
<1>6. Phase(c)'
    BY <1>2, <1>5 DEF Phase
<1>7. c \in paced' => bucket + Due(c)' >= Threshold
    BY <1>1, <1>4, <1>5 DEF Due
<1>8. IInv'
    BY <1>1, <1>5, <1>6, <1>7, StepOfOne
<1>9. /\ Status' = [Status EXCEPT ![c] = o]
      /\ Effect' = [Effect EXCEPT ![c] = call[c].effect]
    BY <1>5, RemoteOfOne DEF IInv
<1>10. Effect' = Effect
    BY <1>9 DEF Effect
<1>11. Remote!Answer(c) \/ Remote!Break(c)
    BY <1>2, <1>3, <1>9, <1>10 DEF Remote!Answer, Remote!Break, Status, Effect
<1>12. QED BY <1>8, <1>11 DEF Remote!Next

LEMMA WakeUpStep ==
    ASSUME IInv, NEW c \in Callers, WakeUp(c)
    PROVE  IInv' /\ UNCHANGED <<Status, Effect>>
<1>1. /\ call[c].pc \in {"waiting", "pausing"} /\ bucket' = bucket
      /\ paced' = IF call[c].wait = 0 THEN paced ELSE paced \ {c}
    BY DEF WakeUp
<1>2. c \in paced' => bucket + 0 >= Threshold
    BY <1>1 DEF IInv, Budgeted, Due
<1>3. CASE call[c].pc = "waiting"
  <2>1. call' = [call EXCEPT ![c].pc = "ready", ![c].wait = 0, ![c].attempt = @ + 1]
      BY <1>3 DEF WakeUp
  <2>2. /\ call' \in [Callers -> Call] /\ \A d \in Callers \ {c} : call'[d] = call[d]
        /\ call'[c].pc = "ready"
        /\ call'[c].outcome = call[c].outcome /\ call'[c].effect = call[c].effect
      BY <1>3, <2>1, WakeTyped
  <2>3. Phase(c)'
      BY <1>3, <2>2 DEF IInv, Phases, Phase
  <2>4. Due(c)' = 0
      BY <2>2 DEF Due
  <2>5. QED BY <1>1, <1>2, <2>2, <2>3, <2>4, StepOfOne, RemoteStutters DEF IInv
<1>4. CASE call[c].pc = "pausing"
  <2>1. call[c].outcome \in {"none", "answered", "broken"}
      BY <1>4 DEF IInv, TypeOK, Call, Phases, Phase
  <2>2. Return(c, call[c].outcome)
      BY <1>4 DEF WakeUp
  <2>3. /\ call' \in [Callers -> Call] /\ \A d \in Callers \ {c} : call'[d] = call[d]
        /\ call'[c].pc = "idle"
        /\ call'[c].outcome = call[c].outcome /\ call'[c].effect = call[c].effect
      BY <2>1, <2>2, ReturnTyped DEF IInv
  <2>4. Phase(c)'
      BY <2>1, <2>3 DEF Phase
  <2>5. Due(c)' = 0
      BY <2>3 DEF Due
  <2>6. QED BY <1>1, <1>2, <2>3, <2>4, <2>5, StepOfOne, RemoteStutters DEF IInv
<1>5. QED BY <1>1, <1>3, <1>4

LEMMA ContextEndsStep ==
    ASSUME IInv, NEW c \in Callers, ContextEnds(c)
    PROVE  IInv' /\ UNCHANGED <<Status, Effect>>
<1>1. /\ call' \in [Callers -> Call] /\ \A d \in Callers \ {c} : call'[d] = call[d]
      /\ call'[c].pc = call[c].pc /\ call'[c].wait = call[c].wait
      /\ call'[c].reply = call[c].reply /\ call'[c].attempt = call[c].attempt
      /\ call'[c].outcome = call[c].outcome /\ call'[c].effect = call[c].effect
    BY ContextTyped DEF IInv
<1>2. UNCHANGED <<bucket, paced>>
    BY DEF ContextEnds
<1>3. Phase(c)'
    BY <1>1 DEF IInv, Phases, Phase
<1>4. Due(c)' = Due(c)
    BY <1>1 DEF Due
<1>5. QED BY <1>1, <1>2, <1>3, <1>4, StepOfOne, RemoteStutters DEF IInv, Budgeted

LEMMA TickStep ==
    ASSUME IInv, Tick
    PROVE  IInv' /\ UNCHANGED <<Status, Effect>>
<1>1. /\ call' \in [Callers -> Call]
      /\ bucket' \in 0..Capacity
      /\ \A d \in Callers :
           /\ call'[d].pc = call[d].pc /\ call'[d].attempt = call[d].attempt
           /\ call'[d].reply = call[d].reply
           /\ call'[d].outcome = call[d].outcome /\ call'[d].effect = call[d].effect
           /\ call'[d].wait = IF call[d].wait > 0 THEN call[d].wait - 1 ELSE 0
    BY TickTyped DEF IInv
<1>2. paced' = paced
    BY DEF Tick
<1>3. TypeOK'
    BY <1>1, <1>2 DEF IInv, TypeOK
<1>4. Phases'
    BY <1>1 DEF IInv, Phases, Phase
<1>5. ASSUME NEW c \in paced PROVE bucket' + Due(c)' >= Threshold
  <2>1. bucket + Due(c) >= Threshold /\ c \in Callers
      BY <1>5 DEF IInv, Budgeted, TypeOK
  <2>2. Due(c) \in Nat
      BY <2>1, PauseTyped DEF IInv, TypeOK, Call, Due
  <2>3. Due(c)' = Due(c) \/ Due(c)' = IF Due(c) > 0 THEN Due(c) - 1 ELSE 0
      BY <1>1, <2>1 DEF Due
  <2>4. bucket \in 0..Capacity /\ bucket' = IF bucket < Capacity THEN bucket + 1 ELSE bucket
      BY DEF IInv, TypeOK, Tick
  <2>5. Due(c)' \in Nat /\ Due(c)' >= Due(c) - 1
      BY <2>2, <2>3
  <2>6. CASE bucket < Capacity
      BY <2>1, <2>2, <2>4, <2>5, <2>6, BucketAssumption
  <2>7. CASE bucket = Capacity
      BY <2>4, <2>5, <2>7, BucketAssumption
  <2>8. QED BY <2>4, <2>6, <2>7, BucketAssumption
<1>6. Budgeted'
    BY <1>2, <1>5 DEF Budgeted
<1>7. UNCHANGED <<Status, Effect>>
    BY <1>1 DEF Status, Effect
<1>8. QED BY <1>3, <1>4, <1>6, <1>7 DEF IInv

-----------------------------------------------------------------------------
LEMMA NextStep ==
    ASSUME IInv, Next
    PROVE  IInv' /\ (Remote!Next \/ UNCHANGED <<Status, Effect>>)
<1>1. ASSUME NEW c \in Callers, NEW k \in Costs, Begin(c, k)
      PROVE  IInv' /\ (Remote!Next \/ UNCHANGED <<Status, Effect>>)
    BY <1>1, BeginStep
<1>2. ASSUME NEW c \in Callers, Graphql(c)
      PROVE  IInv' /\ (Remote!Next \/ UNCHANGED <<Status, Effect>>)
    BY <1>2, SendStep, NotSentStep, RetryStep, GiveUpStep, AnsweredStep, WakeUpStep DEF Graphql
<1>3. ASSUME NEW c \in Callers, Shopify(c)
      PROVE  IInv' /\ (Remote!Next \/ UNCHANGED <<Status, Effect>>)
    BY <1>3, CarriedOutStep, ThrottledStep, RefusedStep DEF Shopify
<1>4. ASSUME NEW c \in Callers, ContextEnds(c)
      PROVE  IInv' /\ (Remote!Next \/ UNCHANGED <<Status, Effect>>)
    BY <1>4, ContextEndsStep
<1>5. CASE Tick
    BY <1>5, TickStep
<1>6. QED BY <1>1, <1>2, <1>3, <1>4, <1>5 DEF Next

LEMMA Stuttering ==
    ASSUME IInv, UNCHANGED vars
    PROVE  IInv' /\ UNCHANGED <<Status, Effect>>
<1>1. TypeOK'
    BY DEF IInv, TypeOK, vars
<1>2. Phases'
    BY DEF IInv, Phases, Phase, vars
<1>3. Budgeted'
    BY DEF IInv, Budgeted, Due, vars
<1>4. QED BY <1>1, <1>2, <1>3 DEF IInv, Status, Effect, vars

LEMMA Inductive == Spec => []IInv
<1>1. IInv /\ [Next]_vars => IInv'
    BY NextStep, Stuttering
<1>2. QED BY InitIInv, <1>1, PTL DEF Spec

\* Every variable keeps its type, however attempts, waits, refusals and ends of
\* contexts fall together; above all, no query is carried out twice.
THEOREM TypeCorrect == Spec => []TypeOK
BY Inductive, PTL DEF IInv

\* The pause is long enough: whoever waited it out, and whose store's budget
\* nobody else has drawn on since, sends the next query above the threshold.
THEOREM BudgetIsKept == Spec => []PacedHasBudget
<1>1. IInv => PacedHasBudget
    BY BucketAssumption DEF IInv, TypeOK, Budgeted, Due, PacedHasBudget
<1>2. QED BY Inductive, <1>1, PTL

\* The attempts, the waits and the budget of graphql are invisible to its
\* callers: each call is one of RemoteCall.
THEOREM Refinement == Spec => ImplementsRemoteCall
<1>1. Init => Remote!Init
    BY DEF Init, Remote!Init, NoCall
<1>2. IInv /\ [Next]_vars => [Remote!Next]_(Remote!vars)
    BY NextStep, Stuttering DEF Remote!vars, Status, Effect
<1>3. QED BY <1>1, <1>2, Inductive, PTL DEF Spec, ImplementsRemoteCall, Remote!Spec

-----------------------------------------------------------------------------
(***************************************************************************)
(* What a caller of RemoteCall may rely on, for every implementation.      *)
(***************************************************************************)

\* A call that answers was carried out, exactly once: proved of RemoteCall, and
\* with the refinement it holds of graphql through every retry.
AnsweredIsDone == \A c \in Callers : call[c].outcome = "answered" => call[c].effect = 1

LEMMA AbstractAnswer ==
    Remote!Spec => [](\A c \in Callers : Status[c] = "answered" => Effect[c] = 1)
<1> DEFINE Done == \A c \in Callers : Status[c] = "answered" => Effect[c] = 1
<1>1. Remote!Init => Done
    BY DEF Remote!Init, Status, Effect
<1>2. Done /\ [Remote!Next]_(Remote!vars) => Done'
    <2> SUFFICES ASSUME Done, [Remote!Next]_(Remote!vars), NEW d \in Callers,
                        Status'[d] = "answered"
                 PROVE  Effect'[d] = 1
        OBVIOUS
    <2>1. Status = [c \in Callers |-> Status[c]] /\ Effect = [c \in Callers |-> Effect[c]]
        BY DEF Status, Effect
    <2>2. ASSUME NEW c \in Callers, Remote!Ask(c) PROVE Effect'[d] = 1
        <3>1. Status' = [Status EXCEPT ![c] = "asked"] /\ Effect' = [Effect EXCEPT ![c] = 0]
            BY <2>2 DEF Remote!Ask, Status, Effect
        <3>2. d # c
            BY <2>1, <3>1
        <3>3. QED BY <2>1, <3>1, <3>2
    <2>3. ASSUME NEW c \in Callers, Remote!CarryOut(c) PROVE Effect'[d] = 1
        <3>1. Status' = Status /\ Effect' = [Effect EXCEPT ![c] = 1]
            BY <2>3 DEF Remote!CarryOut, Status, Effect
        <3>2. QED BY <2>1, <3>1
    <2>4. ASSUME NEW c \in Callers, Remote!Answer(c) PROVE Effect'[d] = 1
        <3>1. /\ Status' = [Status EXCEPT ![c] = "answered"] /\ Effect' = Effect
              /\ Effect[c] = 1
            BY <2>4 DEF Remote!Answer, Status, Effect
        <3>2. QED BY <2>1, <3>1
    <2>5. ASSUME NEW c \in Callers, Remote!Break(c) PROVE Effect'[d] = 1
        <3>1. Status' = [Status EXCEPT ![c] = "broken"] /\ Effect' = Effect
            BY <2>5 DEF Remote!Break, Status, Effect
        <3>2. QED BY <2>1, <3>1
    <2>6. CASE UNCHANGED Remote!vars
        BY <2>6 DEF Remote!vars, Status, Effect
    <2>7. QED BY <2>2, <2>3, <2>4, <2>5, <2>6 DEF Remote!Next
<1>3. QED BY <1>1, <1>2, PTL DEF Remote!Spec

\* Whoever gets an answer from graphql knows that Shopify did what was asked,
\* once, however many attempts it took.
THEOREM AnswersAreTrue == Spec => []AnsweredIsDone
<1>1. (\A c \in Callers : Status[c] = "answered" => Effect[c] = 1) <=> AnsweredIsDone
    BY DEF Status, Effect, AnsweredIsDone
<1>2. QED BY Refinement, AbstractAnswer, <1>1, PTL DEF ImplementsRemoteCall

-----------------------------------------------------------------------------
(***************************************************************************)
(* The attempts.  429 and Throttled are counted together, and every step   *)
(* of a call uses up a part of an attempt.                                 *)
(***************************************************************************)
Rank(pc) == CASE pc = "ready" -> 3 [] pc = "sent" -> 2 [] pc = "served" -> 1 [] OTHER -> 0

\* The steps a call has left, besides the one in which it returns.
Remaining(c) == 4 * (MaxAttempts - call[c].attempt) + Rank(call[c].pc)

\* A call never has more steps left than its attempts allow.
AttemptsBound == \A c \in Callers : Remaining(c) \in 0..(4 * MaxAttempts + 3)

\* While a call lasts, the pause before its result included, each of its steps
\* leaves it fewer steps, nobody else's step gives it more, and a wait only gets
\* shorter: whatever mixture of 429 and Throttled Shopify answers, a call is over
\* after MaxAttempts + 1 requests.
AttemptsRunOut ==
    [][\A c \in Callers : call[c].pc # "idle" /\ call'[c].pc # "idle" =>
          IF call'[c].pc = call[c].pc
          THEN Remaining(c)' = Remaining(c) /\ call'[c].wait <= call[c].wait
          ELSE Remaining(c)' < Remaining(c)]_vars

Spends(c) == IF call'[c].pc = call[c].pc
             THEN Remaining(c)' = Remaining(c) /\ call'[c].wait <= call[c].wait
             ELSE Remaining(c)' < Remaining(c)

\* The step from one place to the next, within an attempt or to the next one.
LEMMA SpendsOne ==
    ASSUME TypeOK, TypeOK', NEW c \in Callers,
           \/ /\ call'[c].attempt = call[c].attempt
              /\ Rank(call'[c].pc) < Rank(call[c].pc)
           \/ /\ call'[c].attempt = call[c].attempt + 1
              /\ Rank(call'[c].pc) <= Rank(call[c].pc) + 3
    PROVE  Remaining(c)' < Remaining(c)
<1>1. PICK a, b, p, q : /\ a = call[c].attempt /\ b = call'[c].attempt
                        /\ p = Rank(call[c].pc) /\ q = Rank(call'[c].pc)
    OBVIOUS
<1>2. a \in Nat /\ b \in Nat /\ MaxAttempts \in Nat
    BY <1>1, AttemptsAssumption DEF TypeOK, Call
<1>3. p \in 0..3 /\ q \in 0..3
    BY <1>1 DEF Rank
<1>4. Remaining(c) = 4 * (MaxAttempts - a) + p
    BY <1>1 DEF Remaining
<1>5. Remaining(c)' = 4 * (MaxAttempts - b) + q
    BY <1>1 DEF Remaining
<1>6. (b = a /\ q < p) \/ (b = a + 1 /\ q <= p + 3)
    BY <1>1
<1>7. 4 * (MaxAttempts - b) + q < 4 * (MaxAttempts - a) + p
    BY <1>2, <1>3, <1>6
<1>8. QED BY <1>4, <1>5, <1>7

LEMMA StaysPut ==
    ASSUME NEW c \in Callers, call'[c].pc = call[c].pc, call'[c].attempt = call[c].attempt,
           call'[c].wait <= call[c].wait
    PROVE  Spends(c)
BY DEF Spends, Remaining

\* A step of the call's own, or Shopify's answer to it.
LEMMA OwnStepSpends ==
    ASSUME IInv, TypeOK', NEW c \in Callers, Graphql(c) \/ Shopify(c),
           call'[c].pc # "idle"
    PROVE  Spends(c)
<1>1. call[c] \in Call
    BY DEF IInv, TypeOK
<1>2. CASE Send(c)
    <2>1. call[c].pc = "ready" /\ call'[c].pc = "sent" /\ call'[c].attempt = call[c].attempt
        BY <1>2 DEF Send, IInv, TypeOK, Call
    <2>2. QED BY <2>1, SpendsOne DEF IInv, Rank, Spends
<1>3. CASE Shopify(c)
    <2>1. call[c].pc = "sent" /\ call'[c].pc = "served" /\ call'[c].attempt = call[c].attempt
        <3>1. ASSUME NEW kind \in {"data", "empty", "failed"}, NEW told \in BOOLEAN,
                     CarriedOut(c, kind, told)
              PROVE  /\ call[c].pc = "sent" /\ call'[c].pc = "served"
                     /\ call'[c].attempt = call[c].attempt
            BY <3>1 DEF CarriedOut, IInv, TypeOK, Call
        <3>2. ASSUME NEW r, Serve(c, r)
              PROVE  call'[c].pc = "served" /\ call'[c].attempt = call[c].attempt
            BY <3>2 DEF Serve, IInv, TypeOK, Call
        <3>3. QED BY <1>3, <3>1, <3>2 DEF Shopify, Throttled, Refused
    <2>2. QED BY <2>1, SpendsOne DEF IInv, Rank, Spends
<1>4. CASE Retry(c)
    <2>1. /\ call[c].pc = "served" /\ call'[c].pc = "waiting"
          /\ call'[c].attempt = call[c].attempt
        BY <1>4 DEF Retry, Await, IInv, TypeOK, Call
    <2>2. QED BY <2>1, SpendsOne DEF IInv, Rank, Spends
<1>5. CASE WakeUp(c)
    <2>1. call[c].pc = "waiting"
        <3>1. call[c].pc \in {"waiting", "pausing"}
            BY <1>5 DEF WakeUp
        <3>2. CASE call[c].pc = "pausing"
            <4>1. Return(c, call[c].outcome)
                BY <1>5, <3>2 DEF WakeUp
            <4>2. QED BY <4>1 DEF Return, NoCall, IInv, TypeOK, Call
        <3>3. QED BY <3>1, <3>2
    <2>2. call' = [call EXCEPT ![c].pc = "ready", ![c].wait = 0, ![c].attempt = @ + 1]
        BY <1>5, <2>1 DEF WakeUp
    <2>3. call'[c].pc = "ready" /\ call'[c].attempt = call[c].attempt + 1
        BY <1>1, <2>2 DEF IInv, TypeOK, Call
    <2>4. QED BY <2>1, <2>3, SpendsOne DEF IInv, Rank, Spends
<1>6. CASE NotSent(c) \/ GiveUp(c)
    <2>1. Return(c, "broken")
        BY <1>6 DEF NotSent, GiveUp
    <2>2. QED BY <2>1 DEF Return, NoCall, IInv, TypeOK, Call
<1>7. CASE Answered(c)
    <2>1. PICK o \in {"answered", "broken"} : Await(c, "pausing", Pause(call[c].reply), o)
        BY <1>7 DEF Answered
    <2>2. /\ call[c].pc = "served" /\ call'[c].pc = "pausing"
          /\ call'[c].attempt = call[c].attempt
        BY <1>1, <1>7, <2>1 DEF Answered, Await, IInv, TypeOK, Call
    <2>3. QED BY <2>2, SpendsOne DEF IInv, Rank, Spends
<1>8. QED BY <1>2, <1>3, <1>4, <1>5, <1>6, <1>7 DEF Graphql

\* Whoever else moves leaves the call where it is.
LEMMA OthersSpendNothing ==
    ASSUME IInv, NEW c \in Callers, NEW d \in Callers \ {c},
           (\E k \in Costs : Begin(d, k)) \/ Graphql(d) \/ Shopify(d) \/ ContextEnds(d)
    PROVE  call'[c] = call[c]
<1>1. ASSUME NEW v, call' = [call EXCEPT ![d] = v] PROVE call'[c] = call[c]
    BY <1>1 DEF IInv, TypeOK
<1>2. CASE \E k \in Costs : Begin(d, k)
    BY <1>1, <1>2 DEF Begin
<1>3. CASE Send(d) \/ Retry(d)
    BY <1>3, <1>1 DEF Send, Retry, Await, IInv, TypeOK, Call
<1>4. CASE NotSent(d) \/ GiveUp(d) \/ Answered(d)
    BY <1>1, <1>4 DEF NotSent, GiveUp, Answered, Return, Await
<1>5. CASE WakeUp(d)
    BY <1>5 DEF WakeUp, Return, IInv, TypeOK, Call
<1>6. CASE Shopify(d)
    BY <1>6 DEF Shopify, CarriedOut, Throttled, Refused, Serve, IInv, TypeOK, Call
<1>7. CASE ContextEnds(d)
    BY <1>7 DEF ContextEnds, IInv, TypeOK, Call
<1>8. QED BY <1>2, <1>3, <1>4, <1>5, <1>6, <1>7 DEF Graphql

LEMMA StepSpends ==
    ASSUME IInv, TypeOK', [Next]_vars, NEW c \in Callers,
           call[c].pc # "idle", call'[c].pc # "idle"
    PROVE  Spends(c)
<1>1. call[c].wait \in Nat
    BY DEF IInv, TypeOK, Call
<1>2. CASE call'[c] = call[c]
    BY <1>1, <1>2, StaysPut
<1>3. CASE Graphql(c) \/ Shopify(c)
    BY <1>3, OwnStepSpends
<1>4. ~ \E k \in Costs : Begin(c, k)
    BY DEF Begin
<1>5. CASE ContextEnds(c)
    <2>1. /\ call'[c].pc = call[c].pc /\ call'[c].wait = call[c].wait
          /\ call'[c].attempt = call[c].attempt
        BY <1>5, ContextTyped DEF IInv
    <2>2. QED BY <1>1, <2>1, StaysPut
<1>6. CASE Tick
    <2>1. /\ call'[c].pc = call[c].pc /\ call'[c].attempt = call[c].attempt
          /\ call'[c].wait = IF call[c].wait > 0 THEN call[c].wait - 1 ELSE 0
        BY <1>6, TickTyped DEF IInv
    <2>2. call'[c].wait <= call[c].wait
        BY <1>1, <2>1
    <2>3. QED BY <2>1, <2>2, StaysPut
<1>7. CASE UNCHANGED vars
    BY <1>2, <1>7 DEF vars
<1>8. QED BY <1>2, <1>3, <1>4, <1>5, <1>6, <1>7, OthersSpendNothing DEF Next

\* The safety half of CallsReturn: a call has only so many steps left, and each
\* of them uses one up, for every number of attempts and every choice of answers.
THEOREM AttemptsAreCounted == Spec => []AttemptsBound /\ AttemptsRunOut
<1>1. IInv => AttemptsBound
    <2> SUFFICES ASSUME IInv, NEW c \in Callers
                 PROVE  Remaining(c) \in 0..(4 * MaxAttempts + 3)
        BY DEF AttemptsBound
    <2>1. PICK a, p : a = call[c].attempt /\ p = Rank(call[c].pc)
        OBVIOUS
    <2>2. a \in 0..MaxAttempts /\ p \in 0..3 /\ MaxAttempts \in Nat
        BY <2>1, AttemptsAssumption DEF IInv, TypeOK, Call, Rank
    <2>3. QED BY <2>1, <2>2 DEF Remaining
<1>2. IInv /\ IInv' /\ [Next]_vars =>
        [\A c \in Callers : call[c].pc # "idle" /\ call'[c].pc # "idle" =>
            IF call'[c].pc = call[c].pc
            THEN Remaining(c)' = Remaining(c) /\ call'[c].wait <= call[c].wait
            ELSE Remaining(c)' < Remaining(c)]_vars
    BY StepSpends DEF IInv, Spends
<1>3. QED BY Inductive, <1>1, <1>2, PTL DEF Spec, AttemptsRunOut
=============================================================================
