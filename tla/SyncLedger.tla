----------------------------- MODULE SyncLedger -----------------------------
(***************************************************************************)
(* What the history of a store's syncs promises to whoever reads it,       *)
(* without the feed, the bulk operation, the batches, the transactions and *)
(* the failures that SyncRun has.                                          *)
(*                                                                         *)
(* A run is on record before it touches the store.  It succeeds after all  *)
(* it does to the store, with a log that lists exactly that, for good.  Or *)
(* it stops: then it has no log, and of all it still wanted to do at most  *)
(* one batch, which it had sent, reaches the store, at any time.  A run    *)
(* that stopped is on record as failed, or stays open for ever, and then   *)
(* nothing is claimed.                                                     *)
(***************************************************************************)
EXTENDS Sequences, Integers

VARIABLES history,  \* by run id: how the run stands, and its log
          done,     \* by run id: the updates the store has seen from it
          active,   \* runs that still work on the store
          due       \* runs that stopped and have a batch under way

vars == <<history, done, active, due>>

\* What the log says of an update.
Line(u) == [sku |-> u.item.sku, before |-> u.item.quantity, after |-> u.new]

\* The log lists these updates and nothing else.
Lists(log, updates) == {log[n] : n \in 1..Len(log)} = {Line(u) : u \in updates}

Init == history = <<>> /\ done = <<>> /\ active = {} /\ due = {}

\* A run is recorded; if its caller does not learn of it, it never works.
Begin == /\ history' = Append(history, [state |-> "open", log |-> <<>>])
         /\ done' = Append(done, {})
         /\ active' \in {active, active \cup {Len(history) + 1}}
         /\ UNCHANGED due

\* What a run does to the store is never undone.
Grows(r) == /\ done[r] \subseteq done'[r]
            /\ done' = [done EXCEPT ![r] = done'[r]]

Touch(r) == /\ r \in active
            /\ Grows(r)
            /\ UNCHANGED <<history, active, due>>

\* Runs stop, some of them with a batch under way.
Stop == /\ active' \subseteq active
        /\ due \subseteq due' /\ due' \ due \subseteq active \ active'
        /\ UNCHANGED <<history, done>>

Arrive(r) == /\ r \in due
             /\ Grows(r)
             /\ due' = due \ {r}
             /\ UNCHANGED <<history, active>>

Succeed(r) == /\ r \in active /\ history[r].state = "open"
              /\ history'[r].state = "succeeded" /\ Lists(history'[r].log, done[r])
              /\ history' = [history EXCEPT ![r] = history'[r]]
              /\ active' = active \ {r}
              /\ UNCHANGED <<done, due>>

Fail(r) == /\ r \notin active /\ history[r].state = "open"
           /\ history'[r].state = "failed" /\ history'[r].log = <<>>
           /\ history' = [history EXCEPT ![r] = history'[r]]
           /\ UNCHANGED <<done, active, due>>

Next == \/ Begin \/ Stop
        \/ \E r \in 1..Len(history) : Touch(r) \/ Arrive(r) \/ Succeed(r) \/ Fail(r)

Spec == Init /\ [][Next]_vars
=============================================================================
