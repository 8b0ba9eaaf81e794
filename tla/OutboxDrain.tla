---------------------------- MODULE OutboxDrain ----------------------------
(***************************************************************************)
(* The transactional outbox: rows written by the services' transactions,   *)
(* drained to RabbitMQ by drainOutboxForRegion of outbox-drain.ts, a cron  *)
(* job of every worker process, over claimBatch, markDispatchedBatch and   *)
(* markFailed of outbox.repo.ts.                                           *)
(*                                                                         *)
(* A drain is one transaction that stays open while it publishes: its rows *)
(* are locked until it ends, and other drains skip them.  What it has      *)
(* published is not undone when it rolls back.  A process that dies leaves *)
(* its rows locked until the server notices.  The columns attempts and     *)
(* last_error are read by nothing and left out.                            *)
(*                                                                         *)
(* The rows of one aggregate become visible in the order of their ids: the *)
(* writers of an order insert them after they locked its row.  Between     *)
(* aggregates they may not.                                                *)
(***************************************************************************)
EXTENDS Naturals, FiniteSets

CONSTANTS
    Events,       \* events_outbox.id of the rows that will be written
    AggregateOf,  \* the order a row is about
    Drainers,     \* worker processes
    Batch,        \* OUTBOUND_EVENTS_BATCH_SIZE
    MaxFaults     \* bound: failures, rollbacks and crashes in a behaviour

ASSUME OutboxAssumption ==
    /\ Events \subseteq Nat /\ IsFiniteSet(Events)
    /\ Batch \in Nat \ {0}
    /\ MaxFaults \in Nat

VARIABLES
    visible,     \* committed rows
    dispatched,  \* rows with dispatched_at
    copies,      \* copies of each event the broker has accepted
    drain,       \* the open transaction of each process
    orphaned,    \* rows locked by a transaction whose process died
    faults,      \* failures so far
    concurrent   \* history: a batch was claimed while another one was locked

vars == <<visible, dispatched, copies, drain, orphaned, faults, concurrent>>

(* The rows a drain locked, those it has still to publish, those it has.   *)
NoDrain == [rows |-> {}, todo |-> {}, done |-> {}]

Init ==
    /\ visible = {} /\ dispatched = {} /\ orphaned = {}
    /\ copies = [e \in Events |-> 0]
    /\ drain = [d \in Drainers |-> NoDrain]
    /\ faults = 0
    /\ concurrent = FALSE

SameAggregate(e, f) == AggregateOf[e] = AggregateOf[f]

(* insertOutboxEvent, at the commit of its transaction. *)
InsertOutboxEvent(e) ==
    /\ e \notin visible
    /\ \A f \in Events : f < e /\ SameAggregate(e, f) => f \in visible
    /\ visible' = visible \cup {e}
    /\ UNCHANGED <<dispatched, copies, drain, orphaned, faults, concurrent>>

-----------------------------------------------------------------------------
Locked == orphaned \cup UNION {drain[d].rows : d \in Drainers}

(* ORDER BY id LIMIT Batch *)
Oldest(rows) == {e \in rows : Cardinality({f \in rows : f < e}) < Batch}

Claim(d, pending) ==
    /\ drain[d] = NoDrain
    /\ pending # {}
    /\ drain' = [drain EXCEPT ![d] = [rows |-> Oldest(pending), todo |-> Oldest(pending),
                                      done |-> {}]]
    /\ concurrent' = (concurrent \/ Locked # {})
    /\ UNCHANGED <<visible, dispatched, copies, orphaned, faults>>

(* Mutant of ClaimBatch: no row locks. *)
ClaimUnlocked(d) == Claim(d, visible \ dispatched)

(* FOR UPDATE SKIP LOCKED, of the rows not yet dispatched.  An empty batch *)
(* commits at once.                                                        *)
ClaimBatch(d) == Claim(d, visible \ (dispatched \cup Locked))

(* The next row of the loop. *)
Head(d, e) == e \in drain[d].todo /\ \A f \in drain[d].todo : e <= f

Publish(d, e) ==
    /\ Head(d, e)
    /\ copies' = [copies EXCEPT ![e] = @ + 1]
    /\ drain' = [drain EXCEPT ![d] = [rows |-> @.rows, todo |-> @.todo \ {e},
                                      done |-> @.done \cup {e}]]
    /\ UNCHANGED <<visible, dispatched, orphaned, faults, concurrent>>

(* The promise of publish is rejected; the broker has the message, or not. *)
Rejected(d, e, todo) ==
    /\ Head(d, e) /\ faults < MaxFaults
    /\ copies' \in {copies, [copies EXCEPT ![e] = @ + 1]}
    /\ drain' = [drain EXCEPT ![d] = [rows |-> @.rows, todo |-> todo, done |-> @.done]]
    /\ faults' = faults + 1
    /\ UNCHANGED <<visible, dispatched, orphaned, concurrent>>

(* Mutant of PublishFails: the batch goes on behind the failed row. *)
PublishFailsAndContinues(d, e) == Rejected(d, e, drain[d].todo \ {e})

(* The row is marked as failed and the rest of the batch left. *)
PublishFails(d, e) == Rejected(d, e, {})

(* The connection breaks before the confirm: amqp-connection-manager keeps  *)
(* the promise open and sends the message again when it is connected.      *)
ConfirmLost(d, e) ==
    /\ Head(d, e) /\ faults < MaxFaults
    /\ copies' = [copies EXCEPT ![e] = @ + 1]
    /\ faults' = faults + 1
    /\ UNCHANGED <<visible, dispatched, drain, orphaned, concurrent>>

Commit(d, published) ==
    /\ drain[d] # NoDrain /\ drain[d].todo = {}
    /\ dispatched' = dispatched \cup published
    /\ drain' = [drain EXCEPT ![d] = NoDrain]
    /\ UNCHANGED <<visible, copies, orphaned, faults, concurrent>>

(* Mutants of CommitDrain: all that was claimed is marked; a batch that    *)
(* failed is left open.                                                    *)
CommitAllClaimed(d) == Commit(d, drain[d].rows)
CommitOnlyComplete(d) == drain[d].rows = drain[d].done /\ Commit(d, drain[d].done)

(* markDispatchedBatch and the commit. *)
CommitDrain(d) == Commit(d, drain[d].done)

(* A statement or the commit fails: the transaction is rolled back. *)
Rollback(d) ==
    /\ drain[d] # NoDrain /\ faults < MaxFaults
    /\ drain' = [drain EXCEPT ![d] = NoDrain]
    /\ faults' = faults + 1
    /\ UNCHANGED <<visible, dispatched, copies, orphaned, concurrent>>

(* The process dies; it is started again at once or later. *)
Crash(d) ==
    /\ drain[d] # NoDrain /\ faults < MaxFaults
    /\ orphaned' = orphaned \cup drain[d].rows
    /\ drain' = [drain EXCEPT ![d] = NoDrain]
    /\ faults' = faults + 1
    /\ UNCHANGED <<visible, dispatched, copies, concurrent>>

(* The server ends the transactions of the connections that are gone. *)
ReapConnections ==
    /\ orphaned # {}
    /\ orphaned' = {}
    /\ UNCHANGED <<visible, dispatched, copies, drain, faults, concurrent>>

Next ==
    \/ \E e \in Events : InsertOutboxEvent(e)
    \/ \E d \in Drainers : \/ ClaimBatch(d) \/ CommitDrain(d) \/ Rollback(d) \/ Crash(d)
                           \/ \E e \in Events : Publish(d, e) \/ PublishFails(d, e) \/ ConfirmLost(d, e)
    \/ ReapConnections

Spec == Init /\ [][Next]_vars

(* The job fires again and again, a drain goes on, and the server notices  *)
(* lost connections.  Faults end, by their bound: the broker comes back.   *)
Fairness ==
    /\ \A d \in Drainers : /\ WF_vars(ClaimBatch(d)) /\ WF_vars(CommitDrain(d))
                           /\ WF_vars(\E e \in Events : Publish(d, e))
    /\ WF_vars(ReapConnections)

FairSpec == Spec /\ Fairness

-----------------------------------------------------------------------------
(* Properties                                                              *)

TypeOK ==
    /\ visible \subseteq Events /\ dispatched \subseteq visible /\ orphaned \subseteq visible
    /\ copies \in [Events -> Nat]
    /\ drain \in [Drainers -> [rows : SUBSET visible, todo : SUBSET visible, done : SUBSET visible]]
    /\ faults \in 0..MaxFaults
    /\ concurrent \in BOOLEAN

(* No event is lost: what is marked as dispatched has reached the broker,  *)
(* whichever drain of the batch failed, was rolled back or died.           *)
DispatchedIsPublished == \A e \in dispatched : copies[e] > 0

(* outbox-drain.ts:14, "SKIP LOCKED makes this safe to run concurrently":  *)
(* every copy of an event beyond its first is owed to a fault, never to    *)
(* two drains that publish it side by side.                                *)
CopiesAreFaults == \A e \in Events : copies[e] <= 1 + faults

(* What was marked as dispatched is never published again.                 *)
DispatchedForGood ==
    [][\A e \in dispatched : e \in dispatched' /\ copies'[e] = copies[e]]_vars

(* As long as no two drains overlapped, whatever failed: the first copy of *)
(* an event follows those of all older events of its order.  A consumer    *)
(* that drops duplicates sees order.placed before order.delivered.         *)
FirstCopiesInOrder ==
    [][\A e \in Events : copies[e] = 0 /\ copies'[e] > 0 /\ ~concurrent =>
          \A f \in Events : f < e /\ SameAggregate(e, f) => copies[f] > 0]_vars

(* Every committed event is dispatched at last, once faults are over.      *)
VisibleIsDispatched == \A e \in Events : e \in visible ~> e \in dispatched
=============================================================================
