------------------------- MODULE OutboxDrainProofs -------------------------
(***************************************************************************)
(* The safety of OutboxDrain, for any events, aggregates, processes, batch *)
(* size and number of faults.                                              *)
(***************************************************************************)
EXTENDS OutboxDrain, FiniteSetTheorems, TLAPS

(* What a drain publishes and has published is what it locked. *)
DrainShape ==
    \A d \in Drainers :
        /\ drain[d].todo \subseteq drain[d].rows
        /\ drain[d].done \subseteq drain[d].rows
        /\ drain[d].todo \cap drain[d].done = {}

(* SKIP LOCKED: a row is dispatched, orphaned, or in one drain at most.     *)
RowsApart ==
    /\ orphaned \cap dispatched = {}
    /\ \A d \in Drainers :
          /\ drain[d].rows \cap dispatched = {}
          /\ drain[d].rows \cap orphaned = {}
          /\ \A c \in Drainers \ {d} : drain[c].rows \cap drain[d].rows = {}

DoneIsPublished == \A d \in Drainers : \A e \in drain[d].done : copies[e] > 0

(* Until an event is published for good, every copy of it is a fault's.     *)
Settled(e) == e \in dispatched \/ \E d \in Drainers : e \in drain[d].done

CopiesOwed == \A e \in Events : ~Settled(e) => copies[e] <= faults

(* The rows of an order become visible oldest first, ... *)
VisibleClosed ==
    \A e \in visible, f \in Events : f < e /\ SameAggregate(e, f) => f \in visible

(* ... and nothing a drain still has to publish has an older sibling that   *)
(* is neither published nor in the same batch.                              *)
TodoFollows ==
    ~concurrent =>
        \A d \in Drainers : \A e \in drain[d].todo : \A f \in Events :
            f < e /\ SameAggregate(e, f) => copies[f] > 0 \/ f \in drain[d].todo

IInv ==
    /\ TypeOK /\ DrainShape /\ RowsApart
    /\ DoneIsPublished /\ DispatchedIsPublished
    /\ CopiesOwed /\ CopiesAreFaults
    /\ VisibleClosed /\ TodoFollows

-----------------------------------------------------------------------------
(* ORDER BY id LIMIT n takes, with a row, every older one of the query. *)
LEMMA OldestClosed ==
    ASSUME NEW rows, rows \subseteq Events, NEW e \in Oldest(rows), NEW f \in rows, f < e
    PROVE  f \in Oldest(rows)
<1> DEFINE Below(x) == {g \in rows : g < x}
<1>1. IsFiniteSet(rows) /\ rows \subseteq Nat BY FS_Subset, OutboxAssumption
<1>2. IsFiniteSet(Below(e)) BY <1>1, FS_Subset
<1>3. Below(f) \subseteq Below(e)
  <2>1. e \in Nat /\ f \in Nat BY <1>1 DEF Oldest
  <2> SUFFICES ASSUME NEW g \in rows, g < f PROVE g < e
    OBVIOUS
  <2> g \in Nat BY <1>1
  <2> QED BY <2>1
<1>4. IsFiniteSet(Below(f)) /\ Cardinality(Below(f)) <= Cardinality(Below(e))
  BY <1>2, <1>3, FS_Subset
<1>5. Cardinality(Below(f)) \in Nat /\ Cardinality(Below(e)) \in Nat
  BY <1>2, <1>4, FS_CardinalityType
<1>6. Cardinality(Below(e)) < Batch BY DEF Oldest
<1>7. Cardinality(Below(f)) < Batch BY <1>4, <1>5, <1>6, OutboxAssumption
<1> QED BY <1>7 DEF Oldest

LEMMA OldestSubset == ASSUME NEW rows PROVE Oldest(rows) \subseteq rows
BY DEF Oldest

LEMMA InitIInv == Init => IInv
<1> SUFFICES ASSUME Init PROVE IInv
  OBVIOUS
<1>1. TypeOK
  <2>1. NoDrain \in [rows : SUBSET visible, todo : SUBSET visible, done : SUBSET visible]
    BY DEF NoDrain
  <2>2. faults \in 0..MaxFaults BY OutboxAssumption DEF Init
  <2> QED BY <2>1, <2>2 DEF Init, TypeOK
<1>2. DrainShape /\ RowsApart /\ DoneIsPublished
  BY DEF Init, NoDrain, DrainShape, RowsApart, DoneIsPublished
<1>3. DispatchedIsPublished /\ CopiesOwed /\ CopiesAreFaults
  BY DEF Init, DispatchedIsPublished, CopiesOwed, CopiesAreFaults
<1>4. VisibleClosed BY DEF Init, VisibleClosed
<1>5. TodoFollows BY DEF Init, NoDrain, TodoFollows
<1> QED BY <1>1, <1>2, <1>3, <1>4, <1>5 DEF IInv

(* The row at the head of a batch is locked by that drain alone. *)
LEMMA HeadIsUnsettled ==
    ASSUME IInv, NEW d \in Drainers, NEW e \in Events, Head(d, e)
    PROVE  /\ e \in drain[d].rows /\ e \notin dispatched
           /\ ~Settled(e)
           /\ copies[e] \in Nat /\ copies[e] <= faults
<1>1. e \in drain[d].todo /\ e \in drain[d].rows BY DEF IInv, DrainShape, Head
<1>2. e \notin dispatched BY <1>1 DEF IInv, RowsApart
<1>3. ASSUME NEW c \in Drainers PROVE e \notin drain[c].done
  BY <1>1 DEF IInv, DrainShape, RowsApart
<1>4. ~Settled(e) BY <1>2, <1>3 DEF Settled
<1> QED BY <1>1, <1>2, <1>4 DEF IInv, TypeOK, CopiesOwed

-----------------------------------------------------------------------------
LEMMA InsertPreserves == ASSUME IInv, NEW e \in Events, InsertOutboxEvent(e) PROVE IInv'
<1> USE DEF IInv, InsertOutboxEvent
<1>1. TypeOK' BY DEF TypeOK
<1>2. (DrainShape /\ RowsApart /\ DoneIsPublished)'
  BY DEF DrainShape, RowsApart, DoneIsPublished
<1>3. (DispatchedIsPublished /\ CopiesOwed /\ CopiesAreFaults)'
  BY DEF DispatchedIsPublished, CopiesOwed, CopiesAreFaults, Settled
<1>4. VisibleClosed' BY DEF VisibleClosed, SameAggregate
<1>5. TodoFollows' BY DEF TodoFollows, SameAggregate
<1> QED BY <1>1, <1>2, <1>3, <1>4, <1>5

LEMMA ClaimPreserves == ASSUME IInv, NEW d \in Drainers, ClaimBatch(d) PROVE IInv'
<1> DEFINE pending == visible \ (dispatched \cup Locked)
           batch == Oldest(pending)
<1>1. batch \subseteq pending BY OldestSubset
<1>2. /\ drain[d] = NoDrain
      /\ drain' = [drain EXCEPT ![d] = [rows |-> batch, todo |-> batch, done |-> {}]]
      /\ concurrent' = (concurrent \/ Locked # {})
      /\ UNCHANGED <<visible, dispatched, copies, orphaned, faults>>
  BY DEF ClaimBatch, Claim
<1>3. pending \subseteq visible /\ pending \cap dispatched = {} /\ pending \cap orphaned = {}
  BY DEF Locked
<1>4. \A c \in Drainers : pending \cap drain[c].rows = {} BY DEF Locked
<1> HIDE DEF batch, pending
<1> USE DEF IInv
<1>a. /\ \A c \in Drainers \ {d} : drain'[c] = drain[c]
      /\ drain'[d] = [rows |-> batch, todo |-> batch, done |-> {}]
  BY <1>2 DEF TypeOK
<1>b. \A c \in Drainers : drain'[c].done = drain[c].done BY <1>2, <1>a DEF NoDrain
<1>5. TypeOK'
  <2>1. [rows |-> batch, todo |-> batch, done |-> {}]
          \in [rows : SUBSET visible, todo : SUBSET visible, done : SUBSET visible]
    BY <1>1, <1>3
  <2>2. drain' \in [Drainers -> [rows : SUBSET visible, todo : SUBSET visible,
                                done : SUBSET visible]]
    BY <1>2, <2>1 DEF TypeOK
  <2>3. concurrent' \in BOOLEAN BY <1>2 DEF TypeOK
  <2> QED BY <1>2, <2>2, <2>3 DEF TypeOK
<1>6. DrainShape' BY <1>a DEF DrainShape
<1>7. RowsApart' BY <1>1, <1>2, <1>3, <1>4, <1>a DEF RowsApart
<1>8. DoneIsPublished' BY <1>2, <1>b DEF DoneIsPublished
<1>9. (DispatchedIsPublished /\ CopiesAreFaults)'
  BY <1>2 DEF DispatchedIsPublished, CopiesAreFaults
<1>10. CopiesOwed' BY <1>2, <1>b DEF CopiesOwed, Settled
<1>11. VisibleClosed' BY <1>2 DEF VisibleClosed, SameAggregate
<1>12. TodoFollows'
  <2> SUFFICES ASSUME ~concurrent', NEW c \in Drainers, NEW e \in drain'[c].todo,
                      NEW f \in Events, f < e, SameAggregate(e, f)
               PROVE  copies[f] > 0 \/ f \in drain'[c].todo
    BY <1>2 DEF TodoFollows, SameAggregate
  <2>1. ~concurrent /\ Locked = {} BY <1>2
  <2>2. CASE c # d BY <1>a, <2>1, <2>2 DEF TodoFollows
  <2>3. CASE c = d
    <3>1. e \in batch BY <1>a, <2>3
    <3>2. f \in visible BY <1>1, <1>3, <3>1 DEF VisibleClosed
    <3>3. f \in dispatched \/ f \in pending BY <2>1, <3>2 DEF pending
    <3>4. ASSUME f \in pending PROVE f \in batch
      BY <1>3, <3>1, <3>4, OldestClosed DEF batch, TypeOK
    <3> QED BY <1>a, <2>3, <3>3, <3>4 DEF DispatchedIsPublished
  <2> QED BY <2>2, <2>3
<1> QED BY <1>5, <1>6, <1>7, <1>8, <1>9, <1>10, <1>11, <1>12

LEMMA PublishPreserves ==
    ASSUME IInv, NEW d \in Drainers, NEW e \in Events, Publish(d, e) PROVE IInv'
<1>1. Head(d, e) BY DEF Publish
<1>2. e \in drain[d].rows /\ e \notin dispatched /\ copies[e] \in Nat /\ copies[e] <= faults
  BY <1>1, HeadIsUnsettled
<1> USE DEF IInv
<1>3. /\ drain' = [drain EXCEPT ![d] = [rows |-> drain[d].rows, todo |-> drain[d].todo \ {e},
                                       done |-> drain[d].done \cup {e}]]
      /\ copies' = [copies EXCEPT ![e] = copies[e] + 1]
      /\ UNCHANGED <<visible, dispatched, orphaned, faults, concurrent>>
  BY DEF Publish
<1>4. /\ \A c \in Drainers \ {d} : drain'[c] = drain[c]
      /\ drain'[d] = [rows |-> drain[d].rows, todo |-> drain[d].todo \ {e},
                      done |-> drain[d].done \cup {e}]
  BY <1>3 DEF TypeOK
<1>5. /\ copies'[e] = copies[e] + 1 /\ \A f \in Events \ {e} : copies'[f] = copies[f]
      /\ copies' \in [Events -> Nat]
      /\ \A f \in Events : copies[f] > 0 => copies'[f] > 0
  BY <1>2, <1>3 DEF TypeOK
<1>6. TypeOK'
  <2>1. drain'[d] \in [rows : SUBSET visible, todo : SUBSET visible, done : SUBSET visible]
    BY <1>1, <1>4 DEF TypeOK, Head
  <2>2. drain' \in [Drainers -> [rows : SUBSET visible, todo : SUBSET visible,
                                done : SUBSET visible]]
    BY <1>3, <1>4, <2>1 DEF TypeOK
  <2> QED BY <1>3, <1>5, <2>2 DEF TypeOK
<1>7. DrainShape' BY <1>2, <1>4 DEF DrainShape
<1>8. RowsApart' BY <1>3, <1>4 DEF RowsApart
<1>t. \A c \in Drainers : drain[c].done \subseteq Events /\ drain[c].todo \subseteq Events
  BY DEF TypeOK
<1>9. DoneIsPublished' BY <1>2, <1>4, <1>5, <1>t DEF DoneIsPublished
<1>10. DispatchedIsPublished' BY <1>3, <1>5 DEF DispatchedIsPublished, TypeOK
<1>11. CopiesOwed'
  <2> SUFFICES ASSUME NEW f \in Events, ~Settled(f)' PROVE copies'[f] <= faults
    BY <1>3 DEF CopiesOwed
  <2>1. f # e BY <1>4 DEF Settled
  <2>2. ~Settled(f) BY <1>3, <1>4 DEF Settled
  <2> QED BY <1>5, <2>1, <2>2 DEF CopiesOwed
<1>12. CopiesAreFaults' BY <1>2, <1>3, <1>5 DEF CopiesAreFaults, TypeOK
<1>13. VisibleClosed' BY <1>3 DEF VisibleClosed, SameAggregate
<1>14. TodoFollows'
  <2> SUFFICES ASSUME ~concurrent, NEW c \in Drainers, NEW g \in drain'[c].todo,
                      NEW f \in Events, f < g, SameAggregate(g, f)
               PROVE  copies'[f] > 0 \/ f \in drain'[c].todo
    BY <1>3 DEF TodoFollows, SameAggregate
  <2>1. g \in drain[c].todo BY <1>4
  <2>2. copies[f] > 0 \/ f \in drain[c].todo BY <2>1 DEF TodoFollows
  <2>3. CASE f = e BY <1>2, <1>5, <2>3
  <2>4. CASE f # e BY <1>4, <1>5, <2>2, <2>4
  <2> QED BY <2>3, <2>4
<1> QED BY <1>6, <1>7, <1>8, <1>9, <1>10, <1>11, <1>12, <1>13, <1>14

(* The broker may have one more copy of a row at the head of a batch, which *)
(* is left as it is or given up, at the price of a fault.                   *)
LEMMA FaultPreserves ==
    ASSUME IInv, NEW d \in Drainers, NEW e \in Events, Head(d, e), NEW todo \in {{}, drain[d].todo},
           copies' \in {copies, [copies EXCEPT ![e] = copies[e] + 1]},
           drain' = [drain EXCEPT ![d] = [rows |-> drain[d].rows, todo |-> todo,
                                          done |-> drain[d].done]],
           faults < MaxFaults, faults' = faults + 1,
           UNCHANGED <<visible, dispatched, orphaned, concurrent>>
    PROVE  IInv'
<1>1. e \in drain[d].rows /\ e \notin dispatched /\ copies[e] \in Nat /\ copies[e] <= faults
  BY HeadIsUnsettled
<1> USE DEF IInv
<1>2. /\ \A c \in Drainers \ {d} : drain'[c] = drain[c]
      /\ drain'[d] = [rows |-> drain[d].rows, todo |-> todo, done |-> drain[d].done]
  BY DEF TypeOK
<1>3. \A c \in Drainers : drain'[c].rows = drain[c].rows /\ drain'[c].done = drain[c].done
  BY <1>2
<1>4. \A c \in Drainers : drain'[c].todo \in {{}, drain[c].todo} BY <1>2
<1>5. /\ copies' \in [Events -> Nat]
      /\ \A f \in Events : copies'[f] \in {copies[f], copies[f] + 1} /\ (f # e => copies'[f] = copies[f])
      /\ \A f \in Events : copies[f] > 0 => copies'[f] > 0
  BY <1>1 DEF TypeOK
<1>6. TypeOK'
  <2>1. drain'[d] \in [rows : SUBSET visible, todo : SUBSET visible, done : SUBSET visible]
    BY <1>2 DEF TypeOK
  <2>2. drain' \in [Drainers -> [rows : SUBSET visible, todo : SUBSET visible,
                                done : SUBSET visible]]
    BY <1>2, <2>1 DEF TypeOK
  <2>3. faults' \in 0..MaxFaults BY OutboxAssumption DEF TypeOK
  <2> QED BY <1>5, <2>2, <2>3 DEF TypeOK
<1>7. DrainShape' BY <1>3, <1>4 DEF DrainShape
<1>8. RowsApart' BY <1>3 DEF RowsApart
<1>9. DoneIsPublished'
  <2>1. \A c \in Drainers : drain[c].done \subseteq Events BY DEF TypeOK
  <2> QED BY <1>3, <1>5, <2>1 DEF DoneIsPublished
<1>10. DispatchedIsPublished' BY <1>5 DEF DispatchedIsPublished, TypeOK
<1>11. CopiesOwed'
  <2> SUFFICES ASSUME NEW f \in Events, ~Settled(f)' PROVE copies'[f] <= faults + 1
    BY DEF CopiesOwed
  <2>1. ~Settled(f) BY <1>3 DEF Settled
  <2>2. copies[f] <= faults /\ copies[f] \in Nat /\ faults \in Nat BY <2>1 DEF CopiesOwed, TypeOK
  <2> QED BY <1>5, <2>2
<1>12. CopiesAreFaults'
  <2> SUFFICES ASSUME NEW f \in Events PROVE copies'[f] <= 1 + (faults + 1)
    BY DEF CopiesAreFaults
  <2>1. copies[f] <= 1 + faults /\ copies[f] \in Nat /\ faults \in Nat
    BY DEF CopiesAreFaults, TypeOK
  <2> QED BY <1>5, <2>1
<1>13. VisibleClosed' BY DEF VisibleClosed, SameAggregate
<1>14. TodoFollows'
  <2> SUFFICES ASSUME ~concurrent, NEW c \in Drainers, NEW g \in drain'[c].todo,
                      NEW f \in Events, f < g, SameAggregate(g, f)
               PROVE  copies'[f] > 0 \/ f \in drain'[c].todo
    BY DEF TodoFollows, SameAggregate
  <2>1. drain'[c].todo = drain[c].todo BY <1>4
  <2>2. copies[f] > 0 \/ f \in drain[c].todo BY <2>1 DEF TodoFollows
  <2> QED BY <1>5, <2>1, <2>2
<1> QED BY <1>6, <1>7, <1>8, <1>9, <1>10, <1>11, <1>12, <1>13, <1>14

LEMMA PublishFailsPreserves ==
    ASSUME IInv, NEW d \in Drainers, NEW e \in Events, PublishFails(d, e) PROVE IInv'
<1>1. drain' = [drain EXCEPT ![d] = [rows |-> drain[d].rows, todo |-> {}, done |-> drain[d].done]]
  BY DEF PublishFails, Rejected
<1> QED BY <1>1, FaultPreserves DEF PublishFails, Rejected

LEMMA ConfirmLostPreserves ==
    ASSUME IInv, NEW d \in Drainers, NEW e \in Events, ConfirmLost(d, e) PROVE IInv'
<1>1. drain' = [drain EXCEPT ![d] = [rows |-> drain[d].rows, todo |-> drain[d].todo,
                                     done |-> drain[d].done]]
  <2> DEFINE same == [rows |-> drain[d].rows, todo |-> drain[d].todo, done |-> drain[d].done]
  <2>1. drain[d] = same BY DEF IInv, TypeOK
  <2>2. drain = [drain EXCEPT ![d] = drain[d]] BY DEF IInv, TypeOK
  <2> HIDE DEF same
  <2>3. drain' = [drain EXCEPT ![d] = same] BY <2>1, <2>2 DEF ConfirmLost
  <2> QED BY <2>3 DEF same
<1> QED BY <1>1, FaultPreserves DEF ConfirmLost

(* The end of a transaction: its rows are free again, or kept locked.       *)
LEMMA EndPreserves ==
    ASSUME IInv, NEW d \in Drainers, drain' = [drain EXCEPT ![d] = NoDrain],
           UNCHANGED <<visible, copies, concurrent>>,
           \/ /\ dispatched' = dispatched \cup drain[d].done
              /\ UNCHANGED <<orphaned, faults>>
           \/ /\ orphaned' \in {orphaned, orphaned \cup drain[d].rows}
              /\ faults < MaxFaults /\ faults' = faults + 1
              /\ UNCHANGED dispatched
    PROVE  IInv'
<1> USE DEF IInv
<1>1. /\ \A c \in Drainers \ {d} : drain'[c] = drain[c]
      /\ drain'[d] = NoDrain
  BY DEF TypeOK
<1>2. /\ NoDrain.rows = {} /\ NoDrain.todo = {} /\ NoDrain.done = {}
      /\ NoDrain \in [rows : SUBSET visible, todo : SUBSET visible, done : SUBSET visible]
  BY DEF NoDrain
<1>3. faults' \in 0..MaxFaults /\ faults <= faults' /\ faults \in Nat /\ faults' \in Nat
  BY OutboxAssumption DEF TypeOK
<1>4. drain[d].rows \subseteq visible /\ drain[d].done \subseteq drain[d].rows
  BY DEF TypeOK, DrainShape
<1>5. TypeOK'
  <2>1. drain' \in [Drainers -> [rows : SUBSET visible, todo : SUBSET visible,
                                done : SUBSET visible]]
    BY <1>2 DEF TypeOK
  <2> QED BY <1>3, <1>4, <2>1 DEF TypeOK
<1>6. DrainShape' BY <1>1, <1>2 DEF DrainShape
<1>7. RowsApart' BY <1>1, <1>2, <1>4 DEF RowsApart
<1>8. DoneIsPublished' BY <1>1, <1>2 DEF DoneIsPublished
<1>9. DispatchedIsPublished' BY DEF DispatchedIsPublished, DoneIsPublished
<1>10. CopiesAreFaults' BY <1>3 DEF CopiesAreFaults, TypeOK
<1>11. CopiesOwed'
  <2> SUFFICES ASSUME NEW e \in Events, ~Settled(e)' PROVE copies[e] <= faults'
    BY DEF CopiesOwed
  <2>1. CASE e \in drain[d].done
    <3>1. faults' = faults + 1 BY <2>1 DEF Settled
    <3> QED BY <1>3, <3>1 DEF CopiesAreFaults, TypeOK
  <2>2. CASE e \notin drain[d].done
    <3>1. ~Settled(e) BY <1>1, <2>2 DEF Settled
    <3> QED BY <1>3, <3>1 DEF CopiesOwed, TypeOK
  <2> QED BY <2>1, <2>2
<1>12. VisibleClosed' BY DEF VisibleClosed, SameAggregate
<1>13. TodoFollows' BY <1>1, <1>2 DEF TodoFollows, SameAggregate
<1> QED BY <1>5, <1>6, <1>7, <1>8, <1>9, <1>10, <1>11, <1>12, <1>13

LEMMA ReapPreserves == ASSUME IInv, ReapConnections PROVE IInv'
<1> USE DEF IInv, ReapConnections
<1>1. (TypeOK /\ DrainShape /\ RowsApart /\ DoneIsPublished)'
  BY DEF TypeOK, DrainShape, RowsApart, DoneIsPublished
<1>2. (DispatchedIsPublished /\ CopiesOwed /\ CopiesAreFaults)'
  BY DEF DispatchedIsPublished, CopiesOwed, CopiesAreFaults, Settled
<1>3. (VisibleClosed /\ TodoFollows)' BY DEF VisibleClosed, TodoFollows, SameAggregate
<1> QED BY <1>1, <1>2, <1>3

LEMMA NextPreserves == IInv /\ [Next]_vars => IInv'
<1> SUFFICES ASSUME IInv, [Next]_vars PROVE IInv'
  OBVIOUS
<1>1. CASE \E e \in Events : InsertOutboxEvent(e) BY <1>1, InsertPreserves
<1>2. CASE \E d \in Drainers : ClaimBatch(d) BY <1>2, ClaimPreserves
<1>3. CASE \E d \in Drainers : CommitDrain(d) BY <1>3, EndPreserves DEF CommitDrain, Commit
<1>4. CASE \E d \in Drainers : Rollback(d) BY <1>4, EndPreserves DEF Rollback
<1>5. CASE \E d \in Drainers : Crash(d) BY <1>5, EndPreserves DEF Crash
<1>6. CASE \E d \in Drainers, e \in Events : Publish(d, e) BY <1>6, PublishPreserves
<1>7. CASE \E d \in Drainers, e \in Events : PublishFails(d, e) BY <1>7, PublishFailsPreserves
<1>8. CASE \E d \in Drainers, e \in Events : ConfirmLost(d, e) BY <1>8, ConfirmLostPreserves
<1>9. CASE ReapConnections BY <1>9, ReapPreserves
<1>10. CASE UNCHANGED vars
  <2> USE <1>10 DEF vars, IInv
  <2>1. (TypeOK /\ DrainShape /\ RowsApart /\ DoneIsPublished)'
    BY DEF TypeOK, DrainShape, RowsApart, DoneIsPublished
  <2>2. (DispatchedIsPublished /\ CopiesOwed /\ CopiesAreFaults)'
    BY DEF DispatchedIsPublished, CopiesOwed, CopiesAreFaults, Settled
  <2>3. (VisibleClosed /\ TodoFollows)' BY DEF VisibleClosed, TodoFollows, SameAggregate
  <2> QED BY <2>1, <2>2, <2>3
<1> QED BY <1>1, <1>2, <1>3, <1>4, <1>5, <1>6, <1>7, <1>8, <1>9, <1>10 DEF Next

LEMMA Inductive == Spec => []IInv
BY InitIInv, NextPreserves, PTL DEF Spec

-----------------------------------------------------------------------------
(* Types: every drain holds committed rows only, for any number of processes. *)
THEOREM TypeCorrect == Spec => []TypeOK
BY Inductive, PTL DEF IInv

(* drainOutboxForRegion loses no event, whatever fails in whichever drain.   *)
THEOREM DispatchedAlwaysPublished == Spec => []DispatchedIsPublished
BY Inductive, PTL DEF IInv

(* However many drains run side by side, a further copy is a fault's: what   *)
(* the comment on SKIP LOCKED claims.                                        *)
THEOREM CopiesAlwaysFaults == Spec => []CopiesAreFaults
BY Inductive, PTL DEF IInv

(* A row marked as dispatched stays so, and is not published again.          *)
THEOREM AlwaysDispatchedForGood == Spec => DispatchedForGood
<1>1. ASSUME IInv, [Next]_vars, NEW e \in dispatched
      PROVE  e \in dispatched' /\ copies'[e] = copies[e]
  <2>1. CASE \E d \in Drainers, f \in Events :
               Publish(d, f) \/ PublishFails(d, f) \/ ConfirmLost(d, f)
    <3> PICK d \in Drainers, f \in Events :
               Publish(d, f) \/ PublishFails(d, f) \/ ConfirmLost(d, f)
      BY <2>1
    <3>1. Head(d, f) /\ UNCHANGED dispatched
      BY DEF Publish, PublishFails, Rejected, ConfirmLost
    <3>2. f # e BY <1>1, <3>1, HeadIsUnsettled
    <3> QED BY <1>1, <3>1, <3>2
          DEF Publish, PublishFails, Rejected, ConfirmLost, IInv, TypeOK
  <2>2. CASE UNCHANGED copies /\ dispatched \subseteq dispatched' BY <1>1, <2>2
  <2> QED BY <1>1, <2>1, <2>2
        DEF Next, vars, InsertOutboxEvent, ClaimBatch, Claim, CommitDrain, Commit, Rollback,
            Crash, ReapConnections
<1>2. IInv /\ [Next]_vars =>
        [\A e \in dispatched : e \in dispatched' /\ copies'[e] = copies[e]]_vars
  BY <1>1
<1> QED BY <1>2, Inductive, PTL DEF Spec, DispatchedForGood

(* As long as no two drains overlapped, the first copies of an order's events *)
(* come in the order in which the service wrote them.                         *)
THEOREM FirstCopiesAlwaysInOrder == Spec => FirstCopiesInOrder
<1>1. ASSUME IInv, [Next]_vars, NEW e \in Events, copies[e] = 0, copies'[e] > 0, ~concurrent,
             NEW f \in Events, f < e, SameAggregate(e, f)
      PROVE  copies[f] > 0
  <2>1. copies' # copies BY <1>1
  <2>2. PICK d \in Drainers, g \in Events :
               Publish(d, g) \/ PublishFails(d, g) \/ ConfirmLost(d, g)
    BY <1>1, <2>1 DEF Next, vars, InsertOutboxEvent, ClaimBatch, Claim, CommitDrain, Commit,
                      Rollback, Crash, ReapConnections
  <2>3. Head(d, g) BY <2>2 DEF Publish, PublishFails, Rejected, ConfirmLost
  <2>4. g = e
    BY <1>1, <2>2 DEF Publish, PublishFails, Rejected, ConfirmLost, IInv, TypeOK
  <2>5. copies[f] > 0 \/ f \in drain[d].todo BY <1>1, <2>3, <2>4 DEF IInv, TodoFollows, Head
  <2>6. e \in Nat /\ f \in Nat BY OutboxAssumption
  <2> QED BY <1>1, <2>3, <2>4, <2>5, <2>6 DEF Head
<1>2. IInv /\ [Next]_vars =>
        [\A e \in Events : copies[e] = 0 /\ copies'[e] > 0 /\ ~concurrent =>
            \A f \in Events : f < e /\ SameAggregate(e, f) => copies[f] > 0]_vars
  BY <1>1
<1> QED BY <1>2, Inductive, PTL DEF Spec, FirstCopiesInOrder
=============================================================================
