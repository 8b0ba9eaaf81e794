--------------------------- MODULE ClusterProofs ---------------------------
(***************************************************************************)
(* Theorems about the orders in the hot and the archive cluster: the       *)
(* safety of Archival, which moves them, for any orders, processes, batch  *)
(* size, and any number of updates and faults; and, in the second half,    *)
(* the safety of Pagination, which lists them, for any orders, page sizes  *)
(* and precision of created_at.                                            *)
(***************************************************************************)
EXTENDS Archival, Pagination, FiniteSetTheorems, WellFoundedInduction,
        SequenceTheorems, TLAPS

(* What is stamped with last year's date: an order has its items with it.  *)
YearShape ==
    \A o \in Orders : Row("orders", o) \in lastYear => Row("order_items", o) \in lastYear

(* No copy is behind the last update, unless the update came after it was  *)
(* read.                                                                   *)
CopiesAreLatest ==
    \A r \in Rows \ touched :
        /\ archive[r] # Absent => archive[r] = latest[r]
        /\ \A p \in Procs : mover[p].copy[r] # Absent => mover[p].copy[r] = latest[r]

(* What a run is about to delete is in the archive.                        *)
BatchIsArchived ==
    \A p \in Procs : mover[p].at = "delete" =>
        \A r \in InBatch(mover[p]) : archive[r] # Absent

(* A batch is of one table, and a short one leaves nothing of it behind.   *)
BatchShape ==
    \A p \in Procs :
        /\ InBatch(mover[p]) \subseteq lastYear
        /\ \A r \in InBatch(mover[p]) : r.table = TableSpecs[mover[p].spec]
        /\ mover[p].at \in {"insert", "delete"} /\ Cardinality(InBatch(mover[p])) < Batch
             => Due(p) \subseteq InBatch(mover[p])

(* A run that has come to the orders has left no item of them behind.      *)
ItemsMoved ==
    \A p \in Procs : mover[p].spec = 3 =>
        \A o \in Orders : Row("order_items", o) \in lastYear => hot[Row("order_items", o)] = Absent

(* Whoever moves rows holds the lock.                                      *)
LockHeld == ~overrun => \A p \in Procs : mover[p].at # "idle" => lock = {p}

(* What the lookup has seen is still so.                                   *)
LookupKnows ==
    /\ reader.at \in {"missed", "found"} => reader.order \in Orders
    /\ reader.at = "missed" => hot[Row("orders", reader.order)] = Absent
    /\ reader.at = "found" /\ reader.conn = "archive" => archive[Row("orders", reader.order)] # Absent

IInv ==
    /\ TypeOK /\ YearShape
    /\ NothingLost /\ CopiesAreLatest /\ BatchIsArchived
    /\ BatchShape /\ ItemsMoved /\ ArchivedOrderHasItems
    /\ LockHeld /\ LookupKnows /\ LookupFinds

-----------------------------------------------------------------------------
(* The tables, in the order of a run, and the last of them.                *)
LEMMA TableFacts ==
    /\ TableSpecs[1] = "transactions"
    /\ TableSpecs[2] = "order_items"
    /\ TableSpecs[3] = "orders"
    /\ Cardinality(Tables) = 3
<1>1. IsFiniteSet({"transactions"}) /\ Cardinality({"transactions"}) = 1
    BY FS_Singleton
<1>2. /\ IsFiniteSet({"transactions", "order_items"})
      /\ Cardinality({"transactions", "order_items"}) = 2
    <2>1. {"transactions", "order_items"} = {"transactions"} \cup {"order_items"}
        OBVIOUS
    <2>2. "order_items" \notin {"transactions"}
        OBVIOUS
    <2> QED BY <1>1, <2>1, <2>2, FS_AddElement
<1>3. Cardinality(Tables) = 3
    <2>1. Tables = {"transactions", "order_items"} \cup {"orders"}
        BY DEF Tables
    <2>2. "orders" \notin {"transactions", "order_items"}
        OBVIOUS
    <2> QED BY <1>2, <2>1, <2>2, FS_AddElement
<1> QED BY <1>3 DEF TableSpecs

(* ORDER BY id LIMIT Batch: a batch that is not full is all there was.     *)
LEMMA ShortBatchIsAll ==
    ASSUME NEW due, due \subseteq Rows,
           \A r, s \in due : r.table = s.table,
           Cardinality(Lowest(due)) < Batch
    PROVE  due \subseteq Lowest(due)
<1>1. IsFiniteSet(due)
    <2> DEFINE f == [r \in due |-> r.order]
    <2>1. f \in Injection(due, Orders)
        <3>1. f \in [due -> Orders]
            BY DEF Rows
        <3>2. \A r, s \in due : f[r] = f[s] => r = s
            BY DEF Rows
        <3> QED BY <3>1, <3>2 DEF Injection, IsInjective
    <2>2. IsFiniteSet(Orders)
        BY ArchivalAssumption
    <2> QED BY <2>1, <2>2, FS_Injection
<1>2. IsFiniteSet(Lowest(due)) /\ Cardinality(Lowest(due)) \in Nat
    BY <1>1, FS_Subset, FS_CardinalityType DEF Lowest
<1> SUFFICES ASSUME due \ Lowest(due) # {} PROVE FALSE
    OBVIOUS
<1> DEFINE left == due \ Lowest(due)
           numbers == {r.order : r \in left}
<1>3. numbers \in SUBSET Nat /\ numbers # {}
    BY ArchivalAssumption DEF Rows
<1> HIDE DEF numbers
<1>4. PICK n \in numbers : \A m \in numbers : n <= m
    <2>1. PICK n \in numbers : \A m \in numbers : <<m, n>> \notin OpToRel(<, Nat)
        BY <1>3, NatLessThanWellFounded, WFMin, Zenon
    <2>2. \A m \in numbers : ~(m < n)
        BY <1>3, <2>1, Zenon DEF OpToRel
    <2> QED BY <1>3, <2>2
<1>5. PICK r \in left : r.order = n
    BY <1>4 DEF numbers
<1> DEFINE below == {s \in due : s.order < r.order}
<1>6. below \subseteq Lowest(due)
    <2> SUFFICES ASSUME NEW s \in due, s.order < r.order, s \in left PROVE FALSE
        OBVIOUS
    <2>1. s.order \in numbers
        BY DEF numbers
    <2>2. n <= s.order /\ s.order \in Nat /\ n \in Nat
        BY <2>1, <1>3, <1>4
    <2> QED BY <2>2, <1>5
<1>7. Cardinality(below) \in Nat /\ Cardinality(below) <= Cardinality(Lowest(due))
    BY <1>2, <1>6, FS_Subset, FS_CardinalityType
<1>8. Cardinality(below) < Batch
    BY <1>7, <1>2, ArchivalAssumption
<1>9. r \in Lowest(due)
    BY <1>5, <1>8 DEF Lowest
<1> QED BY <1>9, <1>5

-----------------------------------------------------------------------------
(* Typing.                                                                 *)
MoverType ==
    [at : {"idle", "select", "insert", "delete"}, spec : 1..3,
     copy : [Rows -> Versions], late : BOOLEAN]

LEMMA RowFacts == \A t \in Tables, o \in Orders : Row(t, o) \in Rows
BY DEF Row, Rows

LEMMA RunEndsType ==
    ASSUME TypeOK, NEW p \in Procs, RunEnds(p)
    PROVE  lock' \in SUBSET Procs /\ mover' \in [Procs -> MoverType]
BY DEF TypeOK, RunEnds, Idle, NoBatch, MoverType, Versions

LEMMA NextTableType ==
    ASSUME TypeOK, NEW p \in Procs, NextTable(p)
    PROVE  lock' \in SUBSET Procs /\ mover' \in [Procs -> MoverType]
<1>1. CASE LastTable(p)
    BY <1>1, RunEndsType DEF NextTable
<1>2. CASE ~LastTable(p)
    <2>1. mover[p].spec + 1 \in 1..3
        BY <1>2, TableFacts DEF TypeOK, LastTable
    <2> QED BY <1>2, <2>1 DEF TypeOK, NextTable, NoBatch, MoverType, Versions
<1> QED BY <1>1, <1>2

LEMMA TypeStep == TypeOK /\ [Next]_vars => TypeOK'
<1> SUFFICES ASSUME TypeOK, [Next]_vars PROVE TypeOK'
    OBVIOUS
<1> USE ArchivalAssumption
<1>1. ASSUME NEW o \in Orders, LookFirst(o) PROVE TypeOK'
    BY <1>1 DEF TypeOK, LookFirst, Look, Answer, Versions
<1>2. ASSUME NEW r \in Rows, UpdateRow(r) PROVE TypeOK'
    <2>1. hot[r] \in Nat
        BY <1>2 DEF UpdateRow, TypeOK, Versions
    <2>2. hot' \in [Rows -> Versions] /\ latest' \in [Rows -> Nat]
        BY <1>2, <2>1 DEF UpdateRow, TypeOK, Versions
    <2>3. touched' \subseteq Rows
        BY <1>2 DEF UpdateRow, TypeOK
    <2>4. updates' \in 0..MaxUpdates
        BY <1>2 DEF UpdateRow, TypeOK
    <2> QED BY <1>2, <2>2, <2>3, <2>4 DEF UpdateRow, TypeOK, Versions
<1>3. ASSUME NEW p \in Procs, RunStarts(p) PROVE TypeOK'
    BY <1>3 DEF RunStarts, TypeOK, NoBatch, Versions
<1>4. ASSUME NEW p \in Procs, SelectBatch(p) PROVE TypeOK'
    <2>1. [r \in Rows |-> IF r \in Lowest(Due(p)) THEN hot[r] ELSE Absent] \in [Rows -> Versions]
        BY DEF TypeOK, Versions
    <2> QED BY <1>4, <2>1 DEF SelectBatch, TypeOK
<1>5. ASSUME NEW p \in Procs, TableIsEmpty(p) PROVE TypeOK'
    BY <1>5, NextTableType DEF TableIsEmpty, TypeOK, MoverType
<1>6. ASSUME NEW p \in Procs, OutOfTime(p) \/ RunFails(p) PROVE TypeOK'
    BY <1>6, RunEndsType DEF OutOfTime, RunFails, TypeOK, MoverType
<1>7. ASSUME NEW p \in Procs, InsertArchive(p) PROVE TypeOK'
    BY <1>7 DEF InsertArchive, TypeOK, InBatch
<1>8. ASSUME NEW p \in Procs, DeleteHot(p) PROVE TypeOK'
    <2>1. lock' \in SUBSET Procs /\ mover' \in [Procs -> MoverType]
        <3>1. CASE Cardinality(InBatch(mover[p])) < Batch
            BY <1>8, <3>1, NextTableType DEF DeleteHot, DeleteRows
        <3>2. CASE ~(Cardinality(InBatch(mover[p])) < Batch)
            BY <1>8, <3>2 DEF DeleteHot, DeleteRows, TypeOK, NoBatch, MoverType, Versions
        <3> QED BY <3>1, <3>2
    <2>2. hot' \in [Rows -> Versions]
        BY <1>8 DEF DeleteHot, DeleteRows, TypeOK, Versions
    <2> QED BY <1>8, <2>1, <2>2 DEF DeleteHot, DeleteRows, TypeOK, MoverType
<1>9. ASSUME NEW p \in Procs, Crash(p) \/ DeadlinePasses(p) PROVE TypeOK'
    <2>1. mover' \in [Procs -> MoverType]
        <3>1. CASE Crash(p)
            BY <3>1 DEF Crash, TypeOK, Idle, NoBatch, MoverType, Versions
        <3>2. CASE DeadlinePasses(p)
            BY <3>2 DEF DeadlinePasses, TypeOK, MoverType
        <3> QED BY <1>9, <3>1, <3>2
    <2>2. faults' \in 0..MaxFaults
        BY <1>9 DEF Crash, DeadlinePasses, TypeOK
    <2> QED BY <1>9, <2>1, <2>2 DEF Crash, DeadlinePasses, TypeOK, MoverType, Versions
<1>12. ASSUME NEW p \in Procs, LockExpires(p) PROVE TypeOK'
    <2>1. overrun' \in BOOLEAN
        BY <1>12, Zenon DEF LockExpires
    <2> QED BY <1>12, <2>1 DEF LockExpires, TypeOK, Versions
<1>10. ASSUME LookAgain \/ LookForItems \/ ReaderLeaves PROVE TypeOK'
    BY <1>10 DEF TypeOK, LookAgain, LookForItems, ReaderLeaves, Look, Answer, Versions
<1>11. CASE UNCHANGED vars
    BY <1>11 DEF TypeOK, vars, Versions
<1> QED
    BY <1>1, <1>2, <1>3, <1>4, <1>5, <1>6, <1>7, <1>8, <1>9, <1>10, <1>11, <1>12
    DEF Next, MoverStep

-----------------------------------------------------------------------------
(* What a step may do to the rows and to a run.                            *)

(* Rows leave the hot database and stay in the archive.                    *)
LEMMA RowsStep ==
    ASSUME TypeOK, [Next]_vars
    PROVE  /\ lastYear' = lastYear
           /\ \A r \in Rows : hot[r] = Absent => hot'[r] = Absent
           /\ \A r \in Rows : archive[r] # Absent => archive'[r] # Absent
           /\ \/ \E r \in Rows : UpdateRow(r)
              \/ \E p \in Procs : InsertArchive(p)
              \/ \E p \in Procs : DeleteHot(p)
              \/ UNCHANGED <<hot, archive, latest, touched>>
<1>1. ASSUME NEW r \in Rows, UpdateRow(r)
      PROVE  /\ lastYear' = lastYear /\ archive' = archive
             /\ \A s \in Rows : hot[s] = Absent => hot'[s] = Absent
    BY <1>1 DEF UpdateRow, TypeOK
<1>2. ASSUME NEW p \in Procs, InsertArchive(p)
      PROVE  /\ lastYear' = lastYear /\ hot' = hot
             /\ \A s \in Rows : archive[s] # Absent => archive'[s] # Absent
    BY <1>2 DEF InsertArchive, TypeOK
<1>3. ASSUME NEW p \in Procs, DeleteHot(p)
      PROVE  /\ lastYear' = lastYear /\ archive' = archive
             /\ \A s \in Rows : hot[s] = Absent => hot'[s] = Absent
    BY <1>3 DEF DeleteHot, DeleteRows, TypeOK
<1>4. \/ \E r \in Rows : UpdateRow(r)
      \/ \E p \in Procs : InsertArchive(p)
      \/ \E p \in Procs : DeleteHot(p)
      \/ UNCHANGED <<lastYear, hot, archive, latest, touched>>
    BY DEF Next, MoverStep, LookFirst, LookAgain, LookForItems, ReaderLeaves, Look, Answer,
           RunStarts, SelectBatch, TableIsEmpty, OutOfTime, RunFails, Crash,
           DeadlinePasses, LockExpires, vars
<1> QED BY <1>1, <1>2, <1>3, <1>4

(* A run drops its batch, selects one, or keeps it as it is.               *)
LEMMA BatchStep ==
    ASSUME TypeOK, [Next]_vars, NEW p \in Procs
    PROVE  \/ mover'[p].copy = NoBatch /\ mover'[p].at \in {"idle", "select"}
           \/ SelectBatch(p)
           \/ /\ mover'[p].copy = mover[p].copy /\ mover'[p].spec = mover[p].spec
              /\ mover'[p].at = mover[p].at \/ InsertArchive(p)
<1> DEFINE Goal == \/ mover'[p].copy = NoBatch /\ mover'[p].at \in {"idle", "select"}
                   \/ SelectBatch(p)
                   \/ /\ mover'[p].copy = mover[p].copy /\ mover'[p].spec = mover[p].spec
                      /\ mover'[p].at = mover[p].at \/ InsertArchive(p)
<1>1. CASE UNCHANGED mover
    BY <1>1
<1>2. ASSUME NEW q \in Procs, RunStarts(q) PROVE Goal
    BY <1>2 DEF RunStarts, TypeOK
<1>3. ASSUME NEW q \in Procs, RunEnds(q) PROVE Goal
    BY <1>3 DEF RunEnds, Idle, TypeOK
<1>4. ASSUME NEW q \in Procs, NextTable(q) PROVE Goal
    BY <1>3, <1>4 DEF NextTable, TypeOK
<1>5. ASSUME NEW q \in Procs, SelectBatch(q) PROVE Goal
    BY <1>5 DEF SelectBatch, TypeOK
<1>6. ASSUME NEW q \in Procs, InsertArchive(q) PROVE Goal
    BY <1>6 DEF InsertArchive, TypeOK
<1>7. ASSUME NEW q \in Procs, DeleteHot(q) PROVE Goal
    <2>1. CASE Cardinality(InBatch(mover[q])) < Batch
        BY <1>7, <1>4, <2>1 DEF DeleteHot, DeleteRows
    <2>2. CASE ~(Cardinality(InBatch(mover[q])) < Batch)
        BY <1>7, <2>2 DEF DeleteHot, DeleteRows, TypeOK
    <2> QED BY <2>1, <2>2
<1>8. ASSUME NEW q \in Procs, Crash(q) \/ DeadlinePasses(q) PROVE Goal
    <2>1. CASE Crash(q)
        BY <2>1 DEF Crash, Idle, TypeOK
    <2>2. CASE DeadlinePasses(q)
        BY <2>2 DEF DeadlinePasses, TypeOK
    <2> QED BY <1>8, <2>1, <2>2
<1> QED
    BY <1>1, <1>2, <1>3, <1>4, <1>5, <1>6, <1>7, <1>8
    DEF Next, MoverStep, LookFirst, LookAgain, LookForItems, ReaderLeaves, Look, Answer, UpdateRow,
        TableIsEmpty, OutOfTime, RunFails, LockExpires, vars

(* A run comes to the orders when it is done with the items.               *)
LEMMA SpecStep ==
    ASSUME TypeOK, [Next]_vars, NEW p \in Procs, mover'[p].spec = 3
    PROVE  \/ mover[p].spec = 3
           \/ /\ mover[p].spec = 2
              /\ \/ Due(p) = {}
                 \/ DeleteHot(p) /\ Cardinality(InBatch(mover[p])) < Batch
<1>1. CASE UNCHANGED mover
    BY <1>1
<1>2. ASSUME NEW q \in Procs, RunStarts(q) PROVE mover'[p].spec = mover[p].spec \/ mover'[p].spec = 1
    BY <1>2 DEF RunStarts, TypeOK
<1>3. ASSUME NEW q \in Procs, RunEnds(q) PROVE mover'[p].spec = mover[p].spec \/ mover'[p].spec = 1
    BY <1>3 DEF RunEnds, Idle, TypeOK
<1>4. ASSUME NEW q \in Procs, NextTable(q)
      PROVE  mover'[p].spec = mover[p].spec \/ mover'[p].spec = 1 \/ (p = q /\ mover[p].spec = 2)
    <2> DEFINE following == [at |-> "select", spec |-> mover[q].spec + 1,
                             copy |-> NoBatch, late |-> mover[q].late]
    <2>1. RunEnds(q) \/ mover' = [mover EXCEPT ![q] = following]
        BY <1>4 DEF NextTable
    <2>2. CASE p # q /\ mover' = [mover EXCEPT ![q] = following]
        BY <2>2 DEF TypeOK
    <2>3. CASE p = q /\ mover' = [mover EXCEPT ![q] = following]
        <3>1. mover[q].spec \in 1..3
            BY DEF TypeOK
        <3>2. mover'[q].spec = mover[q].spec + 1
            BY <2>3 DEF TypeOK
        <3> QED BY <3>1, <3>2, <2>3
    <2> QED BY <1>3, <2>1, <2>2, <2>3
<1>5. ASSUME NEW q \in Procs, SelectBatch(q) \/ InsertArchive(q) \/ DeadlinePasses(q)
      PROVE  mover'[p].spec = mover[p].spec
    BY <1>5 DEF SelectBatch, InsertArchive, DeadlinePasses, TypeOK
<1>6. ASSUME NEW q \in Procs, TableIsEmpty(q)
      PROVE  mover'[p].spec = mover[p].spec \/ (mover[p].spec = 2 /\ Due(p) = {})
    BY <1>6, <1>4 DEF TableIsEmpty
<1>7. ASSUME NEW q \in Procs, DeleteHot(q)
      PROVE  \/ mover'[p].spec = mover[p].spec
             \/ mover[p].spec = 2 /\ DeleteHot(p) /\ Cardinality(InBatch(mover[p])) < Batch
    <2>1. CASE Cardinality(InBatch(mover[q])) < Batch
        BY <1>7, <1>4, <2>1 DEF DeleteHot, DeleteRows
    <2>2. CASE ~(Cardinality(InBatch(mover[q])) < Batch)
        BY <1>7, <2>2 DEF DeleteHot, DeleteRows, TypeOK
    <2> QED BY <2>1, <2>2
<1>8. ASSUME NEW q \in Procs, Crash(q) PROVE mover'[p].spec = mover[p].spec \/ mover'[p].spec = 1
    BY <1>8 DEF Crash, Idle, TypeOK
<1> QED
    BY <1>1, <1>2, <1>3, <1>5, <1>6, <1>7, <1>8
    DEF Next, MoverStep, LookFirst, LookAgain, LookForItems, ReaderLeaves, Look, Answer, UpdateRow,
        OutOfTime, RunFails, LockExpires, vars

-----------------------------------------------------------------------------
(* The rows: none is lost, and no copy is out of date.                     *)
LEMMA RowsKept ==
    ASSUME TypeOK, TypeOK', [Next]_vars, NothingLost, CopiesAreLatest, BatchIsArchived
    PROVE  NothingLost' /\ CopiesAreLatest' /\ BatchIsArchived'
<1>a. \A r \in Rows : (hot[r] # Absent => hot[r] \in Nat) /\ latest[r] \in Nat
    BY DEF TypeOK, Versions
<1>b. Absent \notin Nat
    BY ArchivalAssumption
<1>1. ASSUME NEW r \in Rows, UpdateRow(r)
      PROVE  NothingLost' /\ CopiesAreLatest' /\ BatchIsArchived'
    <2>1. /\ hot' = [hot EXCEPT ![r] = @ + 1] /\ latest' = [latest EXCEPT ![r] = hot[r] + 1]
          /\ hot[r] \in Nat /\ UNCHANGED <<archive, mover>>
          /\ touched \subseteq touched'
          /\ archive[r] # Absent => r \in touched'
          /\ \A p \in Procs : mover[p].copy[r] # Absent => r \in touched'
        BY <1>1, <1>a DEF UpdateRow, InBatch
    <2>2. /\ hot'[r] = hot[r] + 1 /\ latest'[r] = hot[r] + 1
          /\ \A s \in Rows \ {r} : hot'[s] = hot[s] /\ latest'[s] = latest[s]
        BY <2>1 DEF TypeOK
    <2>3. NothingLost'
        BY <2>1, <2>2, <1>b DEF NothingLost
    <2>4. CopiesAreLatest'
        BY <2>1, <2>2 DEF CopiesAreLatest
    <2>5. BatchIsArchived'
        BY <2>1 DEF BatchIsArchived, InBatch
    <2> QED BY <2>3, <2>4, <2>5
<1>2. ASSUME NEW q \in Procs, InsertArchive(q)
      PROVE  NothingLost' /\ CopiesAreLatest' /\ BatchIsArchived'
    <2>1. /\ UNCHANGED <<hot, latest, touched>>
          /\ \A r \in Rows : archive'[r] =
               IF mover[q].copy[r] # Absent /\ archive[r] = Absent
               THEN mover[q].copy[r] ELSE archive[r]
          /\ \A p \in Procs : mover'[p].copy = mover[p].copy
          /\ \A p \in Procs \ {q} : mover'[p].at = mover[p].at
        BY <1>2 DEF InsertArchive, InBatch, TypeOK
    <2>2. NothingLost'
        BY <2>1 DEF NothingLost, CopiesAreLatest
    <2>3. CopiesAreLatest'
        BY <2>1 DEF CopiesAreLatest
    <2>4. BatchIsArchived'
        BY <2>1 DEF BatchIsArchived, InBatch
    <2> QED BY <2>2, <2>3, <2>4
<1>3. ASSUME NEW q \in Procs, DeleteHot(q)
      PROVE  NothingLost' /\ CopiesAreLatest' /\ BatchIsArchived'
    <2>1. /\ UNCHANGED <<archive, latest, touched>> /\ mover[q].at = "delete"
          /\ \A r \in Rows : hot'[r] = IF mover[q].copy[r] # Absent THEN Absent ELSE hot[r]
        BY <1>3 DEF DeleteHot, DeleteRows, InBatch
    <2>2. \A p \in Procs :
             \/ mover'[p].copy = NoBatch
             \/ mover'[p].copy = mover[p].copy /\ mover'[p].at = mover[p].at
        <3>1. CASE RunEnds(q)
            BY <3>1 DEF RunEnds, Idle, TypeOK
        <3>2. CASE NextTable(q)
            <4> DEFINE following == [at |-> "select", spec |-> mover[q].spec + 1,
                                     copy |-> NoBatch, late |-> mover[q].late]
            <4>1. RunEnds(q) \/ mover' = [mover EXCEPT ![q] = following]
                BY <3>2 DEF NextTable
            <4>2. CASE mover' = [mover EXCEPT ![q] = following]
                BY <4>2 DEF TypeOK
            <4> QED BY <3>1, <4>1, <4>2
        <3>3. CASE mover' = [mover EXCEPT ![q] = [at |-> "select", spec |-> mover[q].spec,
                                                 copy |-> NoBatch, late |-> mover[q].late]]
            BY <3>3 DEF TypeOK
        <3> QED BY <1>3, <3>2, <3>3 DEF DeleteHot, DeleteRows
    <2>3. NothingLost'
        BY <2>1 DEF NothingLost, CopiesAreLatest, BatchIsArchived, InBatch
    <2>4. CopiesAreLatest'
        BY <2>1, <2>2 DEF CopiesAreLatest, NoBatch
    <2>5. BatchIsArchived'
        BY <2>1, <2>2 DEF BatchIsArchived, InBatch, NoBatch
    <2> QED BY <2>3, <2>4, <2>5
<1>4. ASSUME UNCHANGED <<hot, archive, latest, touched>>, ~\E p \in Procs : InsertArchive(p)
      PROVE  NothingLost' /\ CopiesAreLatest' /\ BatchIsArchived'
    <2>1. NothingLost'
        BY <1>4 DEF NothingLost
    <2>2. CopiesAreLatest'
        <3> SUFFICES ASSUME NEW p \in Procs, NEW r \in Rows, r \notin touched,
                            mover'[p].copy[r] # Absent
                     PROVE  mover'[p].copy[r] = latest[r]
            BY <1>4 DEF CopiesAreLatest
        <3>1. CASE SelectBatch(p)
            <4>1. mover'[p].copy[r] = hot[r]
                BY <3>1 DEF SelectBatch, TypeOK
            <4> QED BY <4>1 DEF NothingLost
        <3>2. CASE mover'[p].copy = mover[p].copy
            BY <3>2 DEF CopiesAreLatest
        <3> QED BY <3>1, <3>2, BatchStep DEF NoBatch
    <2>3. BatchIsArchived'
        <3> SUFFICES ASSUME NEW p \in Procs, mover'[p].at = "delete",
                            NEW r \in Rows, mover'[p].copy[r] # Absent
                     PROVE  archive[r] # Absent
            BY <1>4 DEF BatchIsArchived, InBatch
        <3>1. ~SelectBatch(p)
            BY DEF SelectBatch, TypeOK
        <3> QED BY <1>4, <3>1, BatchStep DEF BatchIsArchived, InBatch, NoBatch
    <2> QED BY <2>1, <2>2, <2>3
<1> QED BY <1>1, <1>2, <1>3, <1>4, RowsStep

(* The batches: of one table, of last year, and full or all there is.      *)
LEMMA BatchesKept ==
    ASSUME TypeOK, TypeOK', [Next]_vars, BatchShape
    PROVE  BatchShape'
<1> SUFFICES ASSUME NEW p \in Procs
             PROVE  /\ InBatch(mover'[p]) \subseteq lastYear'
                    /\ \A r \in InBatch(mover'[p]) : r.table = TableSpecs[mover'[p].spec]
                    /\ mover'[p].at \in {"insert", "delete"} /\ Cardinality(InBatch(mover'[p])) < Batch
                         => Due(p)' \subseteq InBatch(mover'[p])
    BY DEF BatchShape
<1>1. CASE mover'[p].copy = NoBatch /\ mover'[p].at \in {"idle", "select"}
    BY <1>1 DEF InBatch, NoBatch
<1>2. CASE SelectBatch(p)
    <2>1. /\ mover'[p].copy = [r \in Rows |-> IF r \in Lowest(Due(p)) THEN hot[r] ELSE Absent]
          /\ mover'[p].spec = mover[p].spec /\ hot' = hot /\ lastYear' = lastYear
        BY <1>2 DEF SelectBatch, TypeOK
    <2>2. Due(p) \subseteq Rows /\ \A r \in Due(p) :
              hot[r] # Absent /\ r \in lastYear /\ r.table = TableSpecs[mover[p].spec]
        BY DEF Due, TypeOK
    <2>3. InBatch(mover'[p]) = Lowest(Due(p)) /\ Lowest(Due(p)) \subseteq Due(p)
        BY <2>1, <2>2 DEF InBatch, Lowest
    <2>4. Due(p)' = Due(p)
        BY <2>1 DEF Due
    <2>5. Cardinality(Lowest(Due(p))) < Batch => Due(p) \subseteq Lowest(Due(p))
        <3>1. \A r, s \in Due(p) : r.table = s.table
            BY <2>2
        <3> QED BY <2>2, <3>1, ShortBatchIsAll
    <2> QED BY <2>1, <2>2, <2>3, <2>4, <2>5
<1>3. CASE /\ mover'[p].copy = mover[p].copy /\ mover'[p].spec = mover[p].spec
           /\ mover'[p].at = mover[p].at \/ InsertArchive(p)
    <2>1. lastYear' = lastYear /\ Due(p)' \subseteq Due(p)
        BY <1>3, RowsStep DEF Due, TypeOK
    <2>2. InBatch(mover'[p]) = InBatch(mover[p])
        BY <1>3 DEF InBatch
    <2>3. mover'[p].at \in {"insert", "delete"} => mover[p].at \in {"insert", "delete"}
        BY <1>3 DEF InsertArchive
    <2> QED BY <1>3, <2>1, <2>2, <2>3 DEF BatchShape
<1> QED BY <1>1, <1>2, <1>3, BatchStep

(* The items are gone before the first order goes.                         *)
LEMMA ItemsKept ==
    ASSUME TypeOK, TypeOK', [Next]_vars, YearShape, NothingLost, BatchShape, ItemsMoved,
           ArchivedOrderHasItems
    PROVE  YearShape' /\ ItemsMoved' /\ ArchivedOrderHasItems'
<1>1. YearShape'
    BY RowsStep DEF YearShape
<1>2. ItemsMoved'
    <2> SUFFICES ASSUME NEW p \in Procs, mover'[p].spec = 3, NEW o \in Orders,
                        Row("order_items", o) \in lastYear
                 PROVE  hot'[Row("order_items", o)] = Absent
        BY RowsStep DEF ItemsMoved
    <2> DEFINE r == Row("order_items", o)
    <2>1. r \in Rows /\ r.table = "order_items"
        BY RowFacts DEF Tables, Row
    <2> HIDE DEF r
    <2>2. CASE hot[r] = Absent
        BY <2>1, <2>2, RowsStep DEF r
    <2>3. CASE hot[r] # Absent
        <3>1. mover[p].spec # 3
            BY <2>3 DEF ItemsMoved, r
        <3>2. /\ mover[p].spec = 2
              /\ \/ Due(p) = {}
                 \/ DeleteHot(p) /\ Cardinality(InBatch(mover[p])) < Batch
            BY <3>1, SpecStep
        <3>3. r \in Due(p)
            BY <2>1, <2>3, <3>2, TableFacts DEF Due, r
        <3>4. DeleteHot(p) /\ Cardinality(InBatch(mover[p])) < Batch
            BY <3>2, <3>3
        <3>5. r \in InBatch(mover[p])
            BY <3>3, <3>4 DEF BatchShape, DeleteHot, DeleteRows
        <3> QED BY <2>1, <3>4, <3>5 DEF DeleteHot, DeleteRows, r
    <2> QED BY <2>2, <2>3
<1>3. ArchivedOrderHasItems'
    <2> SUFFICES ASSUME NEW o \in Orders, archive'[Row("orders", o)] # Absent
                 PROVE  archive'[Row("order_items", o)] # Absent
        BY DEF ArchivedOrderHasItems
    <2> DEFINE parent == Row("orders", o)
               items == Row("order_items", o)
    <2>1. /\ parent \in Rows /\ parent.table = "orders"
          /\ items \in Rows
        BY RowFacts DEF Tables, Row
    <2> HIDE DEF parent, items
    <2>2. CASE archive[parent] # Absent
        BY <2>1, <2>2, RowsStep DEF ArchivedOrderHasItems, parent, items
    <2>3. CASE archive[parent] = Absent
        <3>1. archive' # archive
            BY <2>3 DEF parent
        <3>2. PICK p \in Procs : InsertArchive(p)
            BY <3>1, RowsStep DEF UpdateRow, DeleteHot, DeleteRows
        <3>3. parent \in InBatch(mover[p])
            BY <2>1, <2>3, <3>2 DEF InsertArchive, parent
        <3>4. parent \in lastYear /\ TableSpecs[mover[p].spec] = "orders"
            BY <2>1, <3>3 DEF BatchShape
        <3>5. mover[p].spec = 3
            <4>1. mover[p].spec \in {1, 2, 3}
                BY DEF TypeOK
            <4> QED BY <4>1, <3>4, TableFacts
        <3>6. hot[items] = Absent
            BY <3>4, <3>5 DEF YearShape, ItemsMoved, parent, items
        <3>7. archive[items] # Absent
            BY <2>1, <3>6 DEF NothingLost
        <3> QED BY <2>1, <3>7, RowsStep DEF items
    <2> QED BY <2>2, <2>3
<1> QED BY <1>1, <1>2, <1>3

(* The lock: only its owner moves, as long as it has not run out.          *)
LEMMA LockKept ==
    ASSUME TypeOK, TypeOK', [Next]_vars, LockHeld
    PROVE  LockHeld'
<1>1. ASSUME NEW q \in Procs, RunStarts(q) PROVE LockHeld'
    BY <1>1 DEF RunStarts, LockHeld, TypeOK
<1>2. ASSUME NEW q \in Procs, RunEnds(q), mover[q].at # "idle", overrun' = overrun
      PROVE  LockHeld'
    <2> SUFFICES ASSUME ~overrun, NEW p \in Procs, mover'[p].at # "idle" PROVE FALSE
        BY <1>2 DEF LockHeld
    <2>1. CASE p = q
        BY <1>2, <2>1 DEF RunEnds, Idle, TypeOK
    <2>2. CASE p # q
        <3>1. mover[p].at # "idle"
            BY <1>2, <2>2 DEF RunEnds, TypeOK
        <3>2. lock = {p} /\ lock = {q}
            BY <1>2, <3>1 DEF LockHeld
        <3> QED BY <2>2, <3>2
    <2> QED BY <2>1, <2>2
<1>3. ASSUME NEW q \in Procs, mover[q].at # "idle", lock' = lock, overrun' = overrun,
             \A p \in Procs \ {q} : mover'[p] = mover[p]
      PROVE  LockHeld'
    BY <1>3 DEF LockHeld
<1>4. ASSUME NEW q \in Procs, NextTable(q), mover[q].at # "idle", overrun' = overrun
      PROVE  LockHeld'
    <2>1. CASE RunEnds(q)
        BY <1>2, <1>4, <2>1
    <2>2. CASE ~RunEnds(q)
        <3>1. lock' = lock /\ \A p \in Procs \ {q} : mover'[p] = mover[p]
            BY <1>4, <2>2 DEF NextTable, TypeOK
        <3> QED BY <1>3, <1>4, <3>1
    <2> QED BY <2>1, <2>2
<1>5. ASSUME NEW q \in Procs, SelectBatch(q) \/ InsertArchive(q) \/ Crash(q) \/ DeadlinePasses(q)
      PROVE  LockHeld'
    <2>1. /\ mover[q].at # "idle" /\ lock' = lock /\ overrun' = overrun
          /\ \A p \in Procs \ {q} : mover'[p] = mover[p]
        BY <1>5 DEF SelectBatch, InsertArchive, Crash, DeadlinePasses, TypeOK
    <2> QED BY <1>3, <2>1
<1>6. ASSUME NEW q \in Procs, TableIsEmpty(q) PROVE LockHeld'
    <2>1. mover[q].at # "idle" /\ overrun' = overrun /\ NextTable(q)
        BY <1>6 DEF TableIsEmpty
    <2> QED BY <1>4, <2>1
<1>7. ASSUME NEW q \in Procs, OutOfTime(q) \/ RunFails(q) PROVE LockHeld'
    <2>1. mover[q].at # "idle" /\ overrun' = overrun /\ RunEnds(q)
        BY <1>7 DEF OutOfTime, RunFails
    <2> QED BY <1>2, <2>1
<1>8. ASSUME NEW q \in Procs, DeleteHot(q) PROVE LockHeld'
    <2>1. mover[q].at # "idle" /\ overrun' = overrun
        BY <1>8 DEF DeleteHot, DeleteRows
    <2>2. \/ NextTable(q)
          \/ lock' = lock /\ \A p \in Procs \ {q} : mover'[p] = mover[p]
        BY <1>8 DEF DeleteHot, DeleteRows, TypeOK
    <2> QED BY <1>3, <1>4, <2>1, <2>2
<1>9. ASSUME NEW q \in Procs, LockExpires(q) PROVE LockHeld'
    <2> SUFFICES ASSUME ~overrun', NEW p \in Procs, mover'[p].at # "idle" PROVE FALSE
        BY DEF LockHeld
    <2>1. ~overrun /\ mover[q].at = "idle" /\ mover[p].at # "idle" /\ lock = {q}
        BY <1>9, Zenon DEF LockExpires
    <2> QED BY <2>1 DEF LockHeld
<1>10. ASSUME UNCHANGED <<lock, mover, overrun>> PROVE LockHeld'
    BY <1>10 DEF LockHeld
<1> QED
    BY <1>1, <1>5, <1>6, <1>7, <1>8, <1>9, <1>10
    DEF Next, MoverStep, LookFirst, LookAgain, LookForItems, ReaderLeaves, Look, Answer,
        UpdateRow, vars

(* The lookup: an order it missed in the hot database is in the archive,   *)
(* one it found in the archive is there with its items.                    *)
LEMMA LookupKept ==
    ASSUME TypeOK, TypeOK', [Next]_vars, NothingLost, ArchivedOrderHasItems,
           LookupKnows, LookupFinds
    PROVE  LookupKnows' /\ LookupFinds'
<1> DEFINE parent(o) == Row("orders", o)
<1>1. \A o \in Orders : parent(o) \in Rows
    BY RowFacts DEF Tables
<1>2. ASSUME NEW o \in Orders, LookFirst(o) PROVE LookupKnows' /\ LookupFinds'
    BY <1>1, <1>2 DEF LookFirst, Look, Answer, LookupKnows, LookupFinds
<1>3. ASSUME LookAgain PROVE LookupKnows' /\ LookupFinds'
    <2>1. /\ reader.order \in Orders /\ hot[parent(reader.order)] = Absent
        BY <1>3 DEF LookAgain, LookupKnows
    <2>2. archive[parent(reader.order)] # Absent
        BY <2>1, <1>1 DEF NothingLost
    <2> QED BY <1>3, <2>1, <2>2 DEF LookAgain, Look, Answer, LookupKnows, LookupFinds
<1>4. ASSUME LookForItems PROVE LookupKnows' /\ LookupFinds'
    <2>1. reader.conn = "archive" => archive[Row("order_items", reader.order)] # Absent
        BY <1>4 DEF LookForItems, LookupKnows, ArchivedOrderHasItems
    <2>2. reader.conn \in {"hot", "archive"}
        BY DEF TypeOK
    <2> QED BY <1>4, <2>1, <2>2 DEF LookForItems, Answer, LookupKnows, LookupFinds
<1>5. ASSUME ReaderLeaves PROVE LookupKnows' /\ LookupFinds'
    BY <1>5 DEF ReaderLeaves, Answer, LookupKnows, LookupFinds
<1>6. ASSUME UNCHANGED reader PROVE LookupKnows' /\ LookupFinds'
    BY <1>1, <1>6, RowsStep DEF LookupKnows, LookupFinds
<1> QED
    BY <1>2, <1>3, <1>4, <1>5, <1>6
    DEF Next, MoverStep, UpdateRow, RunStarts, SelectBatch, TableIsEmpty, OutOfTime, InsertArchive,
        DeleteHot, DeleteRows, RunFails, Crash, DeadlinePasses, LockExpires, vars

-----------------------------------------------------------------------------
LEMMA InitIInv == Init => IInv
<1> SUFFICES ASSUME Init PROVE IInv
    OBVIOUS
<1> USE ArchivalAssumption
<1>1. PICK old \in SUBSET Orders, booked \in SUBSET Orders :
        lastYear = {r \in Rows : r.order \in old /\ (r.table = "transactions" => r.order \in booked)}
    BY DEF Init
<1>2. TypeOK
    <2>1. mover \in [Procs -> MoverType]
        BY DEF Init, Idle, NoBatch, MoverType, Versions
    <2>2. hot \in [Rows -> Versions] /\ archive \in [Rows -> Versions] /\ latest \in [Rows -> Nat]
        BY DEF Init, NoBatch, Versions
    <2>3. reader \in [at : {"idle", "missed", "found", "not_found", "no_items"},
                      order : Nat, conn : {"hot", "archive"}]
        BY DEF Init, NoReader
    <2>4. lastYear \subseteq Rows /\ touched \subseteq Rows /\ lock \in SUBSET Procs
        BY <1>1 DEF Init
    <2>5. overrun \in BOOLEAN
        BY Zenon DEF Init
    <2>6. updates \in 0..MaxUpdates /\ faults \in 0..MaxFaults
        BY DEF Init
    <2> QED BY <2>1, <2>2, <2>3, <2>4, <2>5, <2>6 DEF TypeOK, MoverType
<1>3. YearShape
    BY <1>1, RowFacts DEF YearShape, Row, Tables
<1>4. /\ \A r \in Rows : hot[r] = 0 /\ latest[r] = 0 /\ archive[r] = Absent
      /\ \A p \in Procs : /\ mover[p].at = "idle" /\ mover[p].spec = 1
                          /\ \A r \in Rows : mover[p].copy[r] = Absent
      /\ reader.at = "idle"
    BY DEF Init, NoBatch, Idle, NoReader
<1>5. NothingLost /\ CopiesAreLatest /\ BatchIsArchived
    BY <1>4 DEF NothingLost, CopiesAreLatest, BatchIsArchived, InBatch
<1>6. BatchShape /\ ItemsMoved
    BY <1>4 DEF BatchShape, ItemsMoved, InBatch
<1>7. ArchivedOrderHasItems
    BY <1>4, RowFacts DEF ArchivedOrderHasItems, Tables
<1>8. LockHeld /\ LookupKnows /\ LookupFinds
    BY <1>4 DEF LockHeld, LookupKnows, LookupFinds
<1> QED BY <1>2, <1>3, <1>5, <1>6, <1>7, <1>8 DEF IInv

LEMMA NextIInv == IInv /\ [Next]_vars => IInv'
<1> SUFFICES ASSUME IInv, [Next]_vars PROVE IInv'
    OBVIOUS
<1>1. TypeOK /\ TypeOK'
    BY TypeStep DEF IInv
<1> QED BY <1>1, RowsKept, BatchesKept, ItemsKept, LockKept, LookupKept DEF IInv

(* Whatever the interleaving, what a run holds and what the archive has    *)
(* belong together.                                                        *)
THEOREM Invariant == Spec => []IInv
BY InitIInv, NextIInv, PTL DEF Spec

(* Every reachable state is well typed; in particular the loop over the    *)
(* tables ends at the last.                                                *)
THEOREM TypeCorrect == Spec => []TypeOK
<1>1. IInv => TypeOK
    BY DEF IInv
<1> QED BY <1>1, Invariant, PTL

(* Whatever crashes, fails, hangs or overlaps, no row of the hot database  *)
(* is lost, and the archive has the last version of what no request        *)
(* updated behind a mover's back.                                          *)
THEOREM NothingEverLost == Spec => []NothingLost
<1>1. IInv => NothingLost
    BY DEF IInv
<1> QED BY <1>1, Invariant, PTL

(* Between any two steps of any runs, an order in the archive has its      *)
(* items there.                                                            *)
THEOREM ArchivedOrderAlwaysHasItems == Spec => []ArchivedOrderHasItems
<1>1. IInv => ArchivedOrderHasItems
    BY DEF IInv
<1> QED BY <1>1, Invariant, PTL

(* At most one process moves rows as long as no lock has expired under its *)
(* owner.                                                                  *)
THEOREM OneMoverAtATime == Spec => []OneMover
<1>1. LockHeld => OneMover
    <2> SUFFICES ASSUME LockHeld, ~overrun, NEW p \in Procs, NEW q \in Procs,
                        mover[p].at # "idle", mover[q].at # "idle"
                 PROVE  p = q
        BY DEF OneMover
    <2>1. lock = {p} /\ lock = {q}
        BY DEF LockHeld
    <2> QED BY <2>1
<1> QED BY <1>1, Invariant, PTL DEF IInv

(* A lookup beside the movers finds every order, and with its items if it  *)
(* found it in the archive.                                                *)
THEOREM LookupAlwaysFinds == Spec => []LookupFinds
<1>1. IInv => LookupFinds
    BY DEF IInv
<1> QED BY <1>1, Invariant, PTL

-----------------------------------------------------------------------------
(***************************************************************************)
(* Pagination.                                                             *)
(***************************************************************************)

(* A set of sets that holds every subset of a finite set whose own proper  *)
(* subsets it holds, holds them all: no smallest one can be missing.       *)
LEMMA SetInduction ==
  ASSUME NEW S, IsFiniteSet(S), NEW G,
         \A T \in SUBSET S : (\A U \in SUBSET T : U # T => U \in G) => T \in G
  PROVE  SUBSET S \subseteq G
<1> DEFINE R == StrictSubsetOrdering(S)
           Bad == (SUBSET S) \ G
<1> SUFFICES ASSUME Bad # {} PROVE FALSE
  OBVIOUS
<1>1. IsWellFoundedOn(R, SUBSET S)
  <2>1. FiniteSubsetsOf(S) = SUBSET S
    BY FS_FiniteSubsetsOfFinite
  <2>2. IsWellFoundedOn(StrictSubsetOrdering(S), FiniteSubsetsOf(S))
    BY FS_StrictSubsetOrderingWellFounded
  <2> QED BY <2>1, <2>2
<1>2. PICK T \in Bad : \A U \in Bad : <<U, T>> \notin R
  <2>1. Bad \subseteq SUBSET S /\ Bad # {}
    OBVIOUS
  <2> HIDE DEF R, Bad
  <2> QED BY <1>1, <2>1, WFMin
<1>3. ASSUME NEW U \in SUBSET T, U # T PROVE U \in G
  <2>1. <<U, T>> \in R
    BY <1>3 DEF StrictSubsetOrdering
  <2> QED BY <1>2, <1>3, <2>1
<1> QED BY <1>2, <1>3

(* Orders of which no two share an id. *)
Distinct(S) == S \subseteq ListedOrder /\ \A r, s \in S : r.id = s.id => r = s

(* The fields of an order, as numbers.                                     *)
LEMMA OrderFields ==
  ASSUME NEW r \in ListedOrder
  PROVE  r.id \in Ids /\ r.id \in Nat /\ r.id # 0 /\ r.t \in Times /\ r.t \in Nat
<1>1. r.id \in Ids /\ r.t \in Times
  BY DEF ListedOrder
<1> QED
  <2>1. Ids \subseteq Nat \ {0} /\ MaxTime \in Nat
    BY PaginationAssumption
  <2>2. r.id \in Nat \ {0}
    BY <1>1, <2>1
  <2>3. r.t \in Nat
    BY <1>1, <2>1 DEF Times
  <2> QED
    BY <1>1, <2>2, <2>3

(* Precedes is a strict order, total on distinct orders. *)
LEMMA PrecedesOrder ==
  /\ \A r \in ListedOrder : ~Precedes(r, r)
  /\ \A r, s \in ListedOrder : r.id # s.id => Precedes(r, s) \/ Precedes(s, r)
  /\ \A r, s, u \in ListedOrder : Precedes(r, s) /\ Precedes(s, u) => Precedes(r, u)
<1>1. \A r \in ListedOrder : r.t \in Nat /\ r.id \in Nat
  BY OrderFields
<1>2. ASSUME NEW r \in ListedOrder PROVE ~Precedes(r, r)
  BY <1>1 DEF Precedes
<1>3. ASSUME NEW r \in ListedOrder, NEW s \in ListedOrder, r.id # s.id
      PROVE  Precedes(r, s) \/ Precedes(s, r)
  BY <1>1, <1>3 DEF Precedes
<1>4. ASSUME NEW r \in ListedOrder, NEW s \in ListedOrder, NEW u \in ListedOrder,
             Precedes(r, s), Precedes(s, u)
      PROVE  Precedes(r, u)
  BY <1>1, <1>4 DEF Precedes
<1> QED
  BY <1>2, <1>3, <1>4

(* One of finitely many distinct orders comes last. *)
LEMMA OneIsLast ==
  ASSUME NEW S, IsFiniteSet(S), Distinct(S), S # {}
  PROVE  \E m \in S : \A r \in S \ {m} : Precedes(r, m)
<1> DEFINE G == {T \in SUBSET S : T # {} => \E m \in T : \A r \in T \ {m} : Precedes(r, m)}
<1>1. ASSUME NEW T \in SUBSET S, \A U \in SUBSET T : U # T => U \in G
      PROVE  T \in G
  <2> SUFFICES ASSUME T # {} PROVE \E m \in T : \A r \in T \ {m} : Precedes(r, m)
    OBVIOUS
  <2>1. PICK x \in T : TRUE
    OBVIOUS
  <2>2. CASE T = {x}
    BY <2>2
  <2>3. CASE T # {x}
    <3>1. T \ {x} # {} /\ T \ {x} \in G
      BY <1>1, <2>1, <2>3
    <3>2. PICK m \in T \ {x} : \A r \in (T \ {x}) \ {m} : Precedes(r, m)
      BY <3>1
    <3>3. x \in ListedOrder /\ m \in ListedOrder /\ x.id # m.id /\ T \subseteq ListedOrder
      BY <3>2 DEF Distinct
    <3>4. CASE Precedes(x, m)
      BY <3>2, <3>4
    <3>5. CASE Precedes(m, x)
      <4>1. \A r \in (T \ {x}) \ {m} : Precedes(r, x)
        BY <3>2, <3>3, <3>5, PrecedesOrder
      <4> QED
        BY <3>5, <4>1
    <3> QED
      BY <3>3, <3>4, <3>5, PrecedesOrder
  <2> QED
    BY <2>2, <2>3
<1>2. SUBSET S \subseteq G
  <2> HIDE DEF G
  <2> QED
    BY <1>1, SetInduction
<1> QED
  BY <1>2

InOrder(s) == \A m, n \in DOMAIN s : m < n => Precedes(s[m], s[n])

(* Finitely many distinct orders can be sorted: the last of them goes      *)
(* behind the others.                                                      *)
LEMMA SortExists ==
  ASSUME NEW S, IsFiniteSet(S), Distinct(S)
  PROVE  \E s \in SetToSeqs(S) : InOrder(s)
<1> DEFINE G == {T \in SUBSET S : \E s \in SetToSeqs(T) : InOrder(s)}
<1>1. ASSUME NEW T \in SUBSET S, \A U \in SUBSET T : U # T => U \in G
      PROVE  T \in G
  <2>0. IsFiniteSet(T) /\ Distinct(T)
    BY FS_Subset DEF Distinct
  <2>1. CASE T = {}
    <3> DEFINE s == [i \in 1..0 |-> {}]
    <3>1. Cardinality(T) = 0
      BY <2>1, FS_EmptySet
    <3>2. s \in [1..0 -> {}] /\ DOMAIN s = {}
      OBVIOUS
    <3> HIDE DEF s
    <3>3. s \in SetToSeqs(T) /\ InOrder(s)
      BY <2>1, <3>1, <3>2 DEF SetToSeqs, InOrder
    <3> QED
      BY <3>3
  <2>2. CASE T # {}
    <3>1. PICK z \in T : \A r \in T \ {z} : Precedes(r, z)
      BY <2>0, <2>2, OneIsLast
    <3> DEFINE U == T \ {z}
               n == Cardinality(U)
    <3>2. n \in Nat /\ Cardinality(T) = n + 1
      <4>1. IsFiniteSet(U) /\ Cardinality(U) = Cardinality(T) - 1
        BY <2>0, <3>1, FS_RemoveElement
      <4> QED
        BY <2>0, <4>1, FS_CardinalityType
    <3>3. PICK s \in SetToSeqs(U) : InOrder(s)
      BY <1>1, <3>1
    <3>4. /\ s \in [1..n -> U]
          /\ \A i, j \in 1..n : i # j => s[i] # s[j]
          /\ \A i, j \in 1..n : i < j => Precedes(s[i], s[j])
      BY <3>3 DEF SetToSeqs, InOrder
    <3> DEFINE q == [i \in 1..(n + 1) |-> IF i = n + 1 THEN z ELSE s[i]]
    <3> HIDE DEF n
    <3>5. /\ q \in [1..(n + 1) -> T]
          /\ \A i \in 1..n : i \in 1..(n + 1) /\ q[i] = s[i] /\ s[i] \in U
          /\ q[n + 1] = z /\ \A i \in 1..(n + 1) : i # n + 1 => i \in 1..n
      BY <3>1, <3>2, <3>4
    <3> HIDE DEF q
    <3>6. \A i, j \in 1..(n + 1) : i # j => q[i] # q[j]
      BY <3>4, <3>5
    <3>7. \A i, j \in 1..(n + 1) : i < j => Precedes(q[i], q[j])
      <4> SUFFICES ASSUME NEW i \in 1..(n + 1), NEW j \in 1..(n + 1), i < j
                   PROVE  Precedes(q[i], q[j])
        OBVIOUS
      <4>1. i \in 1..n
        BY <3>2
      <4>2. CASE j = n + 1
        BY <3>1, <3>5, <4>1, <4>2
      <4>3. CASE j # n + 1
        BY <3>4, <3>5, <4>1, <4>3
      <4> QED
        BY <4>2, <4>3
    <3>8. q \in SetToSeqs(T) /\ InOrder(q)
      BY <3>2, <3>5, <3>6, <3>7 DEF SetToSeqs, InOrder
    <3> QED
      BY <3>8
  <2> QED
    BY <2>1, <2>2
<1>2. SUBSET S \subseteq G
  <2> HIDE DEF G
  <2> QED
    BY <1>1, SetInduction
<1> QED
  BY <1>2

(* So the rows come sorted, and all of them.                               *)
LEMMA SortedRows ==
  ASSUME NEW S, IsFiniteSet(S), Distinct(S)
  PROVE  Sorted(S) \in Seq(S) /\ InOrder(Sorted(S)) /\ Range(Sorted(S)) = S
<1>1. Sorted(S) \in SetToSeqs(S) /\ InOrder(Sorted(S))
  <2>1. Sorted(S) = CHOOSE s \in SetToSeqs(S) : InOrder(s)
    BY Zenon DEF Sorted, InOrder
  <2> QED
    BY <2>1, SortExists
<1> DEFINE s == Sorted(S)
           n == Cardinality(S)
<1>2. s \in [1..n -> S] /\ \A i, j \in 1..n : i # j => s[i] # s[j]
  BY <1>1 DEF SetToSeqs
<1>3. n \in Nat
  BY FS_CardinalityType
<1> HIDE DEF s, n
<1>4. s \in Injection(1..n, S)
  BY <1>2 DEF Injection, IsInjective
<1>5. IsFiniteSet(1..n) /\ Cardinality(1..n) = n
  BY <1>3, FS_Interval
<1>6. s \in Surjection(1..n, S)
  BY <1>4, <1>5, FS_Injection DEF n
<1>7. Range(s) = S
  BY <1>2, <1>6 DEF Range, Surjection
<1>8. s \in Seq(S)
  BY <1>2, <1>3, SeqDef
<1> QED
  BY <1>1, <1>7, <1>8 DEF s

-----------------------------------------------------------------------------
(* Pages.                                                                  *)

(* s is the first n of the orders S, or all of them. *)
IsFirst(s, S, n) ==
    /\ s \in Seq(S) /\ Len(s) <= n /\ InOrder(s)
    /\ \A r \in S \ Range(s) : Len(s) = n /\ Precedes(Last(s), r)

(* The first n of a sorted sequence of them, for instance. *)
LEMMA FirstOf ==
  ASSUME NEW S, Distinct(S), NEW s, NEW m \in Nat \ {0}, NEW n \in Nat \ {0}, n <= m,
         IsFirst(s, S, m), NEW k, k = (IF Len(s) > n THEN n ELSE Len(s))
  PROVE  /\ IsFirst(SubSeq(s, 1, k), S, n)
         /\ Len(SubSeq(s, 1, k)) = k
         /\ Len(s) < m => Range(s) = S
<1> DEFINE l == Len(s)
           q == SubSeq(s, 1, k)
<1>1. /\ s \in Seq(S) /\ l <= m /\ InOrder(s)
      /\ \A r \in S \ Range(s) : l = m /\ Precedes(s[l], r)
  BY DEF IsFirst, Last
<1>2. l \in Nat /\ DOMAIN s = 1..l /\ \A i \in 1..l : s[i] \in S
  BY <1>1, LenProperties, ElementOfSeq
<1>3. k = IF l > n THEN n ELSE l
  OBVIOUS
<1>4. l \in Nat /\ l <= m
  BY <1>1, <1>2
<1> HIDE DEF l
<1>5. /\ k \in Nat /\ k <= n /\ k <= l
      /\ k < l => k = n
      /\ l = m => k = n
  BY <1>3, <1>4
<1>6. \A i \in 1..k : i \in 1..l
  BY <1>4, <1>5
<1>7. q \in Seq(S) /\ Len(q) = k /\ DOMAIN q = 1..k /\ \A i \in 1..k : q[i] = s[i]
  <2>1. \A i \in 1..k : s[i] \in S
    BY <1>2, <1>6
  <2>2. q \in Seq(S) /\ Len(q) = (IF 1 <= k THEN k - 1 + 1 ELSE 0)
        /\ \A i \in 1..(k - 1 + 1) : q[i] = s[1 + i - 1]
    BY <1>5, <2>1, SubSeqProperties
  <2>3. (IF 1 <= k THEN k - 1 + 1 ELSE 0) = k /\ k - 1 + 1 = k /\ \A i \in 1..k : 1 + i - 1 = i
    BY <1>5
  <2>4. Len(q) = k /\ \A i \in 1..k : q[i] = s[i]
    <3> HIDE DEF q
    <3> QED
      BY <2>2, <2>3
  <2>5. DOMAIN q = 1..k
    <3> HIDE DEF q
    <3> QED
      BY <2>2, <2>4, LenProperties
  <2> QED
    BY <2>2, <2>4, <2>5
<1> HIDE DEF q
<1>8. InOrder(q)
  <2>1. \A i, j \in 1..l : i < j => Precedes(s[i], s[j])
    BY <1>1, <1>2 DEF InOrder
  <2> QED
    BY <1>6, <1>7, <2>1 DEF InOrder
<1>9. ASSUME NEW r \in S \ Range(q) PROVE k = n /\ Precedes(q[k], r)
  <2>1. CASE r \in Range(s)
    <3>1. PICK i \in 1..l : s[i] = r
      BY <1>2, <2>1 DEF Range
    <3>2. i \notin 1..k
      BY <1>7, <1>9, <3>1 DEF Range
    <3>3. k < i /\ i <= l /\ k < l /\ k = n
      BY <1>4, <1>5, <3>2
    <3>4. k \in 1..l /\ k \in 1..k
      BY <1>4, <3>3
    <3>5. Precedes(s[k], s[i])
      BY <1>1, <1>2, <3>3, <3>4 DEF InOrder
    <3> QED
      BY <1>7, <3>1, <3>3, <3>4, <3>5
  <2>2. CASE r \notin Range(s)
    <3>1. l = m /\ Precedes(s[m], r)
      BY <1>1, <1>9, <2>2
    <3>2. k = n /\ k \in 1..m /\ m \in 1..m /\ k \in 1..k
      BY <1>5, <3>1
    <3>3. CASE n = m
      BY <1>7, <3>1, <3>2, <3>3
    <3>4. CASE n # m
      <4>1. Precedes(s[n], s[m])
        BY <1>1, <1>2, <3>1, <3>2, <3>4 DEF InOrder
      <4>2. s[n] \in ListedOrder /\ s[m] \in ListedOrder /\ r \in ListedOrder
        BY <1>2, <1>9, <3>1, <3>2 DEF Distinct
      <4>3. Precedes(s[n], r)
        BY <3>1, <4>1, <4>2, PrecedesOrder
      <4> QED
        BY <1>7, <3>2, <4>3
    <3> QED
      BY <3>3, <3>4
  <2> QED
    BY <2>1, <2>2
<1>10. l < m => Range(s) = S
  <2>1. Range(s) \subseteq S
    BY <1>2 DEF Range
  <2>2. l < m => l # m
    BY <1>4
  <2> QED
    BY <1>1, <2>1, <2>2
<1>11. IsFirst(q, S, n)
  BY <1>5, <1>7, <1>8, <1>9 DEF IsFirst, Last
<1> QED
  BY <1>7, <1>10, <1>11 DEF q, l

-----------------------------------------------------------------------------
(* The parts of the walk's inductive invariant.                            *)

(* No two rows share an id; the rows are finitely many, whole milliseconds *)
(* if the walk is about such.                                              *)
RowsApart ==
    /\ IsFiniteSet(rows)
    /\ \A r, s \in rows : r.id = s.id => r = s
    /\ \A r \in rows : Allowed(walk, r.t)

(* The cursor is the last page's last order, until the walk has ended.     *)
CursorFollows ==
    ~ended => \/ page = <<>> /\ cursor = NoCursor
              \/ page # <<>> /\ cursor = CursorOf(Last(page))

(* What was listed throughout is listed. *)
AlwaysListed == always \subseteq ListedIds(walk, rows)

(* What was listed throughout and lies before the cursor was returned.     *)
Returned ==
    walk.source # "across" =>
        \A r \in rows : r.id \in always =>
            /\ walk.exact => times[r.id] = IF ended \/ ~After(r) THEN 1 ELSE 0
            /\ times[r.id] = 0 => Ms(r.t) \in edges \/ (~ended /\ After(r))

-----------------------------------------------------------------------------
(* What a page holds.                                                      *)

(* What is listed are rows. *)
LEMMA ListedAreRows ==
  \A home : Listed(walk, rows, home) \subseteq rows
BY DEF Listed, FindOrdersByCustomer, FindOrdersForBackfill, BranchOrders, ThisYear

Matching(home) == {r \in Listed(walk, rows, home) : After(r)}

(* A query returns the first limit + 1 rows behind the cursor.             *)
LEMMA QueryFirst ==
  ASSUME WalkTypeOK, RowsApart, NEW home
  PROVE  /\ Distinct(Matching(home))
         /\ IsFirst(QueryRows(home), Matching(home), walk.limit + 1)
<1> DEFINE S == Matching(home)
           s == Sorted(S)
           l == Len(s)
           n == walk.limit + 1
           k == IF l > n THEN n ELSE l
           m == l + n
<1>1. Distinct(S) /\ IsFiniteSet(S)
  <2>1. S \subseteq rows
    BY ListedAreRows DEF Matching
  <2>2. IsFiniteSet(S)
    BY <2>1, FS_Subset DEF RowsApart
  <2> QED
    BY <2>1, <2>2 DEF WalkTypeOK, RowsApart, Distinct
<1>2. s \in Seq(S) /\ InOrder(s) /\ Range(s) = S
  BY <1>1, SortedRows
<1>3. QueryRows(home) = SubSeq(s, 1, k)
  BY DEF QueryRows, Extra, Matching
<1>4. l \in Nat
  BY <1>2, LenProperties
<1>5. n \in Nat \ {0}
  <2>1. walk.limit \in Limits /\ Limits \subseteq Nat \ {0}
    BY PaginationAssumption DEF WalkTypeOK, Walks
  <2>2. walk.limit \in Nat
    BY <2>1
  <2> QED
    BY <2>2
<1>6. l = Len(s)
  OBVIOUS
<1> HIDE DEF n, l
<1>7. m \in Nat \ {0} /\ n <= m /\ l <= m
  BY <1>4, <1>5
<1> HIDE DEF m, S, s
<1>8. IsFirst(s, S, m)
  BY <1>2, <1>6, <1>7 DEF IsFirst
<1>9. IsFirst(SubSeq(s, 1, k), S, n)
  BY <1>1, <1>5, <1>6, <1>7, <1>8, FirstOf
<1> QED
  BY <1>1, <1>3, <1>9 DEF S, n

(* A page has room for one order at least.                                 *)
LEMMA LimitNat == WalkTypeOK => walk.limit \in Nat \ {0}
<1>1. Limits \subseteq Nat \ {0}
  BY PaginationAssumption
<1> QED
  BY <1>1 DEF WalkTypeOK, Walks

(* A page is cut to its limit; what it was cut from gives the cursor.      *)
LEMMA PageOf ==
  ASSUME WalkTypeOK, NEW S, NEW q \in Seq(S),
         NEW b, b = BuildPaginationResult(q),
         NEW k, k = (IF Len(q) > walk.limit THEN walk.limit ELSE Len(q))
  PROVE  /\ b.data = SubSeq(q, 1, k) /\ Len(b.data) = k
         /\ IF Len(q) > walk.limit
            THEN b.nextCursor = CursorOf(Last(b.data)) ELSE b.nextCursor = NoCursor
<1> DEFINE d == IF Len(q) > walk.limit THEN SubSeq(q, 1, walk.limit) ELSE q
<1>1. b = [data |-> d, nextCursor |-> IF Len(q) > walk.limit THEN CursorOf(Last(d)) ELSE NoCursor]
  BY DEF BuildPaginationResult
<1>2. d = SubSeq(q, 1, k)
  BY SubSeqFull
<1> HIDE DEF d
<1>3. b.data = d /\ b.nextCursor = IF Len(q) > walk.limit THEN CursorOf(Last(d)) ELSE NoCursor
  BY <1>1
<1>4. Len(SubSeq(q, 1, k)) = k
  <2>1. walk.limit \in Nat /\ Len(q) \in Nat
    BY LimitNat, LenProperties
  <2>2. k \in Nat /\ \A i \in 1..k : i \in 1..Len(q)
    BY <2>1
  <2>3. \A i \in 1..k : q[i] \in S
    BY <2>2, ElementOfSeq
  <2>4. Len(SubSeq(q, 1, k)) = (IF 1 <= k THEN k - 1 + 1 ELSE 0)
    BY <2>2, <2>3, SubSeqProperties
  <2>5. (IF 1 <= k THEN k - 1 + 1 ELSE 0) = k
    BY <2>2
  <2> QED
    BY <2>4, <2>5
<1> QED
  BY <1>2, <1>3, <1>4

(* The first limit of more rows than that, or all of them.                 *)
LEMMA PageFirst ==
  ASSUME WalkTypeOK, NEW S, Distinct(S), NEW q, IsFirst(q, S, walk.limit + 1),
         NEW b, b = BuildPaginationResult(q)
  PROVE  /\ IsFirst(b.data, S, walk.limit)
         /\ \/ b.nextCursor = NoCursor /\ Range(b.data) = S
            \/ b.nextCursor = CursorOf(Last(b.data)) /\ Len(b.data) = walk.limit
<1> DEFINE l == Len(q)
           n == walk.limit
           m == n + 1
           k == IF l > n THEN n ELSE l
<1>1. n \in Nat \ {0}
  BY LimitNat
<1>2. l \in Nat /\ l <= m /\ q \in Seq(S)
  BY LenProperties DEF IsFirst
<1>3. /\ b.data = SubSeq(q, 1, k)
      /\ IF l > n THEN b.nextCursor = CursorOf(Last(b.data)) ELSE b.nextCursor = NoCursor
  BY <1>2, PageOf
<1>4. l = Len(q) /\ n = walk.limit
  OBVIOUS
<1> HIDE DEF l, n
<1>5. m \in Nat \ {0} /\ n <= m
  BY <1>1
<1>6. IsFirst(q, S, m)
  BY <1>4
<1>7. ~(l > n) => l < m
  BY <1>1, <1>2
<1> HIDE DEF m
<1>8. /\ IsFirst(SubSeq(q, 1, k), S, n)
      /\ Len(SubSeq(q, 1, k)) = k
      /\ Len(q) < m => Range(q) = S
  BY <1>1, <1>4, <1>5, <1>6, FirstOf
<1>9. ~(l > n) => b.data = q
  BY <1>2, <1>3, <1>4, SubSeqFull
<1> QED
  BY <1>3, <1>4, <1>7, <1>8, <1>9

(* The first of two lists of which one precedes the other are the first of *)
(* both.                                                                   *)
LEMMA MergedFirst ==
  ASSUME NEW A, NEW B, Distinct(A \cup B), \A x \in A, y \in B : Precedes(x, y),
         NEW n \in Nat \ {0}, NEW a, IsFirst(a, A, n), NEW b, IsFirst(b, B, n),
         NEW k, k = (IF Len(a \o b) > n THEN n ELSE Len(a \o b))
  PROVE  a \o b \in Seq(A \cup B) /\ IsFirst(SubSeq(a \o b, 1, k), A \cup B, n)
<1> DEFINE la == Len(a)
           lb == Len(b)
           w == a \o b
           S == A \cup B
           q == SubSeq(w, 1, k)
<1>1. /\ a \in Seq(A) /\ b \in Seq(B) /\ la <= n /\ lb <= n /\ InOrder(a) /\ InOrder(b)
      /\ \A r \in A \ Range(a) : la = n /\ Precedes(a[la], r)
      /\ \A r \in B \ Range(b) : lb = n /\ Precedes(b[lb], r)
  BY DEF IsFirst, Last
<1>2. /\ la \in Nat /\ DOMAIN a = 1..la /\ \A i \in 1..la : a[i] \in A
      /\ lb \in Nat /\ DOMAIN b = 1..lb /\ \A i \in 1..lb : b[i] \in B
  BY <1>1, LenProperties, ElementOfSeq
<1>3. w \in Seq(S) /\ Len(w) = la + lb /\ DOMAIN w = 1..(la + lb)
      /\ \A i \in 1..(la + lb) : w[i] = IF i <= la THEN a[i] ELSE b[i - la]
  <2>1. a \in Seq(S) /\ b \in Seq(S)
    BY <1>1, SeqMonotonic
  <2>2. w \in Seq(S) /\ Len(w) = la + lb
        /\ \A i \in 1..(la + lb) : w[i] = IF i <= la THEN a[i] ELSE b[i - la]
    BY <2>1, ConcatProperties
  <2> HIDE DEF w
  <2> QED
    BY <2>2, LenProperties
<1>4. k = IF la + lb > n THEN n ELSE la + lb
  BY <1>3
<1> HIDE DEF la, lb, w, S
<1>5. /\ \A i \in 1..la : i \in 1..(la + lb) /\ w[i] = a[i]
      /\ \A i \in 1..lb : la + i \in 1..(la + lb) /\ w[la + i] = b[i]
      /\ \A i \in 1..(la + lb) : i \in 1..la \/ (i - la \in 1..lb /\ w[i] = b[i - la] /\ la < i)
  <2>1. la \in Nat /\ lb \in Nat
    BY <1>2
  <2>2. ASSUME NEW i \in 1..la PROVE i \in 1..(la + lb) /\ w[i] = a[i]
    <3>1. i \in 1..(la + lb) /\ i <= la
      BY <2>1
    <3> QED
      BY <1>3, <3>1
  <2>3. ASSUME NEW i \in 1..lb PROVE la + i \in 1..(la + lb) /\ w[la + i] = b[i]
    <3>1. la + i \in 1..(la + lb) /\ ~(la + i <= la) /\ la + i - la = i
      BY <2>1
    <3> QED
      BY <1>3, <2>1, <3>1
  <2>4. ASSUME NEW i \in 1..(la + lb), i \notin 1..la
        PROVE  i - la \in 1..lb /\ w[i] = b[i - la] /\ la < i
    <3>1. i - la \in 1..lb /\ ~(i <= la) /\ la < i
      BY <2>1, <2>4
    <3> QED
      BY <1>3, <3>1
  <2> QED
    BY <2>2, <2>3, <2>4
<1>6. \A i, j \in 1..(la + lb) : i < j => Precedes(w[i], w[j])
  <2> SUFFICES ASSUME NEW i \in 1..(la + lb), NEW j \in 1..(la + lb), i < j
               PROVE  Precedes(w[i], w[j])
    OBVIOUS
  <2>0. la \in Nat /\ lb \in Nat
    BY <1>2
  <2>1. CASE i \in 1..la /\ j \in 1..la
    BY <1>1, <1>2, <1>5, <2>1 DEF InOrder
  <2>2. CASE i \in 1..la /\ j \notin 1..la
    BY <1>2, <1>5, <2>2
  <2>3. CASE i \notin 1..la
    <3>1. j \notin 1..la /\ i - la < j - la
      BY <2>0, <2>3
    <3>2. i - la \in 1..lb /\ j - la \in 1..lb /\ w[i] = b[i - la] /\ w[j] = b[j - la]
      BY <1>5, <2>3, <3>1
    <3> QED
      BY <1>1, <1>2, <3>1, <3>2 DEF InOrder
  <2> QED
    BY <2>1, <2>2, <2>3
<1>7. /\ k \in Nat /\ k <= n /\ k <= la + lb /\ (k < la + lb => k = n)
      /\ (la = n => k = n /\ n \in 1..la) /\ (lb = n => k = n /\ n \in 1..lb)
  <2>1. la \in Nat /\ lb \in Nat
    BY <1>2
  <2> QED
    BY <1>4, <2>1
<1>8. \A i \in 1..k : i \in 1..(la + lb)
  <2>1. la + lb \in Nat
    BY <1>2
  <2> QED
    BY <1>7, <2>1
<1>9. q \in Seq(S) /\ Len(q) = k /\ DOMAIN q = 1..k /\ \A i \in 1..k : q[i] = w[i]
  <2>1. \A i \in 1..(la + lb) : w[i] \in S
    <3> QED
      BY <1>3, ElementOfSeq
  <2>2. q \in Seq(S) /\ Len(q) = (IF 1 <= k THEN k - 1 + 1 ELSE 0)
        /\ \A i \in 1..(k - 1 + 1) : q[i] = w[1 + i - 1]
    BY <1>7, <1>8, <2>1, SubSeqProperties
  <2>3. (IF 1 <= k THEN k - 1 + 1 ELSE 0) = k /\ k - 1 + 1 = k /\ \A i \in 1..k : 1 + i - 1 = i
    BY <1>7
  <2> HIDE DEF q
  <2>4. Len(q) = k /\ \A i \in 1..k : q[i] = w[i]
    BY <2>2, <2>3
  <2> QED
    BY <2>2, <2>4, LenProperties
<1> HIDE DEF q
<1>10. InOrder(q)
  BY <1>6, <1>8, <1>9 DEF InOrder
<1>11. ASSUME NEW r \in S \ Range(q) PROVE k = n /\ Precedes(q[k], r)
  <2>1. CASE r \in Range(w)
    <3>1. PICK i \in 1..(la + lb) : w[i] = r
      BY <1>3, <2>1 DEF Range
    <3>2. i \notin 1..k
      BY <1>9, <1>11, <3>1 DEF Range
    <3>3. la + lb \in Nat
      BY <1>2
    <3>4. k < i /\ k = n /\ k \in 1..(la + lb) /\ k \in 1..k
      BY <1>7, <3>2, <3>3
    <3> QED
      BY <1>6, <1>9, <3>1, <3>4
  <2>2. CASE r \in A \ Range(w)
    <3>1. r \notin Range(a)
      BY <1>2, <1>3, <1>5, <2>2 DEF Range
    <3>2. la = n /\ Precedes(a[la], r)
      BY <1>1, <2>2, <3>1
    <3>3. k = n /\ w[k] = a[la] /\ k \in 1..k
      BY <1>5, <1>7, <3>2
    <3> QED
      BY <1>9, <3>2, <3>3
  <2>3. CASE r \in B \ Range(w)
    <3>1. r \notin Range(b)
      BY <1>2, <1>3, <1>5, <2>3 DEF Range
    <3>2. lb = n /\ Precedes(b[lb], r)
      BY <1>1, <2>3, <3>1
    <3>3. k = n /\ k \in 1..k /\ lb \in 1..lb /\ k \in 1..(la + lb)
      BY <1>7, <1>8, <3>2
    <3>4. CASE k \in 1..la
      BY <1>2, <1>5, <1>9, <2>3, <3>3, <3>4
    <3>5. CASE k \notin 1..la
      <4>1. k - la \in 1..lb /\ w[k] = b[k - la]
        BY <1>5, <3>3, <3>5
      <4>2. CASE k - la = lb
        BY <1>9, <3>2, <3>3, <4>1, <4>2
      <4>3. CASE k - la # lb
        <5>1. k - la < lb
          <6>1. la \in Nat /\ lb \in Nat
            BY <1>2
          <6> QED
            BY <1>7, <4>1, <4>3, <6>1
        <5>2. Precedes(b[k - la], b[lb])
          BY <1>1, <1>2, <3>3, <4>1, <5>1 DEF InOrder
        <5>3. b[k - la] \in ListedOrder /\ b[lb] \in ListedOrder /\ r \in ListedOrder
          BY <1>2, <2>3, <3>3, <4>1 DEF Distinct
        <5>4. Precedes(b[k - la], r)
          BY <3>2, <5>2, <5>3, PrecedesOrder
        <5> QED
          BY <1>9, <3>3, <4>1, <5>4
      <4> QED
        BY <4>2, <4>3
    <3> QED
      BY <3>4, <3>5
  <2> QED
    BY <1>11, <2>1, <2>2, <2>3 DEF S
<1>12. IsFirst(q, S, n)
  BY <1>7, <1>9, <1>10, <1>11 DEF IsFirst, Last
<1> QED
  BY <1>3, <1>12 DEF q, w, S

(* What the next page is taken from.                                       *)
Remaining == Matching("hot") \cup Matching("archive")

(* What remains are rows, told apart by their ids.                         *)
LEMMA RemainingDistinct ==
  WalkTypeOK /\ RowsApart => Remaining \subseteq rows /\ Distinct(Remaining)
<1>1. Remaining \subseteq rows
  BY ListedAreRows DEF Remaining, Matching
<1> QED
  BY <1>1 DEF WalkTypeOK, RowsApart, Distinct

(* Across the clusters, the archive's orders are older than the hot ones.  *)
LEMMA AcrossOrder ==
  ASSUME WalkTypeOK, walk.source = "across",
         NEW x \in Matching("archive"), NEW y \in Matching("hot")
  PROVE  IF walk.order = "asc" THEN Precedes(x, y) ELSE Precedes(y, x)
<1>1. x \in rows /\ x.home = "archive" /\ y \in rows /\ y.home = "hot"
  BY ListedAreRows DEF Matching, Listed
<1>2. ~(x.t >= YearStart) /\ y.t >= YearStart
  BY <1>1 DEF Matching, Listed, BranchOrders
<1>3. x.t \in Nat /\ y.t \in Nat /\ YearStart \in Nat
  <2>1. YearStart \in Times /\ MaxTime \in Nat
    BY PaginationAssumption DEF Times
  <2>2. YearStart \in Nat
    BY <2>1 DEF Times
  <2> QED
    BY <1>1, <2>2, OrderFields DEF WalkTypeOK
<1>4. x.t < y.t
  BY <1>2, <1>3
<1> QED
  BY <1>4 DEF Precedes

(* The next page holds the first of what remains; if it has no cursor and  *)
(* one cluster was read, it holds all of it.                               *)
LEMMA ResultFirst ==
  ASSUME WalkTypeOK, RowsApart, NEW b, b = Result
  PROVE  /\ IsFirst(b.data, Remaining, walk.limit)
         /\ \/ b.nextCursor = NoCursor /\ (walk.source # "across" => Range(b.data) = Remaining)
            \/ b.nextCursor = CursorOf(Last(b.data)) /\ Len(b.data) = walk.limit
<1>0. Distinct(Remaining) /\ walk.limit \in Nat \ {0}
  BY LimitNat, RemainingDistinct
<1>1. CASE walk.source # "across"
  <2> DEFINE home == IF walk.source = "archive" THEN "archive" ELSE "hot"
  <2>1. b = BuildPaginationResult(QueryRows(home))
    BY <1>1 DEF Result, YearCluster
  <2>2. Remaining = Matching(home)
    <3>1. walk.source \in {"hot", "archive", "customer", "export"}
      BY <1>1 DEF WalkTypeOK, Walks
    <3>2. \A r \in Listed(walk, rows, "hot") : home = "hot"
      BY <1>1, <3>1 DEF Listed, BranchOrders
    <3>3. \A r \in Listed(walk, rows, "archive") : home = "archive"
      BY <1>1, <3>1 DEF Listed, BranchOrders, FindOrdersByCustomer, FindOrdersForBackfill,
                        ThisYear, YearCluster
    <3> QED
      BY <3>2, <3>3 DEF Remaining, Matching
  <2>3. IsFirst(QueryRows(home), Remaining, walk.limit + 1)
    BY <2>2, QueryFirst
  <2> HIDE DEF home
  <2> QED
    BY <1>0, <2>1, <2>3, PageFirst
<1>2. CASE walk.source = "across"
  <2> DEFINE recent == BuildPaginationResult(QueryRows("hot")).data
             older == BuildPaginationResult(QueryRows("archive")).data
             H == Matching("hot")
             A == Matching("archive")
             n == walk.limit
             w == Merge(recent, older)
             k == IF Len(w) > n THEN n ELSE Len(w)
  <2>1. IsFirst(recent, H, n) /\ IsFirst(older, A, n)
    <3>1. ASSUME NEW home PROVE IsFirst(BuildPaginationResult(QueryRows(home)).data, Matching(home), n)
      <4>1. Distinct(Matching(home)) /\ IsFirst(QueryRows(home), Matching(home), n + 1)
        BY QueryFirst
      <4> QED
        BY <4>1, PageFirst
    <3> QED
      BY <3>1
  <2>2. H \cup A = Remaining /\ A \cup H = Remaining
    BY DEF Remaining
  <2>3. b = BuildPaginationResult(w)
    BY <1>2 DEF Result
  <2>4. \A x \in A, y \in H : IF walk.order = "asc" THEN Precedes(x, y) ELSE Precedes(y, x)
    BY <1>2, AcrossOrder
  <2>5. w = IF walk.order = "asc" THEN older \o recent ELSE recent \o older
    BY DEF Merge
  <2> HIDE DEF recent, older, H, A, w
  <2>6. w \in Seq(Remaining) /\ IsFirst(SubSeq(w, 1, k), Remaining, n)
    <3>1. CASE walk.order = "asc"
      <4>1. \A x \in A, y \in H : Precedes(x, y)
        BY <2>4, <3>1
      <4>2. w = older \o recent
        BY <2>5, <3>1
      <4>3. Distinct(A \cup H) /\ n \in Nat \ {0}
        BY <1>0, <2>2
      <4>4. older \o recent \in Seq(A \cup H) /\ IsFirst(SubSeq(older \o recent, 1, k), A \cup H, n)
        <5> HIDE DEF n
        <5> QED
          BY <2>1, <4>1, <4>2, <4>3, MergedFirst
      <4> QED
        BY <2>2, <4>2, <4>4
    <3>2. CASE walk.order # "asc"
      <4>1. \A x \in H, y \in A : Precedes(x, y)
        BY <2>4, <3>2
      <4>2. w = recent \o older
        BY <2>5, <3>2
      <4>3. Distinct(H \cup A) /\ n \in Nat \ {0}
        BY <1>0, <2>2
      <4>4. recent \o older \in Seq(H \cup A) /\ IsFirst(SubSeq(recent \o older, 1, k), H \cup A, n)
        <5> HIDE DEF n
        <5> QED
          BY <2>1, <4>1, <4>2, <4>3, MergedFirst
      <4> QED
        BY <2>2, <4>2, <4>4
    <3> QED
      BY <3>1, <3>2
  <2>7. /\ b.data = SubSeq(w, 1, k) /\ Len(b.data) = k
        /\ IF Len(w) > n THEN b.nextCursor = CursorOf(Last(b.data)) ELSE b.nextCursor = NoCursor
    BY <2>3, <2>6, PageOf
  <2> QED
    BY <1>2, <2>6, <2>7
<1> QED
  BY <1>1, <1>2

-----------------------------------------------------------------------------
(* Milliseconds.                                                           *)

(* A time cut to its millisecond is the start of that millisecond.         *)
LEMMA MsBounds ==
  ASSUME NEW t \in Nat
  PROVE  /\ Ms(t) \in Nat
         /\ Ms(t) * PerMs \in Nat /\ Ms(t) * PerMs <= t /\ t < Ms(t) * PerMs + PerMs
         /\ (Ms(t) * PerMs) % PerMs = 0
         /\ t % PerMs = 0 => Ms(t) * PerMs = t
<1> DEFINE p == PerMs
           q == t \div p
<1>1. p \in Nat \ {0}
  BY PaginationAssumption
<1> HIDE DEF p
<1>2. q \in Nat /\ t = p * q + (t % p) /\ t % p \in 0..(p - 1)
  BY <1>1
<1>3. Ms(t) = q /\ PerMs = p
  BY DEF Ms, p
<1> HIDE DEF q
<1>4. q * p \in Nat /\ q * p = p * q
  BY <1>1, <1>2
<1>5. (q * p) % p = 0
  BY <1>1, <1>2
<1> QED
  BY <1>1, <1>2, <1>3, <1>4, <1>5

(* Between the start of a time's millisecond and the time, all times are   *)
(* of that millisecond.                                                    *)
LEMMA SameMs ==
  ASSUME NEW t \in Nat, NEW u \in Nat, Ms(u) * PerMs <= t, t <= u
  PROVE  Ms(t) = Ms(u)
<1> DEFINE p == PerMs
           a == Ms(t)
           b == Ms(u)
<1>1. p \in Nat \ {0}
  BY PaginationAssumption
<1>2. /\ a \in Nat /\ a * p \in Nat /\ a * p <= t /\ t < a * p + p
      /\ b \in Nat /\ b * p \in Nat /\ b * p <= u /\ u < b * p + p
  BY MsBounds
<1>3. b * p <= t /\ t <= u
  OBVIOUS
<1> HIDE DEF p, a, b
<1>4. ASSUME a < b PROVE FALSE
  <2>1. a * p + p <= b * p
    BY <1>1, <1>2, <1>4
  <2> QED
    BY <1>1, <1>2, <1>3, <2>1
<1>5. ASSUME b < a PROVE FALSE
  <2>1. b * p + p <= a * p
    BY <1>1, <1>2, <1>5
  <2> QED
    BY <1>1, <1>2, <1>3, <2>1
<1> QED
  BY <1>2, <1>4, <1>5 DEF a, b

(* A cursor is of its order, at most a millisecond older, and never the    *)
(* one that means the end.                                                 *)
LEMMA CursorFacts ==
  ASSUME NEW r \in ListedOrder
  PROVE  /\ CursorOf(r) \in [t : {t \in Times : t % PerMs = 0}, id : Ids \cup {0}]
         /\ CursorOf(r) # NoCursor
         /\ CursorOf(r).id = r.id /\ CursorOf(r).t \in Nat /\ CursorOf(r).t <= r.t
         /\ CursorOf(r).t = Ms(r.t) * PerMs
         /\ r.t % PerMs = 0 => CursorOf(r).t = r.t
<1> DEFINE c == Ms(r.t) * PerMs
<1>1. r.t \in Nat /\ r.t \in Times /\ r.id \in Ids /\ r.id # 0
  BY OrderFields
<1>2. c \in Nat /\ c <= r.t /\ c % PerMs = 0 /\ (r.t % PerMs = 0 => c = r.t)
  BY <1>1, MsBounds
<1>3. CursorOf(r) = [t |-> c, id |-> r.id] /\ NoCursor = [t |-> 0, id |-> 0]
  BY DEF CursorOf, NoCursor
<1>4. c = Ms(r.t) * PerMs
  OBVIOUS
<1> HIDE DEF c
<1>5. c \in Times
  <2>1. MaxTime \in Nat
    BY PaginationAssumption
  <2> QED
    BY <1>1, <1>2, <2>1 DEF Times
<1> QED
  BY <1>1, <1>2, <1>3, <1>4, <1>5

(* What follows an order follows its cursor, or, newest first, lies in the *)
(* order's millisecond.                                                    *)
LEMMA BehindCursor ==
  ASSUME NEW last \in ListedOrder, NEW r \in ListedOrder, Precedes(last, r)
  PROVE  /\ Precedes(CursorOf(last), r) \/ Ms(r.t) = Ms(last.t)
         /\ last.t % PerMs = 0 => Precedes(CursorOf(last), r)
<1> DEFINE c == CursorOf(last)
<1>1. /\ last.t \in Nat /\ last.id \in Nat /\ r.t \in Nat /\ r.id \in Nat
      /\ c.id = last.id /\ c.t \in Nat /\ c.t <= last.t
      /\ last.t % PerMs = 0 => c.t = last.t
  BY OrderFields, CursorFacts
<1>2. c.t <= r.t /\ r.t <= last.t => Ms(r.t) = Ms(last.t)
  BY <1>1, CursorFacts, SameMs
<1> HIDE DEF c
<1>3. CASE walk.order = "asc"
  <2>1. Precedes(c, r)
    BY <1>1, <1>3 DEF Precedes
  <2> QED
    BY <2>1 DEF c
<1>4. CASE walk.order # "asc"
  <2>1. r.t <= last.t
    BY <1>1, <1>4 DEF Precedes
  <2>2. Precedes(c, r) \/ c.t <= r.t
    BY <1>1, <1>4 DEF Precedes
  <2>3. last.t % PerMs = 0 => Precedes(c, r)
    BY <1>1, <1>4 DEF Precedes
  <2> QED
    BY <1>2, <2>1, <2>2, <2>3 DEF c
<1> QED
  BY <1>3, <1>4

(* What follows the cursor of an order follows the order or, oldest first, *)
(* lies in its millisecond.                                                *)
LEMMA CursorBehind ==
  ASSUME NEW last \in ListedOrder, NEW r \in ListedOrder, Precedes(CursorOf(last), r)
  PROVE  Precedes(last, r) \/ Ms(r.t) = Ms(last.t)
<1> DEFINE c == CursorOf(last)
<1>1. /\ last.t \in Nat /\ last.id \in Nat /\ r.t \in Nat /\ r.id \in Nat
      /\ c.id = last.id /\ c.t \in Nat /\ c.t <= last.t
  BY OrderFields, CursorFacts
<1>2. c.t <= r.t /\ r.t <= last.t => Ms(r.t) = Ms(last.t)
  BY <1>1, CursorFacts, SameMs
<1>3. Precedes(c, r)
  OBVIOUS
<1> HIDE DEF c
<1>4. CASE walk.order = "asc"
  <2>1. c.t <= r.t
    BY <1>1, <1>3, <1>4 DEF Precedes
  <2>2. r.t <= last.t \/ Precedes(last, r)
    BY <1>1, <1>4 DEF Precedes
  <2> QED
    BY <1>2, <2>1, <2>2
<1>5. CASE walk.order # "asc"
  BY <1>1, <1>3, <1>5 DEF Precedes
<1> QED
  BY <1>4, <1>5

-----------------------------------------------------------------------------
(* The inductive invariant.                                                *)

WalkInv == WalkTypeOK /\ RowsApart /\ CursorFollows /\ AlwaysListed /\ Returned

(* Whether a walk lists an order is a matter of the order alone.           *)
InList(w, r) == \E home \in {"hot", "archive"} : r \in Listed(w, {r}, home)

LEMMA ListedOneByOne ==
  ASSUME NEW w, NEW R
  PROVE  /\ Listed(w, R, "hot") \cup Listed(w, R, "archive") = {r \in R : InList(w, r)}
         /\ ListedIds(w, R) = {r.id : r \in {s \in R : InList(w, s)}}
<1>1. ASSUME NEW home PROVE Listed(w, R, home) = {r \in R : r \in Listed(w, {r}, home)}
  <2>1. CASE w.source = "customer"
    BY <2>1 DEF Listed, FindOrdersByCustomer, ThisYear
  <2>2. CASE w.source = "export"
    BY <2>2 DEF Listed, FindOrdersForBackfill, ThisYear
  <2>3. CASE w.source # "customer" /\ w.source # "export"
    BY <2>3 DEF Listed, BranchOrders
  <2> QED
    BY <2>1, <2>2, <2>3
<1>2. Listed(w, R, "hot") \cup Listed(w, R, "archive") = {r \in R : InList(w, r)}
  BY <1>1 DEF InList
<1> QED
  BY <1>2 DEF ListedIds

(* A paid order stays listed; a moved one was listed by a list of the hot  *)
(* cluster only.                                                           *)
LEMMA InListKept ==
  ASSUME NEW w \in Walks, NEW r \in ListedOrder
  PROVE  /\ InList(w, r) => InList(w, [r EXCEPT !.pending = FALSE])
         /\ InList(w, r) /\ r.home = "hot" /\ ~(r.t >= YearStart) => w.source = "hot"
<1> DEFINE s == [r EXCEPT !.pending = FALSE]
<1>1. s.t = r.t /\ s.home = r.home /\ s.pending = FALSE
  BY DEF ListedOrder
<1> HIDE DEF s
<1>2. CASE w.source = "customer"
  <2>1. \A x : InList(w, x) <=> x.home = "hot" /\ x.t >= YearStart
    BY <1>2 DEF InList, Listed, FindOrdersByCustomer, ThisYear, YearCluster
  <2> QED
    BY <1>1, <2>1 DEF s
<1>3. CASE w.source = "export"
  <2>1. \A x : InList(w, x) <=> x.home = "hot" /\ x.t >= YearStart /\ ~x.pending
    BY <1>3 DEF InList, Listed, FindOrdersForBackfill, ThisYear, YearCluster
  <2> QED
    BY <1>1, <2>1 DEF s
<1>4. CASE w.source \in {"hot", "archive", "across"}
  <2>1. \A x : InList(w, x) <=> /\ x.home \in {"hot", "archive"}
                               /\ \/ w.source = x.home
                                  \/ w.source = "across" /\ (x.home = "hot" <=> x.t >= YearStart)
    BY <1>4 DEF InList, Listed, BranchOrders
  <2> QED
    BY <1>1, <2>1 DEF s
<1>5. w.source \in {"hot", "archive", "across", "customer", "export"}
  BY DEF Walks
<1> QED
  BY <1>2, <1>3, <1>4, <1>5

(* Nothing was returned, and everything is behind no cursor.               *)
LEMMA WalkInitInv == WalkInit => WalkInv
<1> SUFFICES ASSUME WalkInit PROVE WalkInv
  OBVIOUS
<1>1. /\ walk \in Walks /\ cursor = NoCursor /\ page = <<>> /\ ended = FALSE
      /\ times = [i \in Ids |-> 0] /\ always = ListedIds(walk, rows) /\ edges = {}
  BY DEF WalkInit
<1>2. PICK there \in SUBSET Initially : \E t \in [there -> {u \in Times : Allowed(walk, u)}] :
           \E old \in SUBSET {i \in there : t[i] < YearStart}, unpaid \in [there -> Pending(walk)] :
             rows = {[id |-> i, t |-> t[i], home |-> IF i \in old THEN "archive" ELSE "hot",
                      pending |-> unpaid[i]] : i \in there}
  BY DEF WalkInit
<1>3. PICK t \in [there -> {u \in Times : Allowed(walk, u)}] :
           \E old \in SUBSET {i \in there : t[i] < YearStart}, unpaid \in [there -> Pending(walk)] :
             rows = {[id |-> i, t |-> t[i], home |-> IF i \in old THEN "archive" ELSE "hot",
                      pending |-> unpaid[i]] : i \in there}
  BY <1>2
<1>4. PICK old \in SUBSET {i \in there : t[i] < YearStart}, unpaid \in [there -> Pending(walk)] :
             rows = {[id |-> i, t |-> t[i], home |-> IF i \in old THEN "archive" ELSE "hot",
                      pending |-> unpaid[i]] : i \in there}
  BY <1>3
<1> DEFINE row == [i \in there |-> [id |-> i, t |-> t[i],
                                    home |-> IF i \in old THEN "archive" ELSE "hot",
                                    pending |-> unpaid[i]]]
<1>5. rows = {row[i] : i \in there} /\ \A i \in there : row[i].id = i /\ row[i].t = t[i]
  BY <1>4
<1>6. \A i \in there : row[i] \in ListedOrder /\ Allowed(walk, row[i].t)
  <2> SUFFICES ASSUME NEW i \in there PROVE row[i] \in ListedOrder /\ Allowed(walk, row[i].t)
    OBVIOUS
  <2>1. i \in Ids
    <3>1. Initially \subseteq Ids
      BY PaginationAssumption
    <3> QED
      BY <3>1
  <2>2. t[i] \in Times /\ Allowed(walk, t[i])
    BY <1>3
  <2>3. unpaid[i] \in BOOLEAN
    BY <1>4 DEF Pending
  <2> QED
    BY <2>1, <2>2, <2>3 DEF ListedOrder
<1>7. IsFiniteSet(there)
  <2>1. IsFiniteSet(Initially)
    BY PaginationAssumption
  <2> QED
    BY <2>1, FS_Subset
<1> HIDE DEF row
<1>8. RowsApart
  <2>1. row \in Surjection(there, rows)
    <3>1. row \in [there -> rows]
      <4>1. row = [i \in there |-> row[i]]
        BY Zenon DEF row
      <4> QED
        BY <1>5, <4>1
    <3> QED
      BY <1>5, <3>1 DEF Surjection
  <2>2. IsFiniteSet(rows)
    BY <1>7, <2>1, FS_Surjection
  <2> QED
    BY <1>5, <1>6, <2>2 DEF RowsApart
<1>9. WalkTypeOK
  <2>1. rows \subseteq ListedOrder
    BY <1>5, <1>6
  <2>2. cursor \in [t : {u \in Times : u % PerMs = 0}, id : Ids \cup {0}]
    <3>1. MaxTime \in Nat /\ PerMs \in Nat \ {0}
      BY PaginationAssumption
    <3>2. 0 \in Times /\ 0 % PerMs = 0
      BY <3>1 DEF Times
    <3> QED
      BY <1>1, <3>2 DEF NoCursor
  <2>3. page \in Seq(ListedOrder) /\ Len(page) <= walk.limit
    <3>1. walk.limit \in Nat
      <4>1. walk.limit \in Limits /\ Limits \subseteq Nat \ {0}
        BY <1>1, PaginationAssumption DEF Walks
      <4> QED
        BY <4>1
    <3> QED
      BY <1>1, <3>1, EmptySeq
  <2>4. always \subseteq Ids
    <3>1. \A r \in rows : r.id \in Ids
      BY <2>1, OrderFields
    <3> QED
      BY <1>1, <3>1, ListedOneByOne
  <2>5. ended \in BOOLEAN /\ times \in [Ids -> 0..2] /\ edges \subseteq {Ms(u) : u \in Times}
    <3>1. ended \in BOOLEAN /\ edges \subseteq {Ms(u) : u \in Times}
      BY <1>1, Zenon
    <3>2. 0 \in 0..2
      OBVIOUS
    <3>3. times \in [Ids -> 0..2]
      BY <1>1, <3>2, Zenon
    <3> QED
      BY <3>1, <3>3
  <2>6. walk \in Walks
    BY <1>1
  <2> QED
    BY <2>1, <2>2, <2>3, <2>4, <2>5, <2>6, Zenon DEF WalkTypeOK
<1>10. CursorFollows /\ AlwaysListed
  BY <1>1 DEF CursorFollows, AlwaysListed
<1>11. Returned
  <2>1. \A i \in Ids : times[i] = 0
    BY <1>1
  <2>2. \A r \in rows : r.id \in Ids /\ After(r)
    BY <1>1, <1>9, OrderFields DEF WalkTypeOK, After
  <2> QED
    BY <1>1, <2>1, <2>2 DEF Returned
<1> QED
  BY <1>8, <1>9, <1>10, <1>11 DEF WalkInv

(* What a page does: it ends the walk with all that remains of it, or it   *)
(* is followed by what it leaves.                                          *)
LEMMA FetchFacts ==
  ASSUME WalkInv, FetchPage
  PROVE  /\ IsFirst(page', Remaining, walk.limit)
         /\ Range(page') \subseteq Remaining /\ Remaining \subseteq rows
         /\ page' \in Seq(ListedOrder) /\ Len(page') <= walk.limit
         /\ \/ /\ ended' /\ cursor' = NoCursor
               /\ walk.source # "across" => Range(page') = Remaining
            \/ /\ ~ended' /\ page' # <<>> /\ Last(page') \in Remaining
               /\ cursor' = CursorOf(Last(page')) /\ cursor' # NoCursor
               /\ \A r \in Range(page') : r = Last(page') \/ Precedes(r, Last(page'))
               /\ \A r \in Remaining \ Range(page') : Precedes(Last(page'), r)
<1> DEFINE n == walk.limit
           l == Len(page')
<1>1. WalkTypeOK /\ RowsApart
  BY DEF WalkInv
<1>2. page' = Result.data /\ cursor' = Result.nextCursor /\ ended' = (cursor' = NoCursor)
  BY DEF FetchPage
<1>3. /\ IsFirst(page', Remaining, n)
      /\ \/ cursor' = NoCursor /\ (walk.source # "across" => Range(page') = Remaining)
         \/ cursor' = CursorOf(Last(page')) /\ l = n
  BY <1>1, <1>2, ResultFirst
<1>4. Remaining \subseteq rows /\ Remaining \subseteq ListedOrder
  BY <1>1, RemainingDistinct DEF Distinct
<1>5. /\ page' \in Seq(Remaining) /\ l <= n /\ InOrder(page')
      /\ \A r \in Remaining \ Range(page') : Precedes(Last(page'), r)
  BY <1>3 DEF IsFirst
<1>6. page' \in Seq(ListedOrder)
  BY <1>4, <1>5, SeqMonotonic
<1>7. l \in Nat /\ DOMAIN page' = 1..l /\ \A i \in 1..l : page'[i] \in Remaining
  BY <1>5, LenProperties, ElementOfSeq
<1>8. Range(page') \subseteq Remaining
  BY <1>7 DEF Range
<1>9. CASE cursor' # NoCursor
  <2>1. cursor' = CursorOf(Last(page')) /\ l = n
    BY <1>3, <1>9
  <2>2. l \in Nat \ {0}
    BY <1>1, <2>1, LimitNat
  <2>3. page' # <<>>
    BY <2>2
  <2>4. Last(page') = page'[l] /\ l \in 1..l
    BY <2>2 DEF Last
  <2>5. \A r \in Range(page') : r = Last(page') \/ Precedes(r, Last(page'))
    <3> SUFFICES ASSUME NEW i \in 1..l PROVE page'[i] = page'[l] \/ Precedes(page'[i], page'[l])
      BY <1>7, <2>4 DEF Range
    <3>1. i = l \/ i < l
      <4>1. l \in Nat
        BY <1>7
      <4> HIDE DEF l
      <4> QED
        BY <4>1
    <3> QED
      BY <1>5, <1>7, <2>4, <3>1 DEF InOrder
  <2> QED
    BY <1>2, <1>3, <1>4, <1>5, <1>6, <1>7, <1>8, <1>9, <2>1, <2>3, <2>4, <2>5
<1>10. CASE cursor' = NoCursor
  <2>1. walk.source # "across" => Range(page') = Remaining
    <3>1. CASE Len(page') = 0
      <4>1. l # n
        BY <1>1, <3>1, LimitNat
      <4> QED
        BY <1>3, <4>1
    <3>2. CASE Len(page') # 0
      <4>1. Last(page') \in ListedOrder
        BY <1>4, <1>7, <3>2 DEF Last
      <4>2. CursorOf(Last(page')) # NoCursor
        BY <4>1, CursorFacts
      <4> QED
        BY <1>3, <1>10, <4>2
    <3> QED
      BY <3>1, <3>2
  <2> QED
    BY <1>2, <1>3, <1>4, <1>5, <1>6, <1>8, <1>10, <2>1
<1> QED
  BY <1>9, <1>10

(* What was listed throughout and is not behind the cursor was returned    *)
(* once, or lies in a millisecond in which a page ended.                   *)
LEMMA FetchReturns ==
  ASSUME WalkInv, FetchPage
  PROVE  Returned'
<1>1. /\ WalkTypeOK /\ RowsApart /\ AlwaysListed /\ Returned
      /\ ~ended /\ walk' = walk /\ rows' = rows /\ always' = always
      /\ times' = [i \in Ids |-> IF times[i] < 2 /\ \E r \in Range(page') : r.id = i
                                 THEN times[i] + 1 ELSE times[i]]
      /\ edges' = IF ended' THEN edges ELSE edges \cup {Ms(Last(page').t)}
  BY DEF WalkInv, FetchPage
<1>2. \A r : After(r)' <=> cursor' = NoCursor \/ Precedes(cursor', r)
  BY <1>1 DEF After, Precedes
<1> SUFFICES ASSUME walk.source # "across", NEW r \in rows, r.id \in always
             PROVE  /\ walk.exact => times'[r.id] = IF ended' \/ ~After(r)' THEN 1 ELSE 0
                    /\ times'[r.id] = 0 => Ms(r.t) \in edges' \/ (~ended' /\ After(r)')
  BY <1>1 DEF Returned
<1>3. r \in ListedOrder /\ r.id \in Ids /\ r.t \in Nat /\ r.id \in Nat /\ Allowed(walk, r.t)
  BY <1>1, OrderFields DEF WalkTypeOK, RowsApart
<1>4. r \in Remaining <=> After(r)
  <2>1. r \in Listed(walk, rows, "hot") \cup Listed(walk, rows, "archive")
    <3>1. PICK s \in rows : s.id = r.id /\ s \in Listed(walk, rows, "hot") \cup Listed(walk, rows, "archive")
      BY <1>1, ListedAreRows DEF AlwaysListed, ListedIds
    <3> QED
      BY <1>1, <3>1 DEF RowsApart
  <2> QED
    BY <2>1 DEF Remaining, Matching
<1>5. times'[r.id] = IF times[r.id] < 2 /\ r \in Range(page') THEN times[r.id] + 1 ELSE times[r.id]
  <2>1. (\E s \in Range(page') : s.id = r.id) <=> r \in Range(page')
    BY <1>1, FetchFacts DEF RowsApart
  <2> QED
    BY <1>1, <1>3, <2>1
<1>6. /\ walk.exact => times[r.id] = IF ~After(r) THEN 1 ELSE 0
      /\ times[r.id] = 0 => Ms(r.t) \in edges \/ After(r)
      /\ times[r.id] \in 0..2
  BY <1>1, <1>3 DEF Returned, WalkTypeOK
<1> DEFINE x == times[r.id]
           y == times'[r.id]
<1>7. /\ x \in 0..2 /\ y = IF x < 2 /\ r \in Range(page') THEN x + 1 ELSE x
      /\ walk.exact => x = IF ~After(r) THEN 1 ELSE 0
      /\ x = 0 => Ms(r.t) \in edges \/ After(r)
  BY <1>5, <1>6
<1>8. edges \subseteq edges'
  BY <1>1
<1> HIDE DEF x, y
<1>9. CASE ended'
  <2>1. r \in Range(page') <=> After(r)
    BY <1>4, <1>9, FetchFacts
  <2>2. (walk.exact => y = 1) /\ (y = 0 => Ms(r.t) \in edges)
    BY <1>7, <2>1
  <2> QED
    BY <1>8, <1>9, <2>2 DEF y
<1>10. CASE ~ended'
  <2> DEFINE last == Last(page')
  <2>1. /\ last \in Remaining /\ cursor' = CursorOf(last) /\ cursor' # NoCursor
        /\ Range(page') \subseteq Remaining
        /\ \A s \in Range(page') : s = last \/ Precedes(s, last)
        /\ \A s \in Remaining \ Range(page') : Precedes(last, s)
    BY <1>10, FetchFacts
  <2>2. After(r)' <=> Precedes(CursorOf(last), r)
    BY <1>2, <2>1
  <2>3. last \in ListedOrder /\ last.t \in Nat /\ last.id \in Nat /\ After(last) /\ Allowed(walk, last.t)
    <3>1. last \in rows /\ After(last)
      BY <2>1, FetchFacts DEF Remaining, Matching
    <3> QED
      BY <1>1, <3>1, OrderFields DEF WalkTypeOK, RowsApart
  <2>4. /\ CursorOf(last).id = last.id /\ CursorOf(last).t \in Nat
        /\ walk.exact => CursorOf(last).t = last.t
    BY <2>3, CursorFacts DEF Allowed
  <2>5. Ms(last.t) \in edges'
    BY <1>1, <1>10
  <2> HIDE DEF last
  <2>6. CASE r \in Range(page')
    <3>1. After(r)
      BY <1>4, <2>1, <2>6
    <3>2. y # 0 /\ (walk.exact => y = 1)
      BY <1>7, <2>6, <3>1
    <3>3. walk.exact => ~After(r)'
      <4>1. r = last \/ Precedes(r, last)
        BY <2>1, <2>6
      <4> QED
        BY <1>3, <2>2, <2>3, <2>4, <4>1 DEF Precedes
    <3> QED
      BY <3>2, <3>3 DEF y
  <2>7. CASE After(r) /\ r \notin Range(page')
    <3>1. Precedes(last, r)
      BY <1>4, <2>1, <2>7
    <3>2. /\ Precedes(CursorOf(last), r) \/ Ms(r.t) = Ms(last.t)
          /\ walk.exact => Precedes(CursorOf(last), r)
      BY <1>3, <2>3, <3>1, BehindCursor DEF Allowed
    <3>3. (walk.exact => y = 0) /\ (After(r)' \/ Ms(r.t) \in edges') /\ (walk.exact => After(r)')
      BY <1>7, <2>2, <2>5, <2>7, <3>2
    <3> QED
      BY <1>10, <3>3 DEF y
  <2>8. CASE ~After(r)
    <3>1. y = x /\ (walk.exact => x = 1) /\ (x = 0 => Ms(r.t) \in edges)
      BY <1>4, <1>7, <2>1, <2>8
    <3>2. walk.exact => ~After(r)'
      <4>1. cursor # NoCursor /\ ~Precedes(cursor, r) /\ Precedes(cursor, last)
        BY <2>3, <2>8 DEF After
      <4>2. cursor.t \in Nat /\ cursor.id \in Nat
        <5>1. cursor.t \in Times /\ cursor.id \in Ids \cup {0}
          BY <1>1 DEF WalkTypeOK
        <5>2. MaxTime \in Nat /\ Ids \subseteq Nat \ {0}
          BY PaginationAssumption
        <5>3. Times \subseteq Nat /\ Ids \cup {0} \subseteq Nat
          BY <5>2 DEF Times
        <5> QED
          BY <5>1, <5>3
      <4> QED
        BY <1>3, <2>2, <2>3, <2>4, <4>1, <4>2 DEF Precedes
    <3> QED
      BY <1>8, <3>1, <3>2 DEF y
  <2> QED
    BY <2>6, <2>7, <2>8
<1> QED
  BY <1>9, <1>10

(* A page keeps the invariant.                                             *)
LEMMA FetchKeeps == WalkInv /\ FetchPage => WalkInv'
<1> SUFFICES ASSUME WalkInv, FetchPage PROVE WalkInv'
  OBVIOUS
<1>1. /\ WalkTypeOK /\ RowsApart /\ AlwaysListed
      /\ walk' = walk /\ rows' = rows /\ always' = always /\ ended' \in BOOLEAN
      /\ times' = [i \in Ids |-> IF times[i] < 2 /\ \E r \in Range(page') : r.id = i
                                 THEN times[i] + 1 ELSE times[i]]
      /\ edges' = IF ended' THEN edges ELSE edges \cup {Ms(Last(page').t)}
  BY DEF WalkInv, FetchPage
<1>2. ~ended' => Last(page') \in ListedOrder
  BY <1>1, FetchFacts DEF WalkTypeOK
<1>3. WalkTypeOK'
  <2>1. cursor' \in [t : {t \in Times : t % PerMs = 0}, id : Ids \cup {0}]
    <3>1. CASE ended'
      <4>1. MaxTime \in Nat /\ PerMs \in Nat \ {0}
        BY PaginationAssumption
      <4>2. 0 \in Times /\ 0 % PerMs = 0
        BY <4>1 DEF Times
      <4>3. cursor' = [t |-> 0, id |-> 0]
        BY <3>1, FetchFacts DEF NoCursor
      <4> QED
        BY <4>2, <4>3
    <3>2. CASE ~ended'
      BY <1>2, <3>2, CursorFacts, FetchFacts
    <3> QED
      BY <3>1, <3>2
  <2>2. page' \in Seq(ListedOrder) /\ Len(page') <= walk'.limit
    BY <1>1, FetchFacts
  <2>3. times' \in [Ids -> 0..2]
    <3>1. \A i \in Ids : times[i] \in 0..2
      BY <1>1 DEF WalkTypeOK
    <3>2. ASSUME NEW i \in Ids
          PROVE  (IF times[i] < 2 /\ \E r \in Range(page') : r.id = i
                  THEN times[i] + 1 ELSE times[i]) \in 0..2
      <4> DEFINE x == times[i]
      <4>1. x \in 0..2
        BY <3>1
      <4> HIDE DEF x
      <4>2. (x < 2 => x + 1 \in 0..2) /\ x \in 0..2
        BY <4>1
      <4> QED
        BY <4>2 DEF x
    <3> QED
      BY <1>1, <3>2
  <2>4. edges' \subseteq {Ms(t) : t \in Times}
    <3>1. ~ended' => Last(page').t \in Times
      BY <1>2, OrderFields
    <3> QED
      BY <1>1, <3>1 DEF WalkTypeOK
  <2>5. walk' \in Walks /\ rows' \subseteq ListedOrder /\ always' \subseteq Ids
    BY <1>1 DEF WalkTypeOK
  <2> QED
    BY <1>1, <2>1, <2>2, <2>3, <2>4, <2>5, Zenon DEF WalkTypeOK
<1>4. RowsApart' /\ AlwaysListed'
  <2>1. ListedIds(walk, rows)' = ListedIds(walk, rows)
    BY <1>1 DEF ListedIds, Listed, FindOrdersByCustomer, FindOrdersForBackfill, ThisYear, BranchOrders
  <2> QED
    BY <1>1, <2>1 DEF RowsApart, AlwaysListed, Allowed
<1>5. CursorFollows'
  <2>1. CASE ended'
    BY <2>1 DEF CursorFollows
  <2>2. CASE ~ended'
    <3>1. page' # <<>> /\ cursor' = CursorOf(Last(page'))
      BY <2>2, FetchFacts
    <3> QED
      BY <3>1 DEF CursorFollows, CursorOf, Ms
  <2> QED
    BY <2>1, <2>2
<1> QED
  BY <1>3, <1>4, <1>5, FetchReturns DEF WalkInv

-----------------------------------------------------------------------------
(* The other requests change no page.                                      *)

(* What they leave alone.                                                  *)
Asked == <<walk, cursor, page, ended, times, edges>>

(* A row was replaced by one of the same id and created_at.                *)
LEMMA RowReplaced ==
  ASSUME WalkInv, UNCHANGED Asked, NEW r \in rows, NEW s \in ListedOrder,
         s.id = r.id, s.t = r.t, rows' = (rows \ {r}) \cup {s},
         always' \subseteq always, InList(walk, r) /\ r.id \in always' => InList(walk, s)
  PROVE  WalkInv'
<1>1. /\ WalkTypeOK /\ RowsApart /\ CursorFollows /\ AlwaysListed /\ Returned
      /\ walk' = walk /\ cursor' = cursor /\ page' = page /\ ended' = ended
      /\ times' = times /\ edges' = edges
  BY DEF WalkInv, Asked
<1>2. WalkTypeOK'
  BY <1>1, Zenon DEF WalkTypeOK
<1>3. RowsApart'
  <2>1. IsFiniteSet(rows')
    <3>1. IsFiniteSet(rows \ {r})
      BY <1>1, FS_Subset DEF RowsApart
    <3> QED
      BY <3>1, FS_AddElement
  <2>2. \A u \in rows' : \E v \in rows : v.id = u.id /\ v.t = u.t /\ (v # r => u = v) /\ (v = r => u = s)
    BY <1>1 DEF RowsApart
  <2> QED
    BY <1>1, <2>1, <2>2 DEF RowsApart, Allowed
<1>4. CursorFollows'
  BY <1>1 DEF CursorFollows, CursorOf, Ms
<1>5. AlwaysListed'
  <2> SUFFICES ASSUME NEW i \in always' PROVE \E u \in rows' : u.id = i /\ InList(walk, u)
    BY <1>1, ListedOneByOne DEF AlwaysListed
  <2>1. PICK u \in rows : u.id = i /\ InList(walk, u)
    BY <1>1, ListedOneByOne DEF AlwaysListed
  <2>2. CASE u = r
    BY <2>1, <2>2
  <2>3. CASE u # r
    BY <2>1, <2>3
  <2> QED
    BY <2>2, <2>3
<1>6. Returned'
  <2>1. \A u : After(u)' <=> After(u)
    BY <1>1 DEF After, Precedes
  <2>2. After(s) <=> After(r)
    BY DEF After, Precedes
  <2>3. \A u \in rows' : u.id \in always' => u.id \in always
    OBVIOUS
  <2> QED
    BY <1>1, <2>1, <2>2, <2>3 DEF Returned
<1> QED
  BY <1>2, <1>3, <1>4, <1>5, <1>6 DEF WalkInv

(* A new order was not listed throughout.                                  *)
LEMMA PlaceKeeps ==
  ASSUME NEW i \in Ids, NEW t \in Times
  PROVE  WalkInv /\ PlaceOrder(i, t) => WalkInv'
<1> SUFFICES ASSUME WalkInv, PlaceOrder(i, t) PROVE WalkInv'
  OBVIOUS
<1>1. /\ WalkTypeOK /\ RowsApart /\ CursorFollows /\ AlwaysListed /\ Returned
      /\ walk' = walk /\ cursor' = cursor /\ page' = page /\ ended' = ended
      /\ times' = times /\ edges' = edges /\ always' = always
  BY DEF WalkInv, PlaceOrder
<1>2. PICK s \in ListedOrder : s.id = i /\ s.t = t /\ rows' = rows \cup {s}
  <2>1. PICK unpaid \in Pending(walk) :
          rows' = rows \cup {[id |-> i, t |-> t, home |-> "hot", pending |-> unpaid]}
    BY DEF PlaceOrder
  <2>2. unpaid \in BOOLEAN
    BY DEF Pending
  <2> QED
    BY <2>1, <2>2 DEF ListedOrder
<1>3. (\A r \in rows : r.id # i) /\ Allowed(walk, t)
  BY DEF PlaceOrder
<1>4. WalkTypeOK'
  <2>1. rows' \subseteq ListedOrder
    BY <1>1, <1>2 DEF WalkTypeOK
  <2> QED
    BY <1>1, <2>1, Zenon DEF WalkTypeOK
<1>5. RowsApart'
  <2>1. IsFiniteSet(rows')
    BY <1>1, <1>2, FS_AddElement DEF RowsApart
  <2> QED
    BY <1>1, <1>2, <1>3, <2>1 DEF RowsApart, Allowed
<1>6. CursorFollows'
  BY <1>1 DEF CursorFollows, CursorOf, Ms
<1>7. AlwaysListed'
  BY <1>1, <1>2, ListedOneByOne DEF AlwaysListed
<1>8. s.id \notin always
  BY <1>1, <1>2, <1>3, ListedOneByOne DEF AlwaysListed
<1>9. Returned'
  <2>1. \A u : After(u)' <=> After(u)
    BY <1>1 DEF After, Precedes
  <2> QED
    BY <1>1, <1>2, <1>8, <2>1 DEF Returned
<1> QED
  BY <1>4, <1>5, <1>6, <1>7, <1>9 DEF WalkInv

(* A paid order keeps its place, and stays listed.                         *)
LEMMA LeaveKeeps ==
  ASSUME NEW r \in rows
  PROVE  WalkInv /\ LeavePendingPayment(r) => WalkInv'
<1> SUFFICES ASSUME WalkInv, LeavePendingPayment(r) PROVE WalkInv'
  OBVIOUS
<1> DEFINE s == [r EXCEPT !.pending = FALSE]
<1>1. r \in ListedOrder /\ walk \in Walks
  BY DEF WalkInv, WalkTypeOK
<1>2. s \in ListedOrder /\ s.id = r.id /\ s.t = r.t
  BY <1>1 DEF ListedOrder
<1>3. InList(walk, r) => InList(walk, s)
  BY <1>1, InListKept
<1>4. rows' = (rows \ {r}) \cup {s} /\ UNCHANGED Asked /\ always' = always
  BY DEF LeavePendingPayment, Asked
<1> QED
  BY <1>2, <1>3, <1>4, RowReplaced

(* A moved order leaves a list of the hot cluster, and was on no other.    *)
LEMMA MoveKeeps ==
  ASSUME NEW r \in rows
  PROVE  WalkInv /\ MoveToArchive(r) => WalkInv'
<1> SUFFICES ASSUME WalkInv, MoveToArchive(r) PROVE WalkInv'
  OBVIOUS
<1> DEFINE s == [r EXCEPT !.home = "archive"]
<1>1. r \in ListedOrder /\ walk \in Walks
  BY DEF WalkInv, WalkTypeOK
<1>2. s \in ListedOrder /\ s.id = r.id /\ s.t = r.t
  BY <1>1 DEF ListedOrder
<1>3. /\ r.home = "hot" /\ r.t < YearStart
      /\ rows' = (rows \ {r}) \cup {s} /\ UNCHANGED Asked
      /\ always' = IF walk.source = "hot" THEN always \ {r.id} ELSE always
  BY DEF MoveToArchive, Asked
<1>4. ~(r.t >= YearStart)
  <2>1. r.t \in Nat
    BY <1>1, OrderFields
  <2>2. YearStart \in Nat
    BY PaginationAssumption
  <2> QED
    BY <1>3, <2>1, <2>2
<1>5. ~(InList(walk, r) /\ r.id \in always')
  BY <1>1, <1>3, <1>4, InListKept
<1>6. always' \subseteq always
  BY <1>3
<1> HIDE DEF s
<1> QED
  BY <1>2, <1>3, <1>5, <1>6, RowReplaced

(* Every step keeps the invariant.                                         *)
LEMMA WalkNextInv == WalkInv /\ [WalkNext]_walkVars => WalkInv'
<1> SUFFICES ASSUME WalkInv, [WalkNext]_walkVars PROVE WalkInv'
  OBVIOUS
<1>1. CASE FetchPage
  BY <1>1, FetchKeeps
<1>2. ASSUME NEW i \in Ids, NEW t \in Times, PlaceOrder(i, t) PROVE WalkInv'
  BY <1>2, PlaceKeeps
<1>3. ASSUME NEW r \in rows, MoveToArchive(r) PROVE WalkInv'
  BY <1>3, MoveKeeps
<1>4. ASSUME NEW r \in rows, LeavePendingPayment(r) PROVE WalkInv'
  BY <1>4, LeaveKeeps
<1>5. CASE UNCHANGED walkVars
  <2>1. /\ walk' = walk /\ rows' = rows /\ cursor' = cursor /\ page' = page /\ ended' = ended
        /\ times' = times /\ always' = always /\ edges' = edges
    BY <1>5 DEF walkVars
  <2>2. ListedIds(walk, rows)' = ListedIds(walk, rows)
    BY <2>1 DEF ListedIds, Listed, FindOrdersByCustomer, FindOrdersForBackfill, ThisYear, BranchOrders
  <2>3. WalkTypeOK'
    BY <2>1, Zenon DEF WalkInv, WalkTypeOK
  <2>4. RowsApart' /\ CursorFollows' /\ AlwaysListed'
    BY <2>1, <2>2 DEF WalkInv, RowsApart, CursorFollows, AlwaysListed, Allowed, CursorOf, Ms
  <2>5. Returned'
    <3>1. \A u : After(u)' <=> After(u)
      BY <2>1 DEF After, Precedes
    <3> QED
      BY <2>1, <3>1 DEF WalkInv, Returned
  <2> QED
    BY <2>3, <2>4, <2>5 DEF WalkInv
<1> QED
  BY <1>1, <1>2, <1>3, <1>4, <1>5 DEF WalkNext

-----------------------------------------------------------------------------
(* Theorems                                                                *)

(* The invariant holds in every state of a walk, whatever is placed, paid  *)
(* and archived between its pages.                                         *)
THEOREM WalkInvariant == WalkSpec => []WalkInv
BY WalkInitInv, WalkNextInv, PTL DEF WalkSpec

(* Every variable of a walk has its type in every state; in particular a   *)
(* cursor is always a whole millisecond and a page never exceeds its limit *)
(* (cursor-pagination.ts).                                                 *)
THEOREM WalkTypeCorrect == WalkSpec => []WalkTypeOK
<1>1. WalkInv => WalkTypeOK
  BY DEF WalkInv
<1> QED
  BY <1>1, WalkInvariant, PTL

(* A finished walk of one cluster has returned every order that was listed *)
(* throughout, exactly once if every created_at is a whole millisecond,    *)
(* whatever was placed, paid and archived meanwhile; and else what it      *)
(* missed lies in the millisecond of an order that ended a page.           *)
THEOREM TiesAlwaysReturnedOnce == WalkSpec => []TiesReturnedOnce
<1>1. WalkInv => TiesReturnedOnce
  <2> SUFFICES ASSUME WalkInv, ended, walk.source # "across"
               PROVE  /\ walk.exact => \A i \in always : times[i] = 1
                      /\ \A r \in rows : r.id \in always /\ times[r.id] = 0 => Ms(r.t) \in edges
    BY DEF TiesReturnedOnce
  <2>1. \A i \in always : \E r \in rows : r.id = i
    BY ListedOneByOne DEF WalkInv, AlwaysListed
  <2> QED
    BY <2>1 DEF WalkInv, Returned
<1> QED
  BY <1>1, WalkInvariant, PTL

(* Every first page holds the first orders of the list, in order and       *)
(* without a gap, also where the pages of the two clusters are merged; and *)
(* no page goes back behind the last order of the page before by more than *)
(* its millisecond.                                                        *)
THEOREM PagesAlwaysInOrder == WalkSpec => PagesInOrder
<1> DEFINE A == page' # page =>
         /\ cursor = NoCursor => HoldsTheFirst(page')
         /\ page # <<>> => \A r \in Range(page') :
               Precedes(Last(page), r) \/ Ms(r.t) = Ms(Last(page).t)
<1>1. ASSUME WalkInv, [WalkNext]_walkVars PROVE [A]_walkVars
  <2> SUFFICES ASSUME page' # page PROVE A
    OBVIOUS
  <2>1. FetchPage
    BY <1>1 DEF WalkNext, PlaceOrder, MoveToArchive, LeavePendingPayment, walkVars
  <2>2. /\ IsFirst(page', Remaining, walk.limit)
        /\ Range(page') \subseteq Remaining /\ Remaining \subseteq rows
    BY <1>1, <2>1, FetchFacts
  <2>3. ASSUME cursor = NoCursor PROVE HoldsTheFirst(page')
    <3>1. Remaining = Listed(walk, rows, "hot") \cup Listed(walk, rows, "archive")
      BY <2>3 DEF Remaining, Matching, After
    <3> QED
      BY <2>2, <3>1 DEF IsFirst, InOrder, HoldsTheFirst
  <2>4. ASSUME page # <<>>, NEW r \in Range(page')
        PROVE  Precedes(Last(page), r) \/ Ms(r.t) = Ms(Last(page).t)
    <3>1. cursor = CursorOf(Last(page)) /\ page \in Seq(ListedOrder)
      BY <1>1, <2>1, <2>4 DEF WalkInv, WalkTypeOK, CursorFollows, FetchPage
    <3>2. Last(page) \in ListedOrder
      <4>1. Len(page) \in Nat /\ Len(page) # 0
        BY <2>4, <3>1
      <4>2. Len(page) \in 1..Len(page)
        BY <4>1
      <4> QED
        BY <3>1, <4>2, ElementOfSeq DEF Last
    <3>3. r \in ListedOrder /\ After(r)
      BY <1>1, <2>2, <2>4 DEF WalkInv, WalkTypeOK, Remaining, Matching
    <3>4. Precedes(CursorOf(Last(page)), r)
      BY <3>1, <3>2, <3>3, CursorFacts DEF After
    <3> QED
      BY <3>2, <3>3, <3>4, CursorBehind
  <2> QED
    BY <2>3, <2>4
<1> QED
  BY <1>1, WalkInvariant, PTL DEF WalkSpec, PagesInOrder
=============================================================================
