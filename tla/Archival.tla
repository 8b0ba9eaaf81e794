------------------------------ MODULE Archival ------------------------------
(***************************************************************************)
(* The nightly move of last year's rows from a region's hot database to    *)
(* its archive: runArchivalForRegion of archival.worker.ts, a cron job of  *)
(* every worker process, over moveTableBatches of archival.helpers.ts;     *)
(* beside it the requests that still update those rows, and the lookup of  *)
(* an order by an admin or an owner (getOrder of order.service.ts), which  *)
(* reads the two databases one after the other.                            *)
(*                                                                         *)
(* A behaviour starts on the first night of a year.  The jobs run at 03:00 *)
(* with a budget of an hour, so the year does not turn in a run.  The      *)
(* databases share no transaction, and the Redis lock outlives the budget  *)
(* by a minute only.                                                       *)
(***************************************************************************)
EXTENDS Naturals, FiniteSets

CONSTANTS
    Orders,      \* orders.id of the orders of the region
    Procs,       \* worker processes
    Batch,       \* ARCHIVAL_BATCH_SIZE
    Absent,      \* no such row
    MaxUpdates,  \* bound: updates in a behaviour
    MaxFaults    \* bound: crashes, failures and overruns in a behaviour

ASSUME ArchivalAssumption ==
    /\ Orders \subseteq Nat /\ IsFiniteSet(Orders)
    /\ Batch \in Nat \ {0}
    /\ Absent \notin Nat
    /\ MaxUpdates \in Nat /\ MaxFaults \in Nat

Tables == {"transactions", "order_items", "orders"}

(* The order in which a run walks the tables.  agent_earnings, the webhook *)
(* events and the payment sessions behave as transactions do: each of      *)
(* their rows is stamped when it is written, after its order.              *)
TableSpecs == <<"transactions", "order_items", "orders">>

(* One row of each table for each order. *)
Rows == [table : Tables, order : Orders]
Row(t, o) == [table |-> t, order |-> o]

VARIABLES
    lastYear,  \* the rows stamped before date_trunc('year', NOW())
    hot,       \* the version of each row in the hot database
    archive,   \* and in the archive
    latest,    \* history: the version last committed by a request
    touched,   \* history: rows updated after a mover had read them
    lock,      \* archival:<region>:lock, empty or its one owner
    mover,     \* the run of each process
    overrun,   \* history: a lock expired under its owner
    reader,    \* the lookup in progress
    updates,   \* updates so far
    faults     \* failures so far

vars == <<lastYear, hot, archive, latest, touched, lock, mover, overrun, reader, updates, faults>>

(* What a run has selected: a version for each row of its batch. *)
NoBatch == [r \in Rows |-> Absent]
InBatch(m) == {r \in Rows : m.copy[r] # Absent}
Idle == [at |-> "idle", spec |-> 1, copy |-> NoBatch, late |-> FALSE]
NoReader == [at |-> "idle", order |-> 0, conn |-> "hot"]

(* createOrder and bulkInsertItems are one transaction, so an order and    *)
(* its items have one timestamp; a ledger row is written with them or      *)
(* later, perhaps only this year.                                          *)
Init ==
    \E old \in SUBSET Orders : \E booked \in SUBSET old :
        /\ lastYear = {r \in Rows : r.order \in old /\ (r.table = "transactions" => r.order \in booked)}
        /\ hot = [r \in Rows |-> 0]
        /\ archive = NoBatch
        /\ latest = [r \in Rows |-> 0]
        /\ touched = {}
        /\ lock = {}
        /\ mover = [p \in Procs |-> Idle]
        /\ overrun = FALSE
        /\ reader = NoReader
        /\ updates = 0
        /\ faults = 0

-----------------------------------------------------------------------------
(* A status, an agent, a commission; a session's status.  An UPDATE of a   *)
(* row that has left the hot database finds nothing.  Rows of this year    *)
(* meet no mover.                                                          *)
UpdateRow(r) ==
    /\ r \in lastYear /\ r.table # "order_items"
    /\ hot[r] # Absent
    /\ updates < MaxUpdates /\ updates' = updates + 1
    /\ hot' = [hot EXCEPT ![r] = @ + 1]
    /\ latest' = [latest EXCEPT ![r] = hot[r] + 1]
    /\ touched' = IF archive[r] # Absent \/ \E p \in Procs : r \in InBatch(mover[p])
                  THEN touched \cup {r} ELSE touched
    /\ UNCHANGED <<lastYear, archive, lock, mover, overrun, reader, faults>>

-----------------------------------------------------------------------------
(* A run. *)

(* Mutant of RunStarts: a run that finds the lock held deletes it, as it   *)
(* would if trySet were inside the try.                                    *)
RunStartsOrReleases(p) ==
    /\ mover[p].at = "idle"
    /\ \/ lock = {} /\ lock' = {p} /\ mover' = [mover EXCEPT ![p] = [Idle EXCEPT !.at = "select"]]
       \/ lock # {} /\ lock' = {} /\ UNCHANGED mover
    /\ UNCHANGED <<lastYear, hot, archive, latest, touched, overrun, reader, updates, faults>>

(* trySet; a run that finds the lock held is skipped. *)
RunStarts(p) ==
    /\ mover[p].at = "idle"
    /\ lock = {}
    /\ lock' = {p}
    /\ mover' = [mover EXCEPT ![p] = [at |-> "select", spec |-> 1, copy |-> NoBatch, late |-> FALSE]]
    /\ UNCHANGED <<lastYear, hot, archive, latest, touched, overrun, reader, updates, faults>>

(* The finally block deletes the lock, whoever holds it by now. *)
RunEnds(p) ==
    /\ lock' = {}
    /\ mover' = [mover EXCEPT ![p] = Idle]

LastTable(p) == mover[p].spec = Cardinality(Tables)

NextTable(p) ==
    IF LastTable(p) THEN RunEnds(p)
    ELSE /\ mover' = [mover EXCEPT ![p] = [at |-> "select", spec |-> @.spec + 1,
                                           copy |-> NoBatch, late |-> @.late]]
         /\ UNCHANGED lock

(* The rows a batch can take, and the batch: ORDER BY id LIMIT Batch.      *)
Due(p) == {r \in lastYear : r.table = TableSpecs[mover[p].spec] /\ hot[r] # Absent}
Lowest(rows) == {r \in rows : Cardinality({s \in rows : s.order < r.order}) < Batch}

SelectBatch(p) ==
    /\ mover[p].at = "select" /\ ~mover[p].late
    /\ Due(p) # {}
    /\ mover' = [mover EXCEPT ![p] =
         [at |-> "insert", spec |-> @.spec, late |-> @.late,
          copy |-> [r \in Rows |-> IF r \in Lowest(Due(p)) THEN hot[r] ELSE Absent]]]
    /\ UNCHANGED <<lastYear, hot, archive, latest, touched, lock, overrun, reader, updates, faults>>

(* Mutant of TableIsEmpty: an empty table ends the run. *)
TableIsEmptyEnds(p) ==
    /\ mover[p].at = "select" /\ ~mover[p].late
    /\ Due(p) = {}
    /\ RunEnds(p)
    /\ UNCHANGED <<lastYear, hot, archive, latest, touched, overrun, reader, updates, faults>>

TableIsEmpty(p) ==
    /\ mover[p].at = "select" /\ ~mover[p].late
    /\ Due(p) = {}
    /\ NextTable(p)
    /\ UNCHANGED <<lastYear, hot, archive, latest, touched, overrun, reader, updates, faults>>

(* The deadline is looked at before each batch and each table. *)
OutOfTime(p) ==
    /\ mover[p].at = "select" /\ mover[p].late
    /\ RunEnds(p)
    /\ UNCHANGED <<lastYear, hot, archive, latest, touched, overrun, reader, updates, faults>>

(* INSERT ... ON CONFLICT DO NOTHING, and its commit. *)
InsertArchive(p) ==
    /\ mover[p].at = "insert"
    /\ archive' = [r \in Rows |-> IF r \in InBatch(mover[p]) /\ archive[r] = Absent
                                  THEN mover[p].copy[r] ELSE archive[r]]
    /\ mover' = [mover EXCEPT ![p] = [at |-> "delete", spec |-> @.spec,
                                      copy |-> @.copy, late |-> @.late]]
    /\ UNCHANGED <<lastYear, hot, latest, touched, lock, overrun, reader, updates, faults>>

DeleteRows(p, rows) ==
    /\ mover[p].at = "delete"
    /\ hot' = [r \in Rows |-> IF r \in rows THEN Absent ELSE hot[r]]
    /\ IF Cardinality(InBatch(mover[p])) < Batch THEN NextTable(p)
       ELSE /\ mover' = [mover EXCEPT ![p] = [at |-> "select", spec |-> @.spec,
                                              copy |-> NoBatch, late |-> @.late]]
            /\ UNCHANGED lock
    /\ UNCHANGED <<lastYear, archive, latest, touched, overrun, reader, updates, faults>>

(* Mutant of DeleteHot: all that is due is deleted, not the batch. *)
DeleteDue(p) == DeleteRows(p, Due(p))

(* DELETE ... WHERE id IN (the ids of the batch), its commit, and the end  *)
(* of the table when the batch was short.                                  *)
DeleteHot(p) == DeleteRows(p, InBatch(mover[p]))

(* A statement or a commit fails: it is rolled back and ends the run. *)
RunFails(p) ==
    /\ mover[p].at # "idle" /\ faults < MaxFaults
    /\ RunEnds(p)
    /\ faults' = faults + 1
    /\ UNCHANGED <<lastYear, hot, archive, latest, touched, overrun, reader, updates>>

(* The process dies: its lock stays until the TTL ends it. *)
Crash(p) ==
    /\ mover[p].at # "idle" /\ faults < MaxFaults
    /\ mover' = [mover EXCEPT ![p] = Idle]
    /\ faults' = faults + 1
    /\ UNCHANGED <<lastYear, hot, archive, latest, touched, lock, overrun, reader, updates>>

(* ARCHIVAL_MAX_RUNTIME_MIN have passed since the run started. *)
DeadlinePasses(p) ==
    /\ mover[p].at # "idle" /\ ~mover[p].late /\ faults < MaxFaults
    /\ mover' = [mover EXCEPT ![p] = [at |-> @.at, spec |-> @.spec, copy |-> @.copy, late |-> TRUE]]
    /\ faults' = faults + 1
    /\ UNCHANGED <<lastYear, hot, archive, latest, touched, lock, overrun, reader, updates>>

(* The TTL is longer than the budget: it ends the lock of a process that   *)
(* died, or of a run that hangs in a batch past its deadline.              *)
LockExpires(p) ==
    /\ lock = {p}
    /\ mover[p].at = "idle" \/ mover[p].late
    /\ lock' = {}
    /\ overrun' = (overrun \/ mover[p].at # "idle")
    /\ UNCHANGED <<lastYear, hot, archive, latest, touched, mover, reader, updates, faults>>

-----------------------------------------------------------------------------
(* getOrder for an actor who may read the archive: the order in the hot    *)
(* database, else in the archive, then its items where the order was.      *)
Answer(at, o, conn) ==
    /\ reader' = [at |-> at, order |-> o, conn |-> conn]
    /\ UNCHANGED <<lastYear, hot, archive, latest, touched, lock, mover, overrun, updates, faults>>

(* Mutant of Look: the archive first. *)
LookSwapped(o, db, conn, otherwise) ==
    IF conn = "hot"
    THEN IF archive[Row("orders", o)] # Absent THEN Answer("found", o, "archive") ELSE Answer(otherwise, o, conn)
    ELSE IF hot[Row("orders", o)] # Absent THEN Answer("found", o, "hot") ELSE Answer(otherwise, o, conn)

Look(o, db, conn, otherwise) ==
    IF db[Row("orders", o)] # Absent THEN Answer("found", o, conn) ELSE Answer(otherwise, o, conn)

LookFirst(o) == reader.at = "idle" /\ Look(o, hot, "hot", "missed")

LookAgain == reader.at = "missed" /\ Look(reader.order, archive, "archive", "not_found")

(* findItemsByOrderIds on the connection the order came from. *)
LookForItems ==
    LET db == IF reader.conn = "hot" THEN hot ELSE archive
    IN  /\ reader.at = "found"
        /\ IF db[Row("order_items", reader.order)] # Absent
           THEN Answer("idle", 0, "hot")
           ELSE Answer("no_items", reader.order, reader.conn)

ReaderLeaves == reader.at \in {"not_found", "no_items"} /\ Answer("idle", 0, "hot")

-----------------------------------------------------------------------------
MoverStep(p) ==
    \/ SelectBatch(p) \/ TableIsEmpty(p) \/ OutOfTime(p) \/ InsertArchive(p) \/ DeleteHot(p)

Next ==
    \/ \E o \in Orders : LookFirst(o)
    \/ \E r \in Rows : UpdateRow(r)
    \/ \E p \in Procs : RunStarts(p) \/ MoverStep(p) \/ RunFails(p) \/ Crash(p)
                        \/ DeadlinePasses(p) \/ LockExpires(p)
    \/ LookAgain \/ LookForItems \/ ReaderLeaves

Spec == Init /\ [][Next]_vars

(* A batch that has begun ends; the cron starts a run every night in some  *)
(* process; a TTL ends.  Nothing is assumed of the requests.               *)
Fairness ==
    /\ \A p \in Procs : WF_vars(MoverStep(p)) /\ WF_vars(LockExpires(p))
    /\ WF_vars(\E p \in Procs : RunStarts(p))

FairSpec == Spec /\ Fairness

-----------------------------------------------------------------------------
Versions == Nat \cup {Absent}

TypeOK ==
    /\ lastYear \subseteq Rows
    /\ hot \in [Rows -> Versions]
    /\ archive \in [Rows -> Versions]
    /\ latest \in [Rows -> Nat]
    /\ touched \subseteq Rows
    /\ lock \in SUBSET Procs
    /\ mover \in [Procs -> [at : {"idle", "select", "insert", "delete"},
                            spec : 1..3, copy : [Rows -> Versions], late : BOOLEAN]]
    /\ overrun \in BOOLEAN
    /\ reader \in [at : {"idle", "missed", "found", "not_found", "no_items"},
                   order : Nat, conn : {"hot", "archive"}]
    /\ updates \in 0..MaxUpdates /\ faults \in 0..MaxFaults

(* A row is in the hot database or in the archive at every moment,         *)
(* whatever crashes, fails or overlaps; and where it is only               *)
(* in the archive it is its last version, unless a request updated it      *)
(* after a mover had read it: archive first, then delete what was copied   *)
(* (archival.helpers.ts:27-33).                                            *)
NothingLost ==
    \A r \in Rows :
        /\ hot[r] # Absent \/ archive[r] # Absent
        /\ hot[r] # Absent => hot[r] = latest[r]
        /\ hot[r] = Absent /\ r \notin touched => archive[r] = latest[r]

(* An order that is in the archive has its items there, between any two    *)
(* steps of any run: children before the parent, archival.worker.ts:10-12. *)
ArchivedOrderHasItems ==
    \A o \in Orders : archive[Row("orders", o)] # Absent
                        => archive[Row("order_items", o)] # Absent

(* As long as no lock expired under its owner, at most one process moves   *)
(* rows: a run that is skipped, fails or dies must not free another's      *)
(* lock (archival.worker.ts:91-95 and 117).                                *)
OneMover ==
    ~overrun => \A p, q \in Procs : mover[p].at # "idle" /\ mover[q].at # "idle" => p = q

(* A lookup that runs beside the movers never reports an existing order as *)
(* not found, and what it finds in the archive it shows with its items     *)
(* (getOrder looks in the hot database first, order.service.ts:231-245).   *)
LookupFinds ==
    /\ reader.at # "not_found"
    /\ reader.at = "no_items" => reader.conn = "hot"

(* Every row of last year is at last in the archive and not in the hot     *)
(* database, so that the lists, which read only the archive for a past     *)
(* year, show it.                                                          *)
LastYearIsArchived ==
    <>(\A r \in lastYear : hot[r] = Absent /\ archive[r] # Absent)
=============================================================================
