------------------------------ MODULE CoreCache ------------------------------
(***************************************************************************)
(* What the service keeps of core's data: a branch and a product in Redis, *)
(* a role's permissions in the memory of each process.  Requests fill them *)
(* (branch.client.ts, permission-cache.service.ts) and core's events keep  *)
(* them in step (consumer.ts, core-data-cache.service.ts), taken from one  *)
(* queue by every process, up to a prefetch at a time, and handled         *)
(* concurrently.                                                           *)
(*                                                                         *)
(* A datum is the number of its last change in core.  An event carries the *)
(* datum it announces; the handlers of branch and role events drop what is *)
(* cached, those of price and stock events merge their datum onto it.      *)
(* One branch, one product and one role: no step reads or writes the keys  *)
(* of two of them, so a behaviour is about one, and a request does what    *)
(* placeOrder, rbac or an agent's task list does with that one.            *)
(* Bodies without an event id or a handler change nothing and are left     *)
(* out, and so is core:restaurant:<id>, a key that nothing sets.  The flag *)
(* of a closed branch lives seven days, longer than a behaviour.           *)
(***************************************************************************)
EXTENDS Naturals, Sequences, FiniteSets

CONSTANTS
    Procs,       \* API and worker processes
    Requests,    \* requests at a time
    Prefetch,    \* RABBITMQ_PREFETCH
    None,        \* no such entry
    MaxChanges,  \* bound: changes in core
    MaxFaults    \* bound: failed handlers, dead processes, replays, lapsed dedupe keys

ASSUME CoreCacheAssumption ==
    /\ IsFiniteSet(Procs) /\ Procs # {} /\ IsFiniteSet(Requests)
    /\ Prefetch \in Nat \ {0}
    /\ None \notin Nat
    /\ MaxChanges \in Nat /\ MaxFaults \in Nat

Data == {"branch", "price", "stock", "role"}
Keys == {"branch", "product", "role"}
KeyOf(d) == IF d \in {"price", "stock"} THEN "product" ELSE d

VARIABLES
    scope,     \* the key the behaviour is about
    core,      \* the last change of each datum in core
    closed,    \* the changes of the branch that left it inactive
    events,    \* the events in the order core published them
    seen,      \* core-events:dedupe:<eventId>
    branch,    \* core:branch:<id>
    product,   \* core:branch:<id>:product:<id>
    flag,      \* branch:reject-new-orders:<id>
    roles,     \* the permission map of each process
    request,   \* the requests in progress
    disorder,  \* history: keys with events handled together, lost or replayed
    raced,     \* history: keys filled with what was fetched before an event was handled
    faults     \* failures so far

vars == <<scope, core, closed, events, seen, branch, product, flag, roles, request, disorder, raced, faults>>

NoProduct == [full |-> FALSE, price |-> None, stock |-> None]

(* A request: where it is, its process, what it read, whether an event of  *)
(* the key it is filling was handled since, and whether the branch has     *)
(* been known to be closed ever since it came in.                          *)
NoRequest == [step |-> "idle", proc |-> CHOOSE p \in Procs : TRUE, val |-> None,
              late |-> FALSE, shut |-> FALSE, item |-> NoProduct]

Init ==
    /\ scope \in Keys
    /\ core = [d \in Data |-> 0]
    /\ closed = {}
    /\ events = <<>>
    /\ seen = {}
    /\ branch = None /\ product = NoProduct /\ flag = FALSE
    /\ roles = [p \in Procs |-> None]
    /\ request = [q \in Requests |-> NoRequest]
    /\ disorder = {} /\ raced = {}
    /\ faults = 0

caches == <<branch, product, flag, roles>>
history == <<disorder, raced>>

-----------------------------------------------------------------------------
(* core-service changes a datum and publishes the change from its outbox. *)

Change(d, type) ==
    /\ KeyOf(d) = scope
    /\ Len(events) < MaxChanges
    /\ core' = [core EXCEPT ![d] = @ + 1]
    /\ events' = Append(events, [type |-> type, datum |-> d, val |-> core[d] + 1, step |-> "queued",
                                 proc |-> NoRequest.proc, copy |-> NoProduct])
    /\ request' = [q \in Requests |->
         IF d = "branch" THEN [request[q] EXCEPT !.shut = FALSE] ELSE request[q]]
    /\ UNCHANGED <<scope, seen, caches, history, faults>>

ChangeDatum == \E d \in Data : Change(d, d) /\ UNCHANGED closed

(* A branch.updated for a branch that stays or becomes inactive too. *)
UpdateInactive == Change("branch", "branch") /\ closed' = closed \cup {core["branch"] + 1}
Deactivate == Change("branch", "deactivated") /\ closed' = closed \cup {core["branch"] + 1}

-----------------------------------------------------------------------------
(* The consumer. *)

InHand == {"taken", "fresh", "got", "half"}
Unacked(p) == {i \in DOMAIN events : events[i].step \in InHand /\ events[i].proc = p}

(* The process of an event matters as long as it is in hand, and to a role. *)
Step(i, step, copy) ==
    LET p == IF step \in InHand \/ events[i].datum = "role" THEN events[i].proc ELSE NoRequest.proc
    IN  events' = [events EXCEPT ![i].step = step, ![i].copy = copy, ![i].proc = p]

(* Events of a key that are in hand while one of them is handled. *)
Together(i) ==
    IF \E j \in DOMAIN events \ {i} : /\ events[j].step \in InHand
                                      /\ KeyOf(events[j].datum) = KeyOf(events[i].datum)
    THEN {KeyOf(events[i].datum)} ELSE {}

(* Requests about to fill a key are late once it was changed under them.   *)
Filling(k) == IF k = "branch" THEN {"fill branch", "fill branches"} ELSE {"fill product"}
Overtake(k) ==
    request' = [q \in Requests |->
        [request[q] EXCEPT !.late = @ \/ (request[q].step \in Filling(k))]]

(* The broker delivers in order, to any process below its prefetch. *)
Deliver(i, p) ==
    /\ events[i].step = "queued"
    /\ \A j \in 1..(i - 1) : events[j].step # "queued"
    /\ Cardinality(Unacked(p)) < Prefetch
    /\ events' = [events EXCEPT ![i].step = "taken", ![i].proc = p]
    /\ UNCHANGED <<scope, core, closed, seen, caches, request, history, faults>>

(* Mutant of SkipDuplicate: the handler returns without an ack. *)
SkipWithoutAck(i) ==
    /\ events[i].step = "taken" /\ i \in seen
    /\ UNCHANGED vars

(* trySet of the dedupe key: seen before its handler has run. *)
SkipDuplicate(i) ==
    /\ events[i].step = "taken" /\ i \in seen
    /\ Step(i, "acked", NoProduct)
    /\ UNCHANGED <<scope, core, closed, seen, caches, request, history, faults>>

MarkSeen(i) ==
    /\ events[i].step = "taken" /\ i \notin seen
    /\ seen' = seen \cup {i}
    /\ Step(i, "fresh", NoProduct)
    /\ UNCHANGED <<scope, core, closed, caches, request, history, faults>>

(* branch.updated and branch.deactivated: DEL of the branch, then DEL or   *)
(* SET of the flag.                                                        *)
DropBranch(i) ==
    /\ events[i].step = "fresh" /\ events[i].datum = "branch"
    /\ branch' = None
    /\ Step(i, "half", NoProduct)
    /\ Overtake("branch")
    /\ disorder' = disorder \cup Together(i)
    /\ UNCHANGED <<scope, core, closed, seen, product, flag, roles, raced, faults>>

TurnFlag(i) ==
    /\ events[i].step = "half"
    /\ flag' = (events[i].type = "deactivated")
    /\ Step(i, "acked", NoProduct)
    /\ disorder' = disorder \cup Together(i)
    /\ UNCHANGED <<scope, core, closed, seen, branch, product, roles, request, raced, faults>>

(* upsertProductStock and upsertProductPrice: GET, merge, SET. *)
GetToMerge(i) ==
    /\ events[i].step = "fresh" /\ KeyOf(events[i].datum) = "product"
    /\ Step(i, "got", product)
    /\ disorder' = disorder \cup Together(i)
    /\ UNCHANGED <<scope, core, closed, seen, caches, request, raced, faults>>

SetMerged(i, merged) ==
    /\ events[i].step = "got"
    /\ product' = merged
    /\ Step(i, "acked", NoProduct)
    /\ Overtake("product")
    /\ disorder' = disorder \cup Together(i)
    /\ UNCHANGED <<scope, core, closed, seen, branch, flag, roles, raced, faults>>

(* Mutants of Merge: the new stock is added to the old; a field is skipped. *)
MergeAdding(i) ==
    LET old == events[i].copy[events[i].datum]
    IN  SetMerged(i, [events[i].copy EXCEPT ![events[i].datum] =
                         IF old = None THEN events[i].val ELSE old + events[i].val])
MergeNothing(i) == SetMerged(i, events[i].copy)

Merge(i) == SetMerged(i, [events[i].copy EXCEPT ![events[i].datum] = events[i].val])

(* rbac.permissions_changed, in the process that took the event. *)
DropRole(i) ==
    LET p == events[i].proc
    IN  /\ events[i].step = "fresh" /\ events[i].datum = "role"
        /\ roles' = [roles EXCEPT ![p] = None]
        /\ Step(i, "acked", NoProduct)
        /\ request' = [q \in Requests |-> [request[q] EXCEPT
                          !.late = @ \/ (request[q].step = "fill role" /\ request[q].proc = p)]]
        /\ disorder' = disorder \cup Together(i)
        /\ UNCHANGED <<scope, core, closed, seen, branch, product, flag, raced, faults>>

Fault == faults < MaxFaults /\ faults' = faults + 1

(* Redis fails under the consumer or its handler: nack, to the DLQ. *)
HandlerFails(i) ==
    /\ events[i].step \in InHand /\ Fault
    /\ Step(i, "dead", NoProduct)
    /\ disorder' = disorder \cup {KeyOf(events[i].datum)}
    /\ UNCHANGED <<scope, core, closed, seen, caches, request, raced>>

(* A process dies: the broker queues again what it had not acknowledged.   *)
ProcessDies(p) ==
    /\ Fault
    /\ events' = [i \in DOMAIN events |->
                    IF i \in Unacked(p) THEN [events[i] EXCEPT !.step = "queued", !.copy = NoProduct]
                    ELSE events[i]]
    /\ request' = [q \in Requests |-> IF request[q].proc = p THEN NoRequest ELSE request[q]]
    /\ roles' = [roles EXCEPT ![p] = None]
    /\ disorder' = disorder \cup {KeyOf(events[i].datum) : i \in Unacked(p)}
    /\ UNCHANGED <<scope, core, closed, seen, branch, product, flag, raced>>

(* The operators move a message from the DLQ back to the queue. *)
Replay(i) ==
    /\ events[i].step = "dead" /\ Fault
    /\ Step(i, "queued", NoProduct)
    /\ UNCHANGED <<scope, core, closed, seen, caches, request, history>>

DedupeExpires(i) ==
    /\ i \in seen /\ Fault
    /\ seen' = seen \ {i}
    /\ UNCHANGED <<scope, core, closed, events, caches, request, history>>

-----------------------------------------------------------------------------
(* A request: placing an order reads the branch and its flag, then the      *)
(* products.                                                               *)

At(q, step) == request[q].step = step
Now(q, r) == request' = [request EXCEPT ![q] = r]
unread == <<scope, core, closed, events, seen, flag, faults>>

(* The branch's last word was branch.deactivated, and every event of it    *)
(* has been handled.                                                       *)
KnownClosed ==
    LET mine == {i \in DOMAIN events : events[i].datum = "branch"}
    IN  /\ \A i \in mine : events[i].step = "acked"
        /\ \E i \in mine : events[i].type = "deactivated" /\ events[i].val = core["branch"]

(* getBranch: from the cache, or from core and then into the cache. *)
GetBranch(q, p) ==
    /\ At(q, "idle") /\ scope = "branch"
    /\ Now(q, [NoRequest EXCEPT !.step = IF branch # None THEN "flag" ELSE "fetch branch",
                                !.proc = p, !.val = branch, !.shut = KnownClosed])
    /\ UNCHANGED <<unread, branch, product, roles, history>>

FetchBranch(q) ==
    /\ At(q, "fetch branch")
    /\ Now(q, [request[q] EXCEPT !.step = "fill branch", !.val = core["branch"]])
    /\ UNCHANGED <<unread, branch, product, roles, history>>

(* The SET.  A SET that fails is only logged: as if the entry expired.     *)
FillBranch(q) ==
    /\ At(q, "fill branch")
    /\ Now(q, [request[q] EXCEPT !.step = "flag", !.late = FALSE])
    /\ branch' = request[q].val
    /\ raced' = IF request[q].late THEN raced \cup {"branch"} ELSE raced
    /\ UNCHANGED <<unread, product, roles, disorder>>

(* An agent lists his tasks: getBranchesByIds, whose cache pass asks core  *)
(* for the branches it misses and keeps what it is given.                  *)
GetBranchesByIds(q, p) ==
    /\ At(q, "idle") /\ scope = "branch" /\ branch = None
    /\ Now(q, [NoRequest EXCEPT !.step = "fetch branches", !.proc = p])
    /\ UNCHANGED <<unread, branch, product, roles, history>>

FetchBranches(q) ==
    /\ At(q, "fetch branches")
    /\ Now(q, [request[q] EXCEPT !.step = "fill branches", !.val = core["branch"]])
    /\ UNCHANGED <<unread, branch, product, roles, history>>

FillBranches(q) ==
    /\ At(q, "fill branches")
    /\ Now(q, NoRequest)
    /\ branch' = request[q].val
    /\ raced' = IF request[q].late THEN raced \cup {"branch"} ELSE raced
    /\ UNCHANGED <<unread, product, roles, disorder>>

(* Mutant of CheckFlag: the branch's own word is enough. *)
CheckBranchOnly(q) ==
    /\ At(q, "flag")
    /\ IF request[q].val \in closed THEN Now(q, NoRequest) ELSE Now(q, [request[q] EXCEPT !.step = "accepted", !.val = None])
    /\ UNCHANGED <<unread, branch, product, roles, history>>

IsBranchRejectingOrders == flag

(* Refused when the branch is inactive or isBranchRejectingOrders. *)
CheckFlag(q) ==
    /\ At(q, "flag")
    /\ IF request[q].val \in closed \/ IsBranchRejectingOrders THEN Now(q, NoRequest) ELSE Now(q, [request[q] EXCEPT !.step = "accepted", !.val = None])
    /\ UNCHANGED <<unread, branch, product, roles, history>>

(* Mutant of Usable: an entry that an event made is taken for a product.   *)
UsableIfAny(entry) == entry # NoProduct

(* An entry without a name was made by an event and counts as a miss.      *)
Usable(entry) == entry.full

GetProducts(q, p) ==
    /\ At(q, "idle") /\ scope = "product"
    /\ Now(q, [NoRequest EXCEPT !.proc = p, !.step = IF Usable(product) THEN "priced" ELSE "fetch product",
                                 !.item = IF Usable(product) THEN product ELSE NoProduct])
    /\ UNCHANGED <<unread, branch, product, roles, history>>

FetchProducts(q) ==
    /\ At(q, "fetch product")
    /\ Now(q, [request[q] EXCEPT !.step = "fill product",
               !.item = [full |-> TRUE, price |-> core["price"], stock |-> core["stock"]]])
    /\ UNCHANGED <<unread, branch, product, roles, history>>

FillProducts(q) ==
    /\ At(q, "fill product")
    /\ Now(q, [request[q] EXCEPT !.step = "priced", !.late = FALSE])
    /\ product' = request[q].item
    /\ raced' = IF request[q].late THEN raced \cup {"product"} ELSE raced
    /\ UNCHANGED <<unread, branch, roles, disorder>>

(* getPermissions, in the map of the request's own process. *)
GetPermissions(q, p) ==
    /\ At(q, "idle") /\ scope = "role" /\ roles[p] = None
    /\ Now(q, [NoRequest EXCEPT !.step = "fetch role", !.proc = p])
    /\ UNCHANGED <<unread, branch, product, roles, history>>

FetchPermissions(q) ==
    /\ At(q, "fetch role")
    /\ Now(q, [request[q] EXCEPT !.step = "fill role", !.val = core["role"]])
    /\ UNCHANGED <<unread, branch, product, roles, history>>

FillPermissions(q) ==
    /\ At(q, "fill role")
    /\ Now(q, NoRequest)
    /\ roles' = [roles EXCEPT ![request[q].proc] = request[q].val]
    /\ raced' = IF request[q].late THEN raced \cup {"role"} ELSE raced
    /\ UNCHANGED <<unread, branch, product, disorder>>

(* The lines of the order: all of them, or it is refused for want of       *)
(* stock; the cache sees no more of it.                                    *)
BuildOrderLineDrafts(q) ==
    /\ At(q, "priced") /\ Now(q, NoRequest)
    /\ UNCHANGED <<unread, branch, product, roles, history>>

Leave(q) ==
    /\ At(q, "accepted") /\ Now(q, NoRequest)
    /\ UNCHANGED <<unread, branch, product, roles, history>>

(* The TTL of an hour, in Redis and in the map. *)
EntryExpires ==
    /\ \/ branch # None /\ branch' = None /\ UNCHANGED <<product, roles>>
       \/ product # NoProduct /\ product' = NoProduct /\ UNCHANGED <<branch, roles>>
       \/ /\ \E p \in Procs : roles[p] # None /\ roles' = [roles EXCEPT ![p] = None]
          /\ UNCHANGED <<branch, product>>
    /\ UNCHANGED <<unread, request, history>>

-----------------------------------------------------------------------------
Consume(i) ==
    \/ \E p \in Procs : Deliver(i, p)
    \/ SkipDuplicate(i) \/ MarkSeen(i)
    \/ DropBranch(i) \/ TurnFlag(i) \/ GetToMerge(i) \/ Merge(i) \/ DropRole(i)

Next ==
    \/ ChangeDatum \/ UpdateInactive \/ Deactivate
    \/ \E i \in DOMAIN events : Consume(i) \/ HandlerFails(i) \/ Replay(i) \/ DedupeExpires(i)
    \/ \E p \in Procs : ProcessDies(p)
    \/ \E q \in Requests :
          \/ \E p \in Procs : \/ GetBranch(q, p) \/ GetBranchesByIds(q, p)
                              \/ GetProducts(q, p) \/ GetPermissions(q, p)
          \/ FetchBranch(q) \/ FillBranch(q) \/ CheckFlag(q)
          \/ FetchBranches(q) \/ FillBranches(q)
          \/ FetchProducts(q) \/ FillProducts(q)
          \/ BuildOrderLineDrafts(q) \/ Leave(q)
          \/ FetchPermissions(q) \/ FillPermissions(q)
    \/ EntryExpires

Spec == Init /\ [][Next]_vars

(* Some process is connected to the broker and its event loop runs. *)
FairSpec == Spec /\ \A i \in 1..MaxChanges : WF_vars(i \in DOMAIN events /\ Consume(i))

-----------------------------------------------------------------------------
Versions == 0..MaxChanges \cup {None}
Products == [full : BOOLEAN, price : Versions, stock : Versions]

TypeOK ==
    /\ scope \in Keys /\ core \in [Data -> 0..MaxChanges]
    /\ closed \subseteq 1..MaxChanges
    /\ \A i \in DOMAIN events :
          events[i] \in [type : Data \cup {"deactivated"}, datum : Data, val : 1..MaxChanges,
                         step : InHand \cup {"queued", "acked", "dead"}, proc : Procs, copy : Products]
    /\ seen \subseteq DOMAIN events
    /\ branch \in Versions /\ product \in Products /\ flag \in BOOLEAN
    /\ roles \in [Procs -> Versions]
    /\ \A q \in Requests :
          /\ request[q].proc \in Procs /\ request[q].val \in Versions /\ request[q].item \in Products
          /\ request[q].late => request[q].step \in {"fill branch", "fill branches", "fill product", "fill role"}
    /\ disorder \subseteq Keys /\ raced \subseteq Keys
    /\ faults \in 0..MaxFaults

Undecided == {"queued", "taken", "fresh", "got"}

Stale(d, cached) == cached # None /\ cached < core[d]
Announced(d, cached) ==
    \E i \in DOMAIN events :
        events[i].datum = d /\ events[i].val > cached /\ events[i].step \in Undecided

(* An event newer than the permissions p holds was handled by another. *)
TakenElsewhere(p) ==
    \E i \in DOMAIN events : /\ events[i].datum = "role" /\ events[i].val > roles[p]
                             /\ events[i].step = "acked" /\ events[i].proc # p

(* A cached datum is behind core only while the event of a newer change is *)
(* still to be handled, unless two events of its key were in hand          *)
(* together, one was lost, or a fetch begun before an event was handled    *)
(* was stored after it (core-data-cache.service.ts:62-102, branch.client   *)
(* .ts:36-51 and 110-166).  The permissions a process holds may also be    *)
(* behind because another process took the event                           *)
(* (permission-cache.service.ts:45-49).                                    *)
StaleIsAnnounced ==
    /\ "branch" \notin disorder \cup raced /\ Stale("branch", branch) => Announced("branch", branch)
    /\ "product" \notin disorder \cup raced =>
          \A d \in {"price", "stock"} : Stale(d, product[d]) => Announced(d, product[d])
    /\ \A p \in Procs : "role" \notin disorder \cup raced /\ Stale("role", roles[p]) =>
          Announced("role", roles[p]) \/ TakenElsewhere(p)

(* No order is accepted by a request that came after branch.deactivated    *)
(* was handled, even if an older fetch has put the active branch back: the *)
(* flag is what refuses it (order.service.ts:84-86).  Unless events of the *)
(* branch were handled together, failed or were replayed.                  *)
NoOrderOnceClosed ==
    \A q \in Requests :
        request[q].step = "accepted" /\ request[q].shut => "branch" \in disorder

(* What an order is priced with has a name, a price and a stock, and they  *)
(* are values core once had, whatever events and fills have merged in the  *)
(* entry (branch.client.ts:129-140).                                       *)
PricedIsWhole ==
    \A q \in Requests : request[q].step = "priced" =>
        /\ request[q].item.full
        /\ request[q].item.price \in 0..core["price"]
        /\ request[q].item.stock \in 0..core["stock"]

(* Every event is at last acknowledged or in the DLQ, whatever was         *)
(* redelivered or replayed: none keeps a place of the prefetch for ever    *)
(* (consumer.ts:43-79).                                                    *)
EventsAreSettled == <>[](\A i \in DOMAIN events : events[i].step \in {"acked", "dead"})
=============================================================================
