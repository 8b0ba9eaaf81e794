-------------------------- MODULE CoreCacheProofs --------------------------
(***************************************************************************)
(* The safety of CoreCache, for any processes, requests, prefetch, number  *)
(* of changes and number of faults.  The invariant says how the events of  *)
(* a key stand to each other as long as none was lost, replayed or handled *)
(* with another, and what that means for the entries, the flag, and what   *)
(* requests and handlers have read and not written yet.                    *)
(***************************************************************************)
EXTENDS CoreCache, TLAPS

EventType == [type : Data \cup {"deactivated"}, datum : Data, val : 1..MaxChanges,
              step : InHand \cup {"queued", "acked", "dead"}, proc : Procs, copy : Products]

Fills == {"fill branch", "fill branches", "fill product", "fill role"}

RequestType == [step : Fills \cup {"idle", "fetch branch", "flag", "accepted", "fetch branches",
                                 "fetch product", "priced", "fetch role"},
                proc : Procs, val : Versions, late : BOOLEAN, shut : BOOLEAN, item : Products]

Shape ==
    /\ scope \in Keys /\ core \in [Data -> 0..MaxChanges] /\ closed \subseteq 1..MaxChanges
    /\ events \in Seq(EventType) /\ Len(events) <= MaxChanges
    /\ seen \subseteq DOMAIN events
    /\ branch \in Versions /\ product \in Products /\ flag \in BOOLEAN
    /\ roles \in [Procs -> Versions]
    /\ request \in [Requests -> RequestType]
    /\ \A q \in Requests : request[q].late => request[q].step \in Fills
    /\ disorder \subseteq Keys /\ raced \subseteq Keys
    /\ faults \in 0..MaxFaults

(* The events of the datum are its changes, in their order.                *)
Numbered ==
    /\ \A d \in Data : core[d] <= Len(events)
    /\ \A d \in Data : core[d] # 0 => \E i \in DOMAIN events : events[i].datum = d /\ events[i].val = core[d]
    /\ \A i \in DOMAIN events : /\ events[i].val <= core[events[i].datum]
                                /\ KeyOf(events[i].datum) = scope
                                /\ events[i].step = "got" => scope = "product"
                                /\ events[i].step = "half" => scope = "branch"
    /\ \A i, j \in DOMAIN events :
          i < j /\ events[i].datum = events[j].datum => events[i].val < events[j].val

(* An event's handler has written, or has read what it will write.         *)
Handled == {"got", "half", "acked"}

(* As long as nothing of the key was lost, replayed or handled together.   *)
InOrder ==
    scope \notin disorder =>
        /\ \A i \in DOMAIN events : /\ events[i].step # "dead"
                                    /\ events[i].step \in {"queued", "taken"} => i \notin seen
        /\ \A i, j \in DOMAIN events : i < j =>
              /\ events[i].step = "queued" => events[j].step = "queued"
              /\ events[j].step \in Handled => events[i].step = "acked"

(* An entry of a product: values that core had, all of them if it is full. *)
SoundAt(item, price, stock) ==
    /\ item.price = None \/ item.price \in 0..price
    /\ item.stock = None \/ item.stock \in 0..stock
    /\ item.full => item.price # None /\ item.stock # None

Sound(item) == SoundAt(item, core["price"], core["stock"])

Sounds ==
    /\ Sound(product)
    /\ \A i \in DOMAIN events : Sound(events[i].copy)
    /\ \A q \in Requests : request[q].step \in {"fill product", "priced"} =>
          request[q].item.full /\ Sound(request[q].item)

(* The flag is what the last event to be acknowledged made it.             *)
FlagFollows ==
    "branch" \notin disorder =>
        \A i \in DOMAIN events :
            /\ events[i].datum = "branch" /\ events[i].step = "acked"
            /\ \A j \in DOMAIN events : j > i => events[j].step # "acked"
            => flag = (events[i].type = "deactivated")

ShutIsClosed ==
    \A q \in Requests :
        /\ request[q].shut => KnownClosed
        /\ request[q].shut /\ request[q].step = "accepted" => "branch" \in disorder

(* Of a datum that is behind core, a newer change is still to be handled.  *)
Told(last, queue, d, cached) ==
    cached # None /\ cached < last[d] =>
        \E i \in DOMAIN queue :
            queue[i].datum = d /\ queue[i].val > cached /\ queue[i].step \in Undecided

ProductTold(last, queue, item) == \A d \in {"price", "stock"} : Told(last, queue, d, item[d])

(* Or another process took it, if it is about a role.                      *)
Taken(queue, p, cached) ==
    \E i \in DOMAIN queue : /\ queue[i].datum = "role" /\ queue[i].val > cached
                            /\ queue[i].step = "acked" /\ queue[i].proc # p

RoleTold(last, queue, p, cached) == Told(last, queue, "role", cached) \/ Taken(queue, p, cached)

(* So it is with what a request is about to store, unless it is late.      *)
FillTold(last, queue, r) ==
    ~r.late =>
        /\ r.step \in {"fill branch", "fill branches"} => Told(last, queue, "branch", r.val)
        /\ r.step = "fill product" => ProductTold(last, queue, r.item)
        /\ r.step = "fill role" => RoleTold(last, queue, r.proc, r.val)

(* With what is stored, with what a handler has read to merge into it, and *)
(* with what a request is about to store.                                  *)
Current ==
    /\ Told(core, events, "branch", branch)
    /\ ProductTold(core, events, product)
    /\ \A p \in Procs : RoleTold(core, events, p, roles[p])
    /\ \A i \in DOMAIN events :
          events[i].step = "got" => ProductTold(core, events, events[i].copy)
    /\ \A q \in Requests : FillTold(core, events, request[q])

Fresh == scope \notin disorder \cup raced => Current

(* What is cached and asked for is about the key of the behaviour.         *)
RightKey(step) ==
    /\ step \in {"fetch branch", "fill branch", "fetch branches", "fill branches"} => scope = "branch"
    /\ step \in {"fetch product", "fill product"} => scope = "product"
    /\ step \in {"fetch role", "fill role"} => scope = "role"

OneKey ==
    /\ branch # None => scope = "branch"
    /\ product # NoProduct => scope = "product"
    /\ \A p \in Procs : roles[p] # None => scope = "role"
    /\ \A q \in Requests : RightKey(request[q].step)

-----------------------------------------------------------------------------
(* Types.                                                                  *)

LEMMA NoRequestType ==
    /\ NoRequest \in RequestType /\ NoRequest.step = "idle" /\ NoRequest.proc \in Procs
    /\ NoRequest.val = None /\ NoRequest.late = FALSE /\ NoRequest.shut = FALSE
    /\ NoRequest.item = NoProduct
    /\ NoProduct \in Products /\ ~NoProduct.full /\ NoProduct.price = None /\ NoProduct.stock = None
<1>1. NoProduct \in Products /\ ~NoProduct.full /\ NoProduct.price = None /\ NoProduct.stock = None
  BY DEF NoProduct, Products, Versions
<1>2. (CHOOSE p \in Procs : TRUE) \in Procs
  BY CoreCacheAssumption
<1> QED
  BY <1>1, <1>2 DEF NoRequest, RequestType, Versions

(* The step of one event, field by field.                                  *)
Moves(i, step, copy) ==
    /\ events' \in Seq(EventType) /\ Len(events') = Len(events) /\ DOMAIN events' = DOMAIN events
    /\ \A j \in DOMAIN events \ {i} : events'[j] = events[j]
    /\ \A j \in DOMAIN events : /\ events'[j].type = events[j].type
                                /\ events'[j].datum = events[j].datum
                                /\ events'[j].val = events[j].val
    /\ events'[i].step = step /\ events'[i].copy = copy

LEMMA StepEvents ==
    ASSUME Shape, NEW i \in DOMAIN events, NEW copy \in Products,
           NEW step \in InHand \cup {"queued", "acked", "dead"}, Step(i, step, copy)
    PROVE  /\ Moves(i, step, copy)
           /\ step \in InHand \/ events[i].datum = "role" => events'[i].proc = events[i].proc
<1> DEFINE p == IF step \in InHand \/ events[i].datum = "role" THEN events[i].proc ELSE NoRequest.proc
           e == events[i]
<1>1. e \in EventType /\ p \in Procs
  <2>1. e \in EventType
    BY DEF Shape
  <2> QED
    BY <2>1, NoRequestType DEF EventType
<1>2. events' = [events EXCEPT ![i] = [e EXCEPT !.step = step, !.copy = copy, !.proc = p]]
  BY DEF Step, Shape
<1> HIDE DEF p, e
<1> DEFINE f == [e EXCEPT !.step = step, !.copy = copy, !.proc = p]
<1>3. f \in EventType
  BY <1>1 DEF EventType
<1>4. f.type = e.type /\ f.datum = e.datum /\ f.val = e.val /\ f.step = step /\ f.copy = copy /\ f.proc = p
  BY <1>1 DEF EventType
<1> HIDE DEF f
<1>5. /\ events' \in Seq(EventType) /\ Len(events') = Len(events) /\ DOMAIN events' = DOMAIN events
      /\ events'[i] = f /\ \A j \in DOMAIN events \ {i} : events'[j] = events[j]
  BY <1>2, <1>3 DEF Shape, f
<1> QED
  BY <1>4, <1>5 DEF Moves, e, p

LEMMA DeliverEffect ==
    ASSUME Shape, NEW i \in DOMAIN events, NEW p \in Procs, Deliver(i, p)
    PROVE  Moves(i, "taken", events[i].copy) /\ events[i].step = "queued"
<1> DEFINE e == events[i]
<1>1. e \in EventType /\ "taken" \in InHand
  BY DEF Shape, InHand
<1>2. events' = [events EXCEPT ![i] = [e EXCEPT !.step = "taken", !.proc = p]]
  BY DEF Deliver, Shape
<1> HIDE DEF e
<1> DEFINE f == [e EXCEPT !.step = "taken", !.proc = p]
<1>3. f \in EventType
  BY <1>1 DEF EventType
<1>4. f.type = e.type /\ f.datum = e.datum /\ f.val = e.val /\ f.step = "taken" /\ f.copy = e.copy
  BY <1>1 DEF EventType
<1> HIDE DEF f
<1>5. /\ events' \in Seq(EventType) /\ Len(events') = Len(events) /\ DOMAIN events' = DOMAIN events
      /\ events'[i] = f /\ \A j \in DOMAIN events \ {i} : events'[j] = events[j]
  BY <1>2, <1>3 DEF Shape, f
<1> QED
  BY <1>4, <1>5 DEF Moves, Deliver, e

(* The step of one request.                                                *)
LEMMA NowRequest ==
    ASSUME request \in [Requests -> RequestType], NEW q \in Requests, NEW r \in RequestType, Now(q, r)
    PROVE  /\ request' \in [Requests -> RequestType] /\ request'[q] = r
           /\ \A x \in Requests \ {q} : request'[x] = request[x]
BY DEF Now

(* What an event or a change tells a request in progress.                  *)
LEMMA MarkShut ==
    ASSUME NEW r \in RequestType, NEW b \in BOOLEAN, NEW s, s = [r EXCEPT !.shut = b]
    PROVE  /\ s \in RequestType /\ s.shut = b /\ s.late = r.late
           /\ s.step = r.step /\ s.proc = r.proc /\ s.val = r.val /\ s.item = r.item
BY DEF RequestType

(* The step of one request, field by field.                                *)
Becomes(q, step, proc, val, late, shut, item) ==
    /\ request' \in [Requests -> RequestType]
    /\ \A x \in Requests \ {q} : request'[x] = request[x]
    /\ request'[q].step = step /\ request'[q].proc = proc /\ request'[q].val = val
    /\ request'[q].late = late /\ request'[q].shut = shut /\ request'[q].item = item

RequestSteps == Fills \cup {"idle", "fetch branch", "flag", "accepted", "fetch branches",
                            "fetch product", "priced", "fetch role"}

LEMMA BecomesIdle ==
    ASSUME Shape, NEW q \in Requests, Now(q, NoRequest)
    PROVE  Becomes(q, "idle", NoRequest.proc, None, FALSE, FALSE, NoProduct)
<1>1. request \in [Requests -> RequestType]
  BY DEF Shape
<1> QED
  BY <1>1, NowRequest, NoRequestType, Zenon DEF Becomes

(* What a request reads first. *)
LEMMA RequestStarts ==
    ASSUME Shape, NEW q \in Requests, NEW p \in Procs
    PROVE  /\ GetBranch(q, p) => Becomes(q, IF branch # None THEN "flag" ELSE "fetch branch",
                                         p, branch, FALSE, KnownClosed, NoProduct)
           /\ GetBranchesByIds(q, p) => Becomes(q, "fetch branches", p, None, FALSE, FALSE, NoProduct)
           /\ GetPermissions(q, p) => Becomes(q, "fetch role", p, None, FALSE, FALSE, NoProduct)
           /\ GetProducts(q, p) =>
                 Becomes(q, IF Usable(product) THEN "priced" ELSE "fetch product", p, None,
                         FALSE, FALSE, IF Usable(product) THEN product ELSE NoProduct)
<1>1. request \in [Requests -> RequestType] /\ branch \in Versions /\ product \in Products
  BY DEF Shape
<1>2. ASSUME GetBranch(q, p)
      PROVE  Becomes(q, IF branch # None THEN "flag" ELSE "fetch branch",
                     p, branch, FALSE, KnownClosed, NoProduct)
  <2> DEFINE step == IF branch # None THEN "flag" ELSE "fetch branch"
             r == [NoRequest EXCEPT !.step = step, !.proc = p, !.val = branch, !.shut = KnownClosed]
  <2>1. step \in RequestSteps /\ KnownClosed \in BOOLEAN
    BY DEF RequestSteps, KnownClosed
  <2> HIDE DEF step
  <2>2. /\ r \in RequestType /\ r.step = step /\ r.proc = p /\ r.val = branch
        /\ r.late = FALSE /\ r.shut = KnownClosed /\ r.item = NoProduct
    BY <1>1, <2>1, NoRequestType, Zenon DEF RequestType, RequestSteps
  <2>3. Now(q, r)
    BY <1>2 DEF GetBranch, step
  <2> HIDE DEF r
  <2> QED
    BY <1>1, <2>2, <2>3, NowRequest, Zenon DEF Becomes, step
<1>3. ASSUME GetBranchesByIds(q, p)
      PROVE  Becomes(q, "fetch branches", p, None, FALSE, FALSE, NoProduct)
  <2> DEFINE r == [NoRequest EXCEPT !.step = "fetch branches", !.proc = p]
  <2>1. "fetch branches" \in RequestSteps
    BY DEF RequestSteps
  <2>2. /\ r \in RequestType /\ r.step = "fetch branches" /\ r.proc = p /\ r.val = None
        /\ r.late = FALSE /\ r.shut = FALSE /\ r.item = NoProduct
    BY <1>1, <2>1, NoRequestType, Zenon DEF RequestType, RequestSteps
  <2>3. Now(q, r)
    BY <1>3 DEF GetBranchesByIds
  <2> HIDE DEF r
  <2> QED
    BY <1>1, <2>2, <2>3, NowRequest, Zenon DEF Becomes
<1>4. ASSUME GetPermissions(q, p)
      PROVE  Becomes(q, "fetch role", p, None, FALSE, FALSE, NoProduct)
  <2> DEFINE r == [NoRequest EXCEPT !.step = "fetch role", !.proc = p]
  <2>1. "fetch role" \in RequestSteps
    BY DEF RequestSteps, Fills
  <2>2. /\ r \in RequestType /\ r.step = "fetch role" /\ r.proc = p /\ r.val = None
        /\ r.late = FALSE /\ r.shut = FALSE /\ r.item = NoProduct
    BY <1>1, <2>1, NoRequestType, Zenon DEF RequestType, RequestSteps
  <2>3. Now(q, r)
    BY <1>4 DEF GetPermissions
  <2> HIDE DEF r
  <2> QED
    BY <1>1, <2>2, <2>3, NowRequest, Zenon DEF Becomes
<1>5. ASSUME GetProducts(q, p)
      PROVE  Becomes(q, IF Usable(product) THEN "priced" ELSE "fetch product", p, None,
                     FALSE, FALSE, IF Usable(product) THEN product ELSE NoProduct)
  <2> DEFINE step == IF Usable(product) THEN "priced" ELSE "fetch product"
             item == IF Usable(product) THEN product ELSE NoProduct
             r == [NoRequest EXCEPT !.proc = p, !.step = step, !.item = item]
  <2>1. step \in RequestSteps /\ item \in Products
    BY <1>1, NoRequestType DEF RequestSteps
  <2> HIDE DEF step, item
  <2>2. /\ r \in RequestType /\ r.step = step /\ r.proc = p /\ r.val = None
        /\ r.late = FALSE /\ r.shut = FALSE /\ r.item = item
    BY <1>1, <2>1, NoRequestType, Zenon DEF RequestType, RequestSteps
  <2>3. Now(q, r)
    BY <1>5 DEF GetProducts, step, item
  <2> HIDE DEF r
  <2> QED
    BY <1>1, <2>2, <2>3, NowRequest, Zenon DEF Becomes, step, item
<1> QED
  BY <1>2, <1>3, <1>4, <1>5

(* What it fetches from core, and what it does with it.                    *)
LEMMA RequestGoesOn ==
    ASSUME Shape, NEW q \in Requests, NEW r, r = request[q]
    PROVE  /\ FetchBranch(q) =>
                 Becomes(q, "fill branch", r.proc, core["branch"], r.late, r.shut, r.item)
           /\ FetchBranches(q) =>
                 Becomes(q, "fill branches", r.proc, core["branch"], r.late, r.shut, r.item)
           /\ FetchPermissions(q) =>
                 Becomes(q, "fill role", r.proc, core["role"], r.late, r.shut, r.item)
           /\ FetchProducts(q) =>
                 Becomes(q, "fill product", r.proc, r.val, r.late, r.shut,
                         [full |-> TRUE, price |-> core["price"], stock |-> core["stock"]])
           /\ FillBranch(q) => Becomes(q, "flag", r.proc, r.val, FALSE, r.shut, r.item)
           /\ FillProducts(q) => Becomes(q, "priced", r.proc, r.val, FALSE, r.shut, r.item)
           /\ CheckFlag(q) =>
                 \/ Becomes(q, "idle", NoRequest.proc, None, FALSE, FALSE, NoProduct)
                 \/ ~flag /\ Becomes(q, "accepted", r.proc, None, r.late, r.shut, r.item)
<1>1. request \in [Requests -> RequestType] /\ r \in RequestType /\ None \in Versions
  BY DEF Shape, Versions
<1>2. \A d \in Data : core[d] \in Versions
  BY DEF Shape, Versions
<1>3. "branch" \in Data /\ "role" \in Data /\ "price" \in Data /\ "stock" \in Data
  BY DEF Data
<1>4. {"fill branch", "fill branches", "fill role", "fill product", "flag", "priced", "accepted"}
         \subseteq RequestSteps
  BY DEF RequestSteps, Fills
<1>5. ASSUME NEW step \in RequestSteps, NEW val \in Versions,
             Now(q, [r EXCEPT !.step = step, !.val = val])
      PROVE  Becomes(q, step, r.proc, val, r.late, r.shut, r.item)
  <2> DEFINE s == [r EXCEPT !.step = step, !.val = val]
  <2>1. /\ s \in RequestType /\ s.step = step /\ s.proc = r.proc /\ s.val = val
        /\ s.late = r.late /\ s.shut = r.shut /\ s.item = r.item
    BY <1>1, <1>5, Zenon DEF RequestType, RequestSteps
  <2>2. Now(q, s)
    BY <1>5
  <2> HIDE DEF s
  <2> QED
    BY <1>1, <2>1, <2>2, NowRequest, Zenon DEF Becomes
<1>6. ASSUME NEW step \in RequestSteps, Now(q, [r EXCEPT !.step = step, !.late = FALSE])
      PROVE  Becomes(q, step, r.proc, r.val, FALSE, r.shut, r.item)
  <2> DEFINE s == [r EXCEPT !.step = step, !.late = FALSE]
  <2>1. /\ s \in RequestType /\ s.step = step /\ s.proc = r.proc /\ s.val = r.val
        /\ s.late = FALSE /\ s.shut = r.shut /\ s.item = r.item
    BY <1>1, <1>6, Zenon DEF RequestType, RequestSteps
  <2>2. Now(q, s)
    BY <1>6
  <2> HIDE DEF s
  <2> QED
    BY <1>1, <2>1, <2>2, NowRequest, Zenon DEF Becomes
<1>7. ASSUME FetchProducts(q)
      PROVE  Becomes(q, "fill product", r.proc, r.val, r.late, r.shut,
                     [full |-> TRUE, price |-> core["price"], stock |-> core["stock"]])
  <2> DEFINE item == [full |-> TRUE, price |-> core["price"], stock |-> core["stock"]]
             s == [r EXCEPT !.step = "fill product", !.item = item]
  <2>1. item \in Products
    BY <1>2, <1>3 DEF Products
  <2>2. Now(q, s)
    BY <1>7 DEF FetchProducts
  <2> HIDE DEF item
  <2>3. /\ s \in RequestType /\ s.step = "fill product" /\ s.proc = r.proc /\ s.val = r.val
        /\ s.late = r.late /\ s.shut = r.shut /\ s.item = item
    BY <1>1, <1>4, <2>1, Zenon DEF RequestType, RequestSteps
  <2> HIDE DEF s
  <2> QED
    BY <1>1, <2>2, <2>3, NowRequest, Zenon DEF Becomes, item
<1>8. ASSUME CheckFlag(q)
      PROVE  \/ Becomes(q, "idle", NoRequest.proc, None, FALSE, FALSE, NoProduct)
             \/ ~flag /\ Becomes(q, "accepted", r.proc, None, r.late, r.shut, r.item)
  <2>1. Now(q, NoRequest) \/ (~flag /\ Now(q, [r EXCEPT !.step = "accepted", !.val = None]))
    BY <1>8 DEF CheckFlag, IsBranchRejectingOrders
  <2> QED
    BY <1>1, <1>4, <1>5, <2>1, BecomesIdle
<1> QED
  BY <1>1, <1>2, <1>3, <1>4, <1>5, <1>6, <1>7, <1>8
     DEF FetchBranch, FetchBranches, FetchPermissions, FillBranch, FillProducts

(* What an event or a change tells the requests in progress.               *)
Marked ==
    /\ request' \in [Requests -> RequestType]
    /\ \A q \in Requests :
          /\ request'[q].step = request[q].step /\ request'[q].proc = request[q].proc
          /\ request'[q].val = request[q].val /\ request'[q].item = request[q].item

LEMMA OvertakeEffect ==
    ASSUME Shape, NEW k, Overtake(k)
    PROVE  /\ Marked
           /\ \A q \in Requests :
                 /\ request'[q].late = (request[q].late \/ request[q].step \in Filling(k))
                 /\ request'[q].shut = request[q].shut
<1>1. ASSUME NEW q \in Requests
      PROVE  /\ request'[q] \in RequestType
             /\ request'[q].step = request[q].step /\ request'[q].proc = request[q].proc
             /\ request'[q].val = request[q].val /\ request'[q].item = request[q].item
             /\ request'[q].late = (request[q].late \/ request[q].step \in Filling(k))
             /\ request'[q].shut = request[q].shut
  <2> DEFINE b == request[q].late \/ request[q].step \in Filling(k)
  <2>1. request[q] \in RequestType
    BY DEF Shape
  <2>2. b \in BOOLEAN
    OBVIOUS
  <2>3. request'[q] = [request[q] EXCEPT !.late = b]
    BY Zenon DEF Overtake
  <2> HIDE DEF b
  <2>4. /\ request'[q] \in RequestType /\ request'[q].late = b /\ request'[q].shut = request[q].shut
        /\ request'[q].step = request[q].step /\ request'[q].proc = request[q].proc
        /\ request'[q].val = request[q].val /\ request'[q].item = request[q].item
    BY <2>1, <2>2, <2>3, Zenon DEF RequestType
  <2> QED
    BY <2>4, Zenon DEF b
<1>2. request' \in [Requests -> RequestType]
  <2>1. request' = [q \in Requests |-> request'[q]]
    BY Zenon DEF Overtake
  <2> QED
    BY <1>1, <2>1, Zenon
<1> QED
  BY <1>1, <1>2, Zenon DEF Marked

LEMMA DropRoleEffect ==
    ASSUME Shape, NEW i \in DOMAIN events, DropRole(i)
    PROVE  /\ Marked
           /\ \A q \in Requests :
                 /\ request'[q].late = (request[q].late \/
                       (request[q].step = "fill role" /\ request[q].proc = events[i].proc))
                 /\ request'[q].shut = request[q].shut
<1>1. ASSUME NEW q \in Requests
      PROVE  /\ request'[q] \in RequestType
             /\ request'[q].step = request[q].step /\ request'[q].proc = request[q].proc
             /\ request'[q].val = request[q].val /\ request'[q].item = request[q].item
             /\ request'[q].late = (request[q].late \/
                       (request[q].step = "fill role" /\ request[q].proc = events[i].proc))
             /\ request'[q].shut = request[q].shut
  <2> DEFINE b == request[q].late \/
                  (request[q].step = "fill role" /\ request[q].proc = events[i].proc)
  <2>1. request[q] \in RequestType
    BY DEF Shape
  <2>2. b \in BOOLEAN
    OBVIOUS
  <2>3. request'[q] = [request[q] EXCEPT !.late = b]
    BY Zenon DEF DropRole
  <2> HIDE DEF b
  <2>4. /\ request'[q] \in RequestType /\ request'[q].late = b /\ request'[q].shut = request[q].shut
        /\ request'[q].step = request[q].step /\ request'[q].proc = request[q].proc
        /\ request'[q].val = request[q].val /\ request'[q].item = request[q].item
    BY <2>1, <2>2, <2>3, Zenon DEF RequestType
  <2> QED
    BY <2>4, Zenon DEF b
<1>2. request' \in [Requests -> RequestType]
  <2>1. request' = [q \in Requests |-> request'[q]]
    BY Zenon DEF DropRole
  <2> QED
    BY <1>1, <2>1, Zenon
<1> QED
  BY <1>1, <1>2, Zenon DEF Marked

(* A change in core: one more event.                                       *)
LEMMA ChangeEffect ==
    ASSUME Shape, \A d \in Data : core[d] <= Len(events),
           NEW d \in Data, NEW type \in Data \cup {"deactivated"}, Change(d, type)
    PROVE  /\ Marked
           /\ \A q \in Requests : /\ request'[q].late = request[q].late
                                  /\ request'[q].shut = (d # "branch" /\ request[q].shut)
           /\ core' \in [Data -> 0..MaxChanges] /\ core'[d] = core[d] + 1 /\ core[d] \in Nat
           /\ \A x \in Data \ {d} : core'[x] = core[x]
           /\ events' \in Seq(EventType) /\ Len(events') = Len(events) + 1 /\ Len(events') <= MaxChanges
           /\ DOMAIN events' = DOMAIN events \cup {Len(events) + 1}
           /\ \A j \in DOMAIN events : events'[j] = events[j] /\ j < Len(events) + 1
           /\ events'[Len(events) + 1].type = type /\ events'[Len(events) + 1].datum = d
           /\ events'[Len(events) + 1].val = core[d] + 1
           /\ events'[Len(events) + 1].step = "queued" /\ events'[Len(events) + 1].copy = NoProduct
<1>1. MaxChanges \in Nat /\ Len(events) \in Nat /\ Len(events) < MaxChanges
  BY CoreCacheAssumption DEF Change, Shape
<1>2. core[d] \in 0..MaxChanges /\ core[d] + 1 \in 1..MaxChanges
  BY <1>1 DEF Shape
<1> DEFINE e == [type |-> type, datum |-> d, val |-> core[d] + 1, step |-> "queued",
                 proc |-> NoRequest.proc, copy |-> NoProduct]
<1>3. e \in EventType
  BY <1>2, NoRequestType DEF EventType
<1>4. e.type = type /\ e.datum = d /\ e.val = core[d] + 1 /\ e.step = "queued" /\ e.copy = NoProduct
  OBVIOUS
<1>5. events' = Append(events, e)
  BY DEF Change
<1> HIDE DEF e
<1>6. /\ events' \in Seq(EventType) /\ Len(events') = Len(events) + 1
      /\ DOMAIN events' = DOMAIN events \cup {Len(events) + 1}
      /\ events'[Len(events) + 1] = e
      /\ \A j \in DOMAIN events : events'[j] = events[j] /\ j < Len(events) + 1
  <2>1. events \in Seq(EventType)
    BY DEF Shape
  <2> QED
    BY <1>3, <1>5, <2>1
<1>7. /\ core' \in [Data -> 0..MaxChanges] /\ core'[d] = core[d] + 1
      /\ \A x \in Data \ {d} : core'[x] = core[x]
  BY <1>1, <1>2 DEF Change, Shape
<1>8. ASSUME NEW q \in Requests
      PROVE  /\ request'[q] \in RequestType
             /\ request'[q].step = request[q].step /\ request'[q].proc = request[q].proc
             /\ request'[q].val = request[q].val /\ request'[q].item = request[q].item
             /\ request'[q].late = request[q].late
             /\ request'[q].shut = (d # "branch" /\ request[q].shut)
  <2>1. request[q] \in RequestType /\ FALSE \in BOOLEAN
    BY DEF Shape
  <2>2. CASE d = "branch"
    <3>1. request'[q] = [request[q] EXCEPT !.shut = FALSE]
      BY <2>2, Zenon DEF Change
    <3> QED
      BY <2>1, <2>2, <3>1, MarkShut, Zenon
  <2>3. CASE d # "branch"
    <3>1. request'[q] = request[q]
      BY <2>3, Zenon DEF Change
    <3>2. request[q].shut \in BOOLEAN
      BY <2>1, Zenon DEF RequestType
    <3> QED
      BY <2>1, <2>3, <3>1, <3>2, Zenon
  <2> QED
    BY <2>2, <2>3, Zenon
<1>9. Marked
  <2>1. request' = [q \in Requests |-> request'[q]]
    BY Zenon DEF Change
  <2>2. request' \in [Requests -> RequestType]
    BY <1>8, <2>1, Zenon
  <2> QED
    BY <1>8, <2>2, Zenon DEF Marked
<1>10. core[d] \in Nat /\ Len(events') <= MaxChanges
  BY <1>1, <1>2, <1>6
<1> QED
  BY <1>4, <1>6, <1>7, <1>8, <1>9, <1>10, Zenon

(* The death of a process.                                                 *)
LEMMA ProcessDiesEffect ==
    ASSUME Shape, NEW p \in Procs, ProcessDies(p)
    PROVE  /\ events' \in Seq(EventType) /\ Len(events') = Len(events) /\ DOMAIN events' = DOMAIN events
           /\ \A j \in DOMAIN events : /\ events'[j].type = events[j].type
                                       /\ events'[j].datum = events[j].datum
                                       /\ events'[j].val = events[j].val
           /\ \A j \in DOMAIN events :
                 IF j \in Unacked(p) THEN events'[j].step = "queued" /\ events'[j].copy = NoProduct
                 ELSE events'[j] = events[j]
           /\ request' \in [Requests -> RequestType]
           /\ \A q \in Requests :
                 request'[q] = IF request[q].proc = p THEN NoRequest ELSE request[q]
           /\ roles' \in [Procs -> Versions] /\ roles'[p] = None
           /\ \A x \in Procs \ {p} : roles'[x] = roles[x]
           /\ disorder' \subseteq Keys
<1>1. events \in Seq(EventType)
  BY DEF Shape
<1>2. events' = [i \in DOMAIN events |-> events'[i]]
  BY Zenon DEF ProcessDies
<1>3. ASSUME NEW j \in DOMAIN events
      PROVE  /\ events'[j] \in EventType
             /\ events'[j].type = events[j].type /\ events'[j].datum = events[j].datum
             /\ events'[j].val = events[j].val
             /\ IF j \in Unacked(p) THEN events'[j].step = "queued" /\ events'[j].copy = NoProduct
                ELSE events'[j] = events[j]
  <2>1. events[j] \in EventType
    BY <1>1
  <2>2. CASE j \in Unacked(p)
    <3>1. events'[j] = [events[j] EXCEPT !.step = "queued", !.copy = NoProduct]
      BY <2>2, Zenon DEF ProcessDies
    <3> DEFINE e == events[j]
               f == [e EXCEPT !.step = "queued", !.copy = NoProduct]
    <3>2. f = events'[j]
      BY <3>1
    <3> HIDE DEF e
    <3>3. /\ f \in EventType /\ f.type = e.type /\ f.datum = e.datum /\ f.val = e.val
          /\ f.step = "queued" /\ f.copy = NoProduct
      BY <2>1, NoRequestType DEF EventType, e
    <3> HIDE DEF f
    <3> QED
      BY <2>2, <3>2, <3>3 DEF e
  <2>3. CASE j \notin Unacked(p)
    <3>1. events'[j] = events[j]
      BY <2>3, Zenon DEF ProcessDies
    <3> QED
      BY <2>1, <2>3, <3>1
  <2> QED
    BY <2>2, <2>3
<1>4. events' \in Seq(EventType) /\ Len(events') = Len(events) /\ DOMAIN events' = DOMAIN events
  <2>1. DOMAIN events = 1..Len(events) /\ Len(events) \in Nat
    BY <1>1
  <2>2. events' \in [1..Len(events) -> EventType]
    BY <1>2, <1>3, <2>1
  <2> QED
    BY <2>1, <2>2
<1>5. \A q \in Requests : request'[q] = IF request[q].proc = p THEN NoRequest ELSE request[q]
  BY Zenon DEF ProcessDies
<1>6. request' \in [Requests -> RequestType]
  <2>1. \A q \in Requests : request'[q] \in RequestType
    BY <1>5, NoRequestType, Zenon DEF Shape
  <2>2. request' = [q \in Requests |-> request'[q]]
    BY Zenon DEF ProcessDies
  <2> QED
    BY <2>1, <2>2, Zenon
<1>7. /\ roles' \in [Procs -> Versions] /\ roles'[p] = None
      /\ \A x \in Procs \ {p} : roles'[x] = roles[x]
  BY DEF ProcessDies, Shape, Versions
<1>8. disorder' \subseteq Keys
  <2>1. ASSUME NEW j \in DOMAIN events PROVE KeyOf(events[j].datum) \in Keys
    <3>1. events[j] \in EventType
      BY <1>1
    <3>2. events[j].datum \in Data
      BY <3>1 DEF EventType
    <3> QED
      BY <3>2 DEF Data, Keys, KeyOf
  <2>2. disorder \subseteq Keys /\ Unacked(p) \subseteq DOMAIN events
    BY DEF Shape, Unacked
  <2> QED
    BY <2>1, <2>2 DEF ProcessDies
<1> QED
  BY <1>3, <1>4, <1>5, <1>6, <1>7, <1>8, Zenon

(* A merge keeps the copy and renews the event's datum.                    *)
LEMMA MergedEntry ==
    ASSUME NEW old \in Products, NEW d \in {"price", "stock"}, NEW v \in Versions,
           product' = [old EXCEPT ![d] = v]
    PROVE  /\ product' \in Products /\ product'.full = old.full /\ product'[d] = v
           /\ \A x \in {"price", "stock"} \ {d} : product'[x] = old[x]
           /\ product'.price = product'["price"] /\ product'.stock = product'["stock"]
           /\ old.price = old["price"] /\ old.stock = old["stock"]
<1>1. CASE d = "price"
  <2>1. product' = [old EXCEPT !.price = v]
    BY <1>1
  <2> QED
    BY <1>1, <2>1 DEF Products
<1>2. CASE d = "stock"
  <2>1. product' = [old EXCEPT !.stock = v]
    BY <1>2
  <2> QED
    BY <1>2, <2>1 DEF Products
<1> QED
  BY <1>1, <1>2

(* The consumer's steps, event by event.                                   *)
LEMMA EventEffect ==
    ASSUME Shape, NEW i \in DOMAIN events
    PROVE  /\ SkipDuplicate(i) => Moves(i, "acked", NoProduct)
           /\ MarkSeen(i) => Moves(i, "fresh", NoProduct)
           /\ DropBranch(i) => Moves(i, "half", NoProduct)
           /\ TurnFlag(i) => Moves(i, "acked", NoProduct)
           /\ GetToMerge(i) => Moves(i, "got", product)
           /\ Merge(i) => Moves(i, "acked", NoProduct)
           /\ DropRole(i) => Moves(i, "acked", NoProduct) /\ events'[i].proc = events[i].proc
           /\ HandlerFails(i) => Moves(i, "dead", NoProduct)
           /\ Replay(i) => Moves(i, "queued", NoProduct)
<1>1. NoProduct \in Products /\ product \in Products
  BY NoRequestType DEF Shape
<1>2. {"acked", "fresh", "half", "got", "dead", "queued"} \subseteq InHand \cup {"queued", "acked", "dead"}
  BY DEF InHand
<1> QED
  BY <1>1, <1>2, StepEvents
     DEF SkipDuplicate, MarkSeen, DropBranch, TurnFlag, GetToMerge, Merge, SetMerged, DropRole,
         HandlerFails, Replay

LEMMA KeyOfEvent ==
    ASSUME Shape, NEW i \in DOMAIN events
    PROVE  /\ events[i] \in EventType /\ events[i].datum \in Data /\ KeyOf(events[i].datum) \in Keys
           /\ events[i].val \in 1..MaxChanges /\ events[i].copy \in Products /\ events[i].proc \in Procs
           /\ events[i].step \in InHand \cup {"queued", "acked", "dead"}
           /\ Together(i) \subseteq {KeyOf(events[i].datum)}
<1>1. events[i] \in EventType
  BY DEF Shape
<1>2. /\ events[i].datum \in Data /\ events[i].val \in 1..MaxChanges /\ events[i].proc \in Procs
      /\ events[i].copy \in Products /\ events[i].step \in InHand \cup {"queued", "acked", "dead"}
  BY <1>1 DEF EventType
<1>3. KeyOf(events[i].datum) \in Keys
  BY <1>2 DEF Data, Keys, KeyOf
<1> QED
  BY <1>1, <1>2, <1>3 DEF Together

(* What a merge makes of the entry.                                        *)
LEMMA MergeEffect ==
    ASSUME Shape, NEW i \in DOMAIN events, Merge(i), KeyOf(events[i].datum) = "product"
    PROVE  LET d == events[i].datum
               copy == events[i].copy
           IN  /\ d \in {"price", "stock"} /\ product' \in Products /\ product'.full = copy.full
               /\ product'[d] = events[i].val
               /\ \A x \in {"price", "stock"} \ {d} : product'[x] = copy[x]
               /\ product'.price = product'["price"] /\ product'.stock = product'["stock"]
               /\ copy.price = copy["price"] /\ copy.stock = copy["stock"]
<1> DEFINE d == events[i].datum
           copy == events[i].copy
           v == events[i].val
<1>1. d \in {"price", "stock"}
  BY KeyOfEvent DEF KeyOf, Data
<1>2. copy \in Products /\ v \in 1..MaxChanges
  BY KeyOfEvent
<1>3. v \in Versions
  BY <1>2, CoreCacheAssumption DEF Versions
<1>4. product' = [copy EXCEPT ![d] = v]
  BY DEF Merge, SetMerged
<1> HIDE DEF d, copy, v
<1>5. /\ product' \in Products /\ product'.full = copy.full /\ product'[d] = v
      /\ \A x \in {"price", "stock"} \ {d} : product'[x] = copy[x]
      /\ product'.price = product'["price"] /\ product'.stock = product'["stock"]
      /\ copy.price = copy["price"] /\ copy.stock = copy["stock"]
  BY <1>1, <1>2, <1>3, <1>4, MergedEntry
<1> QED
  BY <1>1, <1>5 DEF d, copy, v

-----------------------------------------------------------------------------
(* Types and numbers are inductive.                                        *)

BaseInv == Shape /\ Numbered

RequestAction(q) ==
    \/ \E p \in Procs : GetBranch(q, p) \/ GetBranchesByIds(q, p) \/ GetProducts(q, p) \/ GetPermissions(q, p)
    \/ FetchBranch(q) \/ FillBranch(q) \/ CheckFlag(q) \/ FetchBranches(q) \/ FillBranches(q)
    \/ FetchProducts(q) \/ FillProducts(q) \/ BuildOrderLineDrafts(q) \/ Leave(q)
    \/ FetchPermissions(q) \/ FillPermissions(q)

EventAction(i) == Consume(i) \/ HandlerFails(i) \/ Replay(i)

ChangeAction == ChangeDatum \/ UpdateInactive \/ Deactivate

LEMMA ChangeCases ==
    ASSUME ChangeAction
    PROVE  \E d \in Data, type \in Data \cup {"deactivated"} :
              /\ Change(d, type)
              /\ closed' \in {closed, closed \cup {core[d] + 1}}
BY DEF ChangeAction, ChangeDatum, UpdateInactive, Deactivate, Data

LEMMA NextCases ==
    ASSUME [Next]_vars
    PROVE  \/ ChangeAction
           \/ \E i \in DOMAIN events : EventAction(i) \/ DedupeExpires(i)
           \/ \E p \in Procs : ProcessDies(p)
           \/ \E q \in Requests : RequestAction(q)
           \/ EntryExpires
           \/ UNCHANGED vars
BY DEF Next, ChangeAction, EventAction, RequestAction

LEMMA NumberedMoves ==
    ASSUME BaseInv, core' = core, scope' = scope,
           Len(events') = Len(events), DOMAIN events' = DOMAIN events,
           \A j \in DOMAIN events : /\ events'[j].type = events[j].type
                                    /\ events'[j].datum = events[j].datum
                                    /\ events'[j].val = events[j].val,
           \A j \in DOMAIN events :
              /\ events'[j].step = "got" => KeyOf(events[j].datum) = "product"
              /\ events'[j].step = "half" => KeyOf(events[j].datum) = "branch"
    PROVE  Numbered'
<1>1. \A j \in DOMAIN events : KeyOf(events'[j].datum) = KeyOf(events[j].datum)
  BY DEF KeyOf
<1>2. \A d \in Data : core'[d] <= Len(events')
  BY DEF BaseInv, Numbered
<1>3. \A d \in Data : core'[d] # 0 =>
         \E i \in DOMAIN events' : events'[i].datum = d /\ events'[i].val = core'[d]
  BY DEF BaseInv, Numbered
<1>4. \A j \in DOMAIN events' : /\ events'[j].val <= core'[events'[j].datum]
                                /\ KeyOf(events'[j].datum) = scope'
                                /\ events'[j].step = "got" => scope' = "product"
                                /\ events'[j].step = "half" => scope' = "branch"
  BY <1>1 DEF BaseInv, Numbered
<1>5. \A i, j \in DOMAIN events' :
          i < j /\ events'[i].datum = events'[j].datum => events'[i].val < events'[j].val
  BY DEF BaseInv, Numbered
<1> QED
  BY <1>2, <1>3, <1>4, <1>5, Zenon DEF Numbered, KeyOf

LEMMA StepOfKind ==
    ASSUME BaseInv, NEW j \in DOMAIN events
    PROVE  /\ events[j].step = "got" => KeyOf(events[j].datum) = "product"
           /\ events[j].step = "half" => KeyOf(events[j].datum) = "branch"
BY DEF BaseInv, Numbered

LEMMA BaseEvents ==
    ASSUME BaseInv, NEW i \in DOMAIN events, EventAction(i)
    PROVE  BaseInv'
<1>0. Shape
  BY DEF BaseInv
<1>1. PICK step \in InHand \cup {"queued", "acked", "dead"}, copy \in Products :
         /\ Moves(i, step, copy)
         /\ step = "got" => KeyOf(events[i].datum) = "product"
         /\ step = "half" => KeyOf(events[i].datum) = "branch"
  <2>1. NoProduct \in Products /\ product \in Products /\ events[i].copy \in Products
    BY <1>0, NoRequestType, KeyOfEvent DEF Shape
  <2>2. {"acked", "fresh", "half", "got", "dead", "queued", "taken"}
           \subseteq InHand \cup {"queued", "acked", "dead"}
    BY DEF InHand
  <2>3. DropBranch(i) => KeyOf(events[i].datum) = "branch"
    BY DEF DropBranch, KeyOf
  <2>4. GetToMerge(i) => KeyOf(events[i].datum) = "product"
    BY DEF GetToMerge
  <2> QED
    BY <1>0, <2>1, <2>2, <2>3, <2>4, EventEffect, DeliverEffect DEF EventAction, Consume
<1>2. core' = core /\ scope' = scope /\ closed' = closed /\ raced' = raced
  BY DEF EventAction, Consume, Deliver, SkipDuplicate, MarkSeen, DropBranch, TurnFlag, GetToMerge,
         Merge, SetMerged, DropRole, HandlerFails, Replay, caches, history
<1>3. Numbered'
  BY <1>1, <1>2, StepOfKind, NumberedMoves DEF Moves
<1>4. seen' \subseteq DOMAIN events' /\ faults' \in 0..MaxFaults /\ disorder' \subseteq Keys
  <2>1. seen' \in {seen, seen \cup {i}} /\ (faults' = faults \/ Fault)
    BY DEF EventAction, Consume, Deliver, SkipDuplicate, MarkSeen, DropBranch, TurnFlag,
           GetToMerge, Merge, SetMerged, DropRole, HandlerFails, Replay, caches, history
  <2>2. disorder' \in {disorder, disorder \cup Together(i), disorder \cup {KeyOf(events[i].datum)}}
    BY DEF EventAction, Consume, Deliver, SkipDuplicate, MarkSeen, DropBranch, TurnFlag,
           GetToMerge, Merge, SetMerged, DropRole, HandlerFails, Replay, caches, history
  <2>3. faults' \in 0..MaxFaults
    BY <1>0, <2>1, CoreCacheAssumption DEF Shape, Fault
  <2>4. KeyOf(events[i].datum) \in Keys /\ Together(i) \subseteq {KeyOf(events[i].datum)}
    BY <1>0, KeyOfEvent
  <2>5. disorder' \subseteq Keys
    BY <1>0, <2>2, <2>4 DEF Shape
  <2> QED
    BY <1>0, <1>1, <2>1, <2>3, <2>5 DEF Shape, Moves
<1>5. branch' \in Versions /\ flag' \in BOOLEAN
  BY <1>0 DEF Shape, Versions, EventAction, Consume, Deliver, SkipDuplicate, MarkSeen, DropBranch,
              TurnFlag, GetToMerge, Merge, SetMerged, DropRole, HandlerFails, Replay, caches, history
<1>6. product' \in Products
  <2>1. CASE Merge(i)
    BY <1>0, <2>1, MergeEffect, StepOfKind DEF Merge, SetMerged
  <2>2. CASE ~Merge(i)
    BY <1>0, <2>2 DEF Shape, EventAction, Consume, Deliver, SkipDuplicate, MarkSeen, DropBranch,
                      TurnFlag, GetToMerge, DropRole, HandlerFails, Replay, caches, history
  <2> QED
    BY <2>1, <2>2
<1>7. roles' \in [Procs -> Versions]
  BY <1>0 DEF Shape, Versions, EventAction, Consume, Deliver, SkipDuplicate, MarkSeen, DropBranch,
              TurnFlag, GetToMerge, Merge, SetMerged, DropRole, HandlerFails, Replay, caches, history
<1>8. /\ request' \in [Requests -> RequestType]
      /\ \A q \in Requests : request'[q].late => request'[q].step \in Fills
  <2>1. CASE DropBranch(i) \/ Merge(i)
    <3>1. PICK k \in {"branch", "product"} : Overtake(k)
      BY <2>1 DEF DropBranch, Merge, SetMerged
    <3>2. Filling(k) \subseteq Fills
      BY DEF Filling, Fills
    <3> QED
      BY <1>0, <3>1, <3>2, OvertakeEffect DEF Marked, Shape
  <2>2. CASE DropRole(i)
    <3>1. "fill role" \in Fills
      BY DEF Fills
    <3>2. /\ Marked
          /\ \A q \in Requests : request'[q].late = (request[q].late \/
                (request[q].step = "fill role" /\ request[q].proc = events[i].proc))
      BY <1>0, <2>2, DropRoleEffect, Zenon
    <3>3. \A q \in Requests : request[q].late => request[q].step \in Fills
      BY <1>0 DEF Shape
    <3> QED
      BY <3>1, <3>2, <3>3, Zenon DEF Marked
  <2>3. CASE ~DropBranch(i) /\ ~Merge(i) /\ ~DropRole(i)
    BY <1>0, <2>3 DEF Shape, EventAction, Consume, Deliver, SkipDuplicate, MarkSeen, TurnFlag,
                      GetToMerge, HandlerFails, Replay, caches, history
  <2> QED
    BY <2>1, <2>2, <2>3
<1>9. Shape'
  BY <1>0, <1>1, <1>2, <1>4, <1>5, <1>6, <1>7, <1>8 DEF Shape, Moves
<1> QED
  BY <1>3, <1>9 DEF BaseInv

LEMMA BaseChange ==
    ASSUME BaseInv, ChangeAction
    PROVE  BaseInv'
<1>0. Shape /\ \A d \in Data : core[d] <= Len(events)
  BY DEF BaseInv, Numbered
<1>1. PICK d \in Data, type \in Data \cup {"deactivated"} :
         Change(d, type) /\ closed' \in {closed, closed \cup {core[d] + 1}}
  BY ChangeCases
<1> DEFINE n == Len(events) + 1
<1>2. /\ Marked /\ \A q \in Requests : request'[q].late = request[q].late
      /\ core' \in [Data -> 0..MaxChanges] /\ core'[d] = core[d] + 1 /\ core[d] \in Nat
      /\ \A x \in Data \ {d} : core'[x] = core[x]
      /\ events' \in Seq(EventType) /\ Len(events') = n /\ n <= MaxChanges
      /\ DOMAIN events' = DOMAIN events \cup {n}
      /\ \A j \in DOMAIN events : events'[j] = events[j] /\ j < n
      /\ events'[n].datum = d /\ events'[n].val = core[d] + 1 /\ events'[n].step = "queued"
  BY <1>0, <1>1, ChangeEffect
<1>3. KeyOf(d) = scope /\ scope' = scope
  BY <1>1 DEF Change
<1>4. Len(events) \in Nat /\ n \in Nat /\ DOMAIN events = 1..Len(events)
  BY <1>0 DEF Shape
<1>5. \A j \in DOMAIN events : events[j].val \in Nat /\ events[j].val <= core[events[j].datum] /\ events[j].datum \in Data
  BY <1>0, KeyOfEvent, CoreCacheAssumption DEF BaseInv, Numbered
<1>6. \A x \in Data : core[x] \in Nat /\ core[x] <= Len(events)
  BY <1>0, CoreCacheAssumption DEF Shape
<1> HIDE DEF n
<1>7. \A x \in Data : core'[x] <= n
  BY <1>2, <1>4, <1>6 DEF n
<1>8. \A x \in Data : core'[x] # 0 =>
         \E i \in DOMAIN events' : events'[i].datum = x /\ events'[i].val = core'[x]
  <2>1. ASSUME NEW x \in Data, core'[x] # 0
        PROVE  \E i \in DOMAIN events' : events'[i].datum = x /\ events'[i].val = core'[x]
    <3>1. CASE x = d
      BY <1>2, <3>1
    <3>2. CASE x # d
      <4>1. core'[x] = core[x]
        BY <1>2, <3>2
      <4>2. PICK i \in DOMAIN events : events[i].datum = x /\ events[i].val = core[x]
        BY <2>1, <4>1 DEF BaseInv, Numbered
      <4> QED
        BY <1>2, <4>1, <4>2
    <3> QED
      BY <3>1, <3>2
  <2> QED
    BY <2>1
<1>9. ASSUME NEW j \in DOMAIN events'
      PROVE  /\ events'[j].val <= core'[events'[j].datum]
             /\ KeyOf(events'[j].datum) = scope
             /\ events'[j].step = "got" => scope = "product"
             /\ events'[j].step = "half" => scope = "branch"
  <2>1. CASE j = n
    BY <1>2, <1>3, <2>1 DEF KeyOf
  <2>2. CASE j # n
    <3>1. j \in DOMAIN events /\ events'[j] = events[j]
      BY <1>2, <1>9, <2>2
    <3>2. core[events[j].datum] <= core'[events[j].datum]
      BY <1>2, <1>5, <1>6, <3>1
    <3>3. events'[j].val <= core'[events'[j].datum]
      BY <1>2, <1>5, <1>6, <3>1, <3>2
    <3> QED
      BY <3>1, <3>3 DEF BaseInv, Numbered
  <2> QED
    BY <2>1, <2>2
<1>10. ASSUME NEW i \in DOMAIN events', NEW j \in DOMAIN events', i < j,
              events'[i].datum = events'[j].datum
       PROVE  events'[i].val < events'[j].val
  <2>1. i \in DOMAIN events /\ events'[i] = events[i]
    <3>1. i # n
      BY <1>2, <1>4, <1>10
    <3> QED
      BY <1>2, <3>1, <1>10
  <2>2. CASE j = n
    BY <1>2, <1>5, <1>10, <2>1, <2>2
  <2>3. CASE j # n
    BY <1>2, <1>10, <2>1, <2>3 DEF BaseInv, Numbered
  <2> QED
    BY <2>2, <2>3
<1>11. Numbered'
  BY <1>2, <1>3, <1>7, <1>8, <1>9, <1>10 DEF Numbered, KeyOf
<1>12. /\ request' \in [Requests -> RequestType]
       /\ \A q \in Requests : request'[q].late => request'[q].step \in Fills
  <2>1. \A q \in Requests : request[q].late => request[q].step \in Fills
    BY <1>0 DEF Shape
  <2> QED
    BY <1>2, <2>1, Zenon DEF Marked
<1>13. closed' \subseteq 1..MaxChanges
  <2>1. core[d] + 1 \in 1..MaxChanges
    BY <1>2
  <2> QED
    BY <1>0, <1>1, <2>1 DEF Shape
<1>14. /\ seen' = seen /\ branch' = branch /\ product' = product /\ flag' = flag /\ roles' = roles
       /\ disorder' = disorder /\ raced' = raced /\ faults' = faults
  BY <1>1 DEF Change, caches, history
<1>15. Shape'
  BY <1>0, <1>2, <1>3, <1>12, <1>13, <1>14 DEF Shape
<1> QED
  BY <1>11, <1>15 DEF BaseInv

LEMMA BaseDies ==
    ASSUME BaseInv, NEW p \in Procs, ProcessDies(p)
    PROVE  BaseInv'
<1>0. Shape
  BY DEF BaseInv
<1>1. /\ scope' = scope /\ core' = core /\ closed' = closed /\ seen' = seen
      /\ branch' = branch /\ product' = product /\ flag' = flag /\ raced' = raced
  BY DEF ProcessDies
<1>2. faults' \in 0..MaxFaults
  <2>1. Fault /\ faults \in 0..MaxFaults
    BY <1>0 DEF ProcessDies, Shape
  <2> QED
    BY <2>1, CoreCacheAssumption DEF Fault
<1>3. \A q \in Requests : request'[q].late => request'[q].step \in Fills
  BY <1>0, ProcessDiesEffect, NoRequestType, Zenon DEF Shape
<1>4. Shape'
  BY <1>0, <1>1, <1>2, <1>3, ProcessDiesEffect DEF Shape
<1>5. \A j \in DOMAIN events : events'[j].step \in {events[j].step, "queued"}
  BY <1>0, ProcessDiesEffect
<1>6. Numbered'
  BY <1>0, <1>1, <1>5, StepOfKind, NumberedMoves, ProcessDiesEffect
<1> QED
  BY <1>4, <1>6 DEF BaseInv

LEMMA BaseStays ==
    ASSUME BaseInv, core' = core, scope' = scope, events' = events
    PROVE  Numbered'
BY StepOfKind, NumberedMoves

(* What a request writes is what it has fetched.                           *)
LEMMA BaseRequest ==
    ASSUME BaseInv, NEW q \in Requests, RequestAction(q)
    PROVE  BaseInv'
<1>0. Shape
  BY DEF BaseInv
<1>1. /\ scope' = scope /\ core' = core /\ closed' = closed /\ events' = events /\ seen' = seen
      /\ flag' = flag /\ faults' = faults /\ disorder' = disorder
  BY DEF RequestAction, GetBranch, GetBranchesByIds, GetProducts, GetPermissions, FetchBranch,
         FillBranch, CheckFlag, FetchBranches, FillBranches, FetchProducts, FillProducts,
         BuildOrderLineDrafts, Leave, FetchPermissions, FillPermissions, unread, history
<1>2. Numbered'
  BY <1>1, BaseStays
<1>3. request[q] \in RequestType
  BY <1>0 DEF Shape
<1>4. request[q].val \in Versions /\ request[q].item \in Products /\ request[q].proc \in Procs
  BY <1>3, Zenon DEF RequestType
<1>5. branch' \in Versions /\ product' \in Products /\ roles' \in [Procs -> Versions] /\ raced' \subseteq Keys
  BY <1>0, <1>4
     DEF Shape, Keys, RequestAction, GetBranch, GetBranchesByIds, GetProducts, GetPermissions, FetchBranch,
         FillBranch, CheckFlag, FetchBranches, FillBranches, FetchProducts, FillProducts,
         BuildOrderLineDrafts, Leave, FetchPermissions, FillPermissions, unread, history
<1>6. /\ request' \in [Requests -> RequestType]
      /\ \A x \in Requests \ {q} : request'[x] = request[x]
      /\ request'[q].late => request'[q].step \in Fills
  <2> DEFINE Fine == /\ request' \in [Requests -> RequestType]
                     /\ \A x \in Requests \ {q} : request'[x] = request[x]
                     /\ request'[q].late => request'[q].step \in Fills
  <2>0. request[q].late => request[q].step \in Fills
    BY <1>0 DEF Shape
  <2>1. ASSUME NEW step, NEW proc, NEW val, NEW shut, NEW item,
               Becomes(q, step, proc, val, FALSE, shut, item)
        PROVE  Fine
    BY <2>1, Zenon DEF Becomes
  <2>2. ASSUME NEW step \in Fills, NEW proc, NEW val, NEW late, NEW shut, NEW item,
               Becomes(q, step, proc, val, late, shut, item)
        PROVE  Fine
    BY <2>2, Zenon DEF Becomes
  <2>3. ASSUME NEW p \in Procs, GetBranch(q, p) \/ GetBranchesByIds(q, p) \/ GetProducts(q, p) \/ GetPermissions(q, p)
        PROVE  Fine
    BY <1>0, <2>1, <2>3, RequestStarts, Zenon
  <2>4. CASE FetchBranch(q) \/ FetchBranches(q) \/ FetchPermissions(q) \/ FetchProducts(q)
    <3>1. /\ "fill branch" \in Fills /\ "fill branches" \in Fills
          /\ "fill role" \in Fills /\ "fill product" \in Fills
      BY DEF Fills
    <3> QED
      BY <1>0, <2>2, <2>4, <3>1, RequestGoesOn, Zenon
  <2>5. CASE FillBranch(q) \/ FillProducts(q)
    BY <1>0, <2>1, <2>5, RequestGoesOn, Zenon
  <2>6. CASE FillBranches(q) \/ FillPermissions(q) \/ BuildOrderLineDrafts(q) \/ Leave(q)
    <3>1. Now(q, NoRequest)
      BY <2>6 DEF FillBranches, FillPermissions, BuildOrderLineDrafts, Leave
    <3> QED
      BY <1>0, <2>1, <3>1, BecomesIdle, Zenon
  <2>7. CASE CheckFlag(q)
    <3>1. CASE Becomes(q, "idle", NoRequest.proc, None, FALSE, FALSE, NoProduct)
      BY <2>1, <3>1, Zenon
    <3>2. CASE Becomes(q, "accepted", request[q].proc, None, request[q].late, request[q].shut, request[q].item)
      <4>1. request[q].step = "flag" /\ "flag" \notin Fills
        BY <2>7 DEF CheckFlag, At, Fills
      <4>2. request[q].late = FALSE
        BY <1>3, <2>0, <4>1, Zenon DEF RequestType
      <4> QED
        BY <2>1, <3>2, <4>2, Zenon
    <3> QED
      BY <1>0, <2>7, <3>1, <3>2, RequestGoesOn, Zenon
  <2> QED
    BY <2>3, <2>4, <2>5, <2>6, <2>7, Zenon DEF RequestAction
<1>7. \A x \in Requests : request'[x].late => request'[x].step \in Fills
  BY <1>0, <1>6, Zenon DEF Shape
<1>8. Shape'
  BY <1>0, <1>1, <1>5, <1>6, <1>7 DEF Shape
<1> QED
  BY <1>2, <1>8 DEF BaseInv

LEMMA BaseInitial == Init => BaseInv
<1> SUFFICES ASSUME Init PROVE BaseInv
  OBVIOUS
<1>1. /\ scope \in Keys /\ (\A d \in Data : core[d] = 0) /\ events = <<>> /\ closed = {} /\ seen = {}
      /\ branch = None /\ product = NoProduct /\ flag = FALSE
      /\ roles = [p \in Procs |-> None] /\ disorder = {} /\ raced = {} /\ faults = 0
  BY DEF Init
<1>2. core \in [Data -> 0..MaxChanges] /\ 0 <= MaxChanges /\ None \in Versions /\ 0 \in 0..MaxFaults
  BY CoreCacheAssumption DEF Init, Versions
<1>3. request \in [Requests -> RequestType] /\ \A q \in Requests : request[q] = NoRequest
  BY NoRequestType DEF Init
<1>4. \A q \in Requests : request[q].late => request[q].step \in Fills
  BY <1>3, NoRequestType, Zenon
<1>5. events \in Seq(EventType) /\ Len(events) = 0 /\ DOMAIN events = {}
  <2>1. events = <<>>
    BY DEF Init
  <2> QED
    BY <2>1
<1>6. Shape
  <2>1. roles \in [Procs -> Versions] /\ product \in Products /\ flag \in BOOLEAN
    BY <1>1, <1>2, NoRequestType
  <2>2. Len(events) <= MaxChanges /\ seen \subseteq DOMAIN events /\ closed \subseteq 1..MaxChanges
    BY <1>1, <1>2, <1>5
  <2>3. branch \in Versions /\ disorder \subseteq Keys /\ raced \subseteq Keys /\ faults \in 0..MaxFaults
    BY <1>1, <1>2
  <2> QED
    BY <1>1, <1>2, <1>3, <1>4, <1>5, <2>1, <2>2, <2>3, Zenon DEF Shape
<1>7. Numbered
  BY <1>1, <1>5 DEF Numbered
<1> QED
  BY <1>6, <1>7 DEF BaseInv

LEMMA BaseKeeps == BaseInv /\ [Next]_vars => BaseInv'
<1> SUFFICES ASSUME BaseInv, [Next]_vars PROVE BaseInv'
  OBVIOUS
<1>0. Shape
  BY DEF BaseInv
<1>1. ASSUME NEW i \in DOMAIN events, DedupeExpires(i) PROVE BaseInv'
  <2>1. /\ scope' = scope /\ core' = core /\ closed' = closed /\ events' = events /\ seen' = seen \ {i}
        /\ branch' = branch /\ product' = product /\ flag' = flag /\ roles' = roles
        /\ request' = request /\ disorder' = disorder /\ raced' = raced
    BY <1>1 DEF DedupeExpires, caches, history
  <2>2. faults' \in 0..MaxFaults
    BY <1>0, <1>1, CoreCacheAssumption DEF DedupeExpires, Fault, Shape
  <2> QED
    BY <1>0, <2>1, <2>2, BaseStays DEF BaseInv, Shape
<1>2. CASE EntryExpires
  <2>1. /\ scope' = scope /\ core' = core /\ closed' = closed /\ events' = events /\ seen' = seen
        /\ flag' = flag /\ faults' = faults /\ request' = request /\ disorder' = disorder /\ raced' = raced
    BY <1>2 DEF EntryExpires, unread, history
  <2>2. None \in Versions /\ NoProduct \in Products
    BY NoRequestType DEF Versions
  <2>3. branch' \in Versions /\ product' \in Products /\ roles' \in [Procs -> Versions]
    BY <1>0, <1>2, <2>2 DEF EntryExpires, Shape
  <2> QED
    BY <1>0, <2>1, <2>3, BaseStays DEF BaseInv, Shape
<1>3. CASE UNCHANGED vars
  BY <1>0, <1>3, BaseStays DEF BaseInv, Shape, vars
<1> QED
  BY <1>1, <1>2, <1>3, NextCases, BaseEvents, BaseChange, BaseDies, BaseRequest

(* The caches, the events and the requests keep their types.               *)
THEOREM TypeCorrect == Spec => []TypeOK
<1>1. BaseInv => TypeOK
  <2> SUFFICES ASSUME BaseInv PROVE TypeOK
    OBVIOUS
  <2>1. Shape
    BY DEF BaseInv
  <2>2. \A i \in DOMAIN events : events[i] \in EventType
    BY <2>1 DEF Shape
  <2>3. \A q \in Requests :
           /\ request[q].proc \in Procs /\ request[q].val \in Versions /\ request[q].item \in Products
           /\ request[q].late => request[q].step \in Fills
    <3>1. \A q \in Requests : request[q] \in RequestType /\ (request[q].late => request[q].step \in Fills)
      BY <2>1 DEF Shape
    <3> QED
      BY <3>1, Zenon DEF RequestType
  <2> QED
    BY <2>1, <2>2, <2>3 DEF TypeOK, Shape, EventType, Fills
<1> QED
  BY <1>1, BaseInitial, BaseKeeps, PTL DEF Spec

-----------------------------------------------------------------------------
(* The order of the events of a key.                                       *)

HandlerStep(i) == DropBranch(i) \/ TurnFlag(i) \/ GetToMerge(i) \/ Merge(i) \/ DropRole(i)

LEMMA Grows ==
    ASSUME [Next]_vars
    PROVE  scope' = scope /\ disorder \subseteq disorder' /\ raced \subseteq raced'
<1>1. ASSUME ChangeAction PROVE scope' = scope /\ disorder \subseteq disorder' /\ raced \subseteq raced'
  BY <1>1 DEF ChangeAction, ChangeDatum, UpdateInactive, Deactivate, Change, history
<1>2. ASSUME NEW i \in DOMAIN events, EventAction(i) \/ DedupeExpires(i)
      PROVE  scope' = scope /\ disorder \subseteq disorder' /\ raced \subseteq raced'
  BY <1>2 DEF EventAction, Consume, Deliver, SkipDuplicate, MarkSeen, DropBranch, TurnFlag, GetToMerge,
              Merge, SetMerged, DropRole, HandlerFails, Replay, DedupeExpires, history
<1>3. ASSUME NEW q \in Requests, RequestAction(q) PROVE scope' = scope /\ disorder \subseteq disorder' /\ raced \subseteq raced'
  BY <1>3 DEF RequestAction, GetBranch, GetBranchesByIds, GetProducts, GetPermissions, FetchBranch,
       FillBranch, CheckFlag, FetchBranches, FillBranches, FetchProducts, FillProducts,
       BuildOrderLineDrafts, Leave, FetchPermissions, FillPermissions, unread, history
<1>4. ASSUME NEW p \in Procs, ProcessDies(p) PROVE scope' = scope /\ disorder \subseteq disorder' /\ raced \subseteq raced'
  BY <1>4 DEF ProcessDies
<1>5. CASE EntryExpires \/ UNCHANGED vars
  BY <1>5 DEF EntryExpires, unread, history, vars
<1> QED
  BY <1>1, <1>2, <1>3, <1>4, <1>5, NextCases

LEMMA Undisordered ==
    ASSUME BaseInv, InOrder, [Next]_vars, scope' \notin disorder'
    PROVE  /\ scope' = scope /\ scope \notin disorder
           /\ \A i \in DOMAIN events :
                 /\ ~SkipDuplicate(i) /\ ~HandlerFails(i) /\ ~Replay(i)
                 /\ HandlerStep(i) => \A j \in DOMAIN events \ {i} : events[j].step \notin InHand
           /\ \A p \in Procs : ProcessDies(p) => Unacked(p) = {}
<1>0. Shape
  BY DEF BaseInv
<1>1. scope' = scope /\ disorder \subseteq disorder'
  BY Grows
<1>2. scope \notin disorder
  BY <1>1
<1>3. \A i \in DOMAIN events : KeyOf(events[i].datum) = scope
  BY DEF BaseInv, Numbered
<1>4. ASSUME NEW i \in DOMAIN events PROVE ~SkipDuplicate(i) /\ ~HandlerFails(i) /\ ~Replay(i)
  BY <1>1, <1>2, <1>3 DEF InOrder, SkipDuplicate, HandlerFails, Replay
<1>5. ASSUME NEW i \in DOMAIN events, HandlerStep(i), NEW j \in DOMAIN events \ {i}, events[j].step \in InHand
      PROVE  FALSE
  <2>1. disorder' = disorder \cup Together(i)
    BY <1>5 DEF HandlerStep, DropBranch, TurnFlag, GetToMerge, Merge, SetMerged, DropRole
  <2>2. Together(i) = {scope}
    BY <1>3, <1>5 DEF Together
  <2> QED
    BY <1>1, <2>1, <2>2
<1>6. ASSUME NEW p \in Procs, ProcessDies(p) PROVE Unacked(p) = {}
  <2>1. disorder' = disorder \cup {KeyOf(events[i].datum) : i \in Unacked(p)}
    BY <1>6 DEF ProcessDies
  <2>2. Unacked(p) \subseteq DOMAIN events
    BY DEF Unacked
  <2> QED
    BY <1>1, <1>3, <2>1, <2>2
<1> QED
  BY <1>1, <1>2, <1>4, <1>5, <1>6

LEMMA OrderKeeps ==
    ASSUME BaseInv, InOrder, [Next]_vars
    PROVE  InOrder'
<1> SUFFICES ASSUME scope' \notin disorder'
    PROVE  /\ \A i \in DOMAIN events' : /\ events'[i].step # "dead"
                                        /\ events'[i].step \in {"queued", "taken"} => i \notin seen'
           /\ \A i, j \in DOMAIN events' : i < j =>
                 /\ events'[i].step = "queued" => events'[j].step = "queued"
                 /\ events'[j].step \in Handled => events'[i].step = "acked"
  BY DEF InOrder, Handled
<1> DEFINE Good == /\ \A i \in DOMAIN events' : /\ events'[i].step # "dead"
                                                /\ events'[i].step \in {"queued", "taken"} => i \notin seen'
                   /\ \A i, j \in DOMAIN events' : i < j =>
                         /\ events'[i].step = "queued" => events'[j].step = "queued"
                         /\ events'[j].step \in Handled => events'[i].step = "acked"
<1>0. Shape /\ scope \notin disorder
  BY Undisordered DEF BaseInv
<1>1. /\ \A i \in DOMAIN events : /\ events[i].step # "dead"
                                  /\ events[i].step \in {"queued", "taken"} => i \notin seen
      /\ \A i, j \in DOMAIN events : i < j =>
            /\ events[i].step = "queued" => events[j].step = "queued"
            /\ events[j].step \in Handled => events[i].step = "acked"
  BY <1>0 DEF InOrder
<1>2. DOMAIN events \subseteq Nat
  BY <1>0 DEF Shape
<1>3. ASSUME seen' \subseteq seen, DOMAIN events' = DOMAIN events,
             \A j \in DOMAIN events : events'[j] = events[j]
      PROVE  Good
  BY <1>1, <1>3
<1>4. ASSUME ChangeAction PROVE Good
  <2>1. PICK d \in Data, type \in Data \cup {"deactivated"} : Change(d, type)
    BY <1>4, ChangeCases
  <2> DEFINE n == Len(events) + 1
  <2>2. /\ DOMAIN events' = DOMAIN events \cup {n} /\ events'[n].step = "queued"
        /\ \A j \in DOMAIN events : events'[j] = events[j] /\ j < n
    BY <1>0, <2>1, ChangeEffect DEF BaseInv, Numbered
  <2>3. seen' = seen /\ n \notin seen /\ n \in Nat /\ n \notin DOMAIN events
    BY <1>0, <2>1 DEF Change, Shape
  <2> HIDE DEF n
  <2>4. \A i \in DOMAIN events' : /\ events'[i].step # "dead"
                                  /\ events'[i].step \in {"queued", "taken"} => i \notin seen'
    BY <1>1, <2>2, <2>3
  <2>5. ASSUME NEW i \in DOMAIN events', NEW j \in DOMAIN events', i < j
        PROVE  /\ events'[i].step = "queued" => events'[j].step = "queued"
               /\ events'[j].step \in Handled => events'[i].step = "acked"
    <3>1. i \in DOMAIN events
      BY <1>2, <2>2, <2>3, <2>5
    <3>2. CASE j = n
      BY <2>2, <3>2 DEF Handled
    <3>3. CASE j # n
      BY <1>1, <2>2, <2>5, <3>1, <3>3
    <3> QED
      BY <3>2, <3>3
  <2> QED
    BY <2>4, <2>5
<1>5. ASSUME NEW i \in DOMAIN events, EventAction(i) PROVE Good
  <2>1. CASE \E p \in Procs : Deliver(i, p)
    <3>1. PICK p \in Procs : Deliver(i, p)
      BY <2>1
    <3>2. Moves(i, "taken", events[i].copy) /\ events[i].step = "queued"
      BY <1>0, <3>1, DeliverEffect
    <3>3. seen' = seen /\ \A j \in DOMAIN events : j < i => events[j].step # "queued"
      <4>1. seen' = seen /\ \A j \in 1..(i - 1) : events[j].step # "queued"
        BY <3>1 DEF Deliver
      <4>2. DOMAIN events = 1..Len(events) /\ Len(events) \in Nat
        BY <1>0 DEF Shape
      <4> QED
        BY <4>1, <4>2
    <3> QED
      BY <1>1, <3>2, <3>3 DEF Moves, Handled
  <2>2. CASE MarkSeen(i)
    <3>1. Moves(i, "fresh", NoProduct) /\ events[i].step = "taken" /\ seen' = seen \cup {i}
      BY <1>0, <2>2, EventEffect DEF MarkSeen
    <3> QED
      BY <1>1, <3>1 DEF Moves, Handled
  <2>3. CASE HandlerStep(i)
    <3>1. PICK step \in Handled : \E copy : Moves(i, step, copy)
      BY <1>0, <2>3, EventEffect DEF HandlerStep, Handled
    <3>2. events[i].step \in {"fresh", "half", "got"} /\ seen' = seen
      BY <2>3 DEF HandlerStep, DropBranch, TurnFlag, GetToMerge, Merge, SetMerged, DropRole
    <3>3. \A j \in DOMAIN events \ {i} : events[j].step \notin InHand
      BY <2>3, Undisordered
    <3>4. \A j \in DOMAIN events : j < i => events[j].step = "acked"
      <4>1. \A j \in DOMAIN events : events[j].step \in InHand \cup {"queued", "acked", "dead"}
        BY <1>0, KeyOfEvent
      <4>2. \A j \in DOMAIN events : j < i => j # i /\ events[j].step # "queued" /\ events[j].step # "dead"
        BY <1>1, <1>2, <3>2
      <4> QED
        BY <3>3, <4>1, <4>2
    <3>5. \A j \in DOMAIN events : i < j => events[j].step \notin Handled
      BY <1>1, <3>2
    <3> QED
      BY <1>1, <1>2, <3>1, <3>2, <3>4, <3>5 DEF Moves, Handled
  <2> QED
    BY <1>5, <2>1, <2>2, <2>3, Undisordered DEF EventAction, Consume, HandlerStep
<1>6. ASSUME NEW p \in Procs, ProcessDies(p) PROVE Good
  <2>1. Unacked(p) = {} /\ seen' = seen
    BY <1>6, Undisordered DEF ProcessDies
  <2> QED
    BY <1>0, <1>3, <1>6, <2>1, ProcessDiesEffect
<1>7. CASE \/ \E i \in DOMAIN events : DedupeExpires(i)
           \/ \E q \in Requests : RequestAction(q)
           \/ EntryExpires \/ UNCHANGED vars
  <2>1. events' = events /\ seen' \subseteq seen
    BY <1>7 DEF DedupeExpires, EntryExpires, vars, RequestAction, GetBranch, GetBranchesByIds, GetProducts,
         GetPermissions, FetchBranch, FillBranch, CheckFlag, FetchBranches, FillBranches, FetchProducts,
         FillProducts, BuildOrderLineDrafts, Leave, FetchPermissions, FillPermissions, unread
  <2> QED
    BY <1>3, <2>1
<1> QED
  BY <1>4, <1>5, <1>6, <1>7, NextCases

-----------------------------------------------------------------------------
(* The entries of the product.                                             *)

LEMMA SoundGrows ==
    ASSUME NEW item, NEW p \in Nat, NEW s \in Nat, NEW p2 \in Nat, NEW s2 \in Nat,
           SoundAt(item, p, s), p <= p2, s <= s2
    PROVE  SoundAt(item, p2, s2)
BY DEF SoundAt

LEMMA SoundEmpty == ASSUME NEW p, NEW s PROVE SoundAt(NoProduct, p, s)
BY NoRequestType DEF SoundAt

LEMMA SoundsInitial == Init => Sounds
<1> SUFFICES ASSUME Init PROVE Sounds
  OBVIOUS
<1>1. product = NoProduct /\ DOMAIN events = {} /\ \A q \in Requests : request[q] = NoRequest
  BY DEF Init
<1> QED
  BY <1>1, SoundEmpty, NoRequestType DEF Sounds, Sound

LEMMA SoundsKeeps ==
    ASSUME BaseInv, Sounds, [Next]_vars
    PROVE  Sounds'
<1>0. Shape /\ "price" \in Data /\ "stock" \in Data
  BY DEF BaseInv, Data
<1>1. core["price"] \in Nat /\ core["stock"] \in Nat
  BY <1>0, CoreCacheAssumption DEF Shape
<1> DEFINE Still == core' = core
           Now1(x) == SoundAt(x, core'["price"], core'["stock"])
<1>2. /\ Sound(product) /\ \A i \in DOMAIN events : Sound(events[i].copy)
      /\ \A q \in Requests : request[q].step \in {"fill product", "priced"} =>
            request[q].item.full /\ Sound(request[q].item)
  BY DEF Sounds
<1>3. \A x : Sound(x) /\ Still => Now1(x)
  BY DEF Sound
<1>4. \A x : x = NoProduct => Now1(x)
  BY SoundEmpty
<1>5. ASSUME NEW i \in DOMAIN events, EventAction(i) PROVE Sounds'
  <2>1. Still /\ (product' = product \/ Merge(i))
    BY <1>5 DEF EventAction, Consume, Deliver, SkipDuplicate, MarkSeen, DropBranch, TurnFlag, GetToMerge,
         Merge, SetMerged, DropRole, HandlerFails, Replay, caches
  <2>2. /\ DOMAIN events' = DOMAIN events
        /\ \A j \in DOMAIN events : events'[j].copy \in {events[j].copy, NoProduct, product}
    <3>1. \E step : Moves(i, step, NoProduct) \/ Moves(i, step, product) \/ Moves(i, step, events[i].copy)
      BY <1>0, <1>5, EventEffect, DeliverEffect, Zenon DEF EventAction, Consume
    <3> QED
      BY <3>1 DEF Moves
  <2>3. Now1(product')
    <3>1. CASE Merge(i)
      <4> DEFINE d == events[i].datum
                 old == events[i].copy
      <4>1. KeyOf(d) = "product"
        BY <3>1, StepOfKind DEF Merge, SetMerged
      <4>2. /\ d \in {"price", "stock"} /\ product'.full = old.full
            /\ product'[d] = events[i].val
            /\ \A x \in {"price", "stock"} \ {d} : product'[x] = old[x]
            /\ product'.price = product'["price"] /\ product'.stock = product'["stock"]
            /\ old.price = old["price"] /\ old.stock = old["stock"]
        BY <1>0, <3>1, <4>1, MergeEffect
      <4>3. events[i].val \in 1..MaxChanges /\ events[i].val <= core[d]
        BY <1>0, KeyOfEvent DEF BaseInv, Numbered
      <4>4. events[i].val \in Nat /\ events[i].val \in 0..core[d] /\ events[i].val # None
        BY <1>1, <4>2, <4>3, CoreCacheAssumption
      <4>5. SoundAt(old, core["price"], core["stock"])
        BY <1>2 DEF Sound
      <4> HIDE DEF d, old
      <4>6. CASE d = "price"
        BY <2>1, <4>2, <4>4, <4>5, <4>6 DEF SoundAt
      <4>7. CASE d = "stock"
        BY <2>1, <4>2, <4>4, <4>5, <4>7 DEF SoundAt
      <4> QED
        BY <4>2, <4>6, <4>7
    <3>2. CASE product' = product
      BY <1>2, <1>3, <2>1, <3>2
    <3> QED
      BY <2>1, <3>1, <3>2
  <2>4. \A j \in DOMAIN events' : Now1(events'[j].copy)
    <3> HIDE DEF Now1
    <3> QED
      BY <1>2, <1>3, <1>4, <2>1, <2>2
  <2>5. \A q \in Requests : /\ request'[q].step = request[q].step /\ request'[q].item = request[q].item
    <3>1. CASE DropBranch(i) \/ Merge(i)
      <4>1. PICK k \in {"branch", "product"} : Overtake(k)
        BY <3>1 DEF DropBranch, Merge, SetMerged
      <4>2. Marked
        BY <1>0, <4>1, OvertakeEffect
      <4> QED
        BY <4>2 DEF Marked
    <3>2. CASE DropRole(i)
      BY <1>0, <3>2, DropRoleEffect DEF Marked
    <3>3. CASE ~DropBranch(i) /\ ~Merge(i) /\ ~DropRole(i)
      BY <1>5, <3>3 DEF EventAction, Consume, Deliver, SkipDuplicate, MarkSeen, TurnFlag, GetToMerge,
         HandlerFails, Replay
    <3> QED
      BY <3>1, <3>2, <3>3
  <2>6. \A q \in Requests : request'[q].step \in {"fill product", "priced"} =>
           request'[q].item.full /\ Now1(request'[q].item)
    <3> HIDE DEF Now1
    <3> QED
      BY <1>2, <1>3, <2>1, <2>5
  <2> QED
    BY <2>3, <2>4, <2>6 DEF Sounds, Sound
<1>6. ASSUME ChangeAction PROVE Sounds'
  <2>1. PICK d \in Data, type \in Data \cup {"deactivated"} : Change(d, type)
    BY <1>6, ChangeCases
  <2>2. /\ Marked /\ core'[d] = core[d] + 1 /\ core[d] \in Nat
        /\ \A x \in Data \ {d} : core'[x] = core[x]
        /\ DOMAIN events' = DOMAIN events \cup {Len(events) + 1}
        /\ \A j \in DOMAIN events : events'[j] = events[j]
        /\ events'[Len(events) + 1].copy = NoProduct
    BY <1>0, <2>1, ChangeEffect DEF BaseInv, Numbered
  <2>3. /\ core'["price"] \in Nat /\ core["price"] <= core'["price"]
        /\ core'["stock"] \in Nat /\ core["stock"] <= core'["stock"]
    BY <1>0, <1>1, <2>2
  <2>4. \A x : Sound(x) => Now1(x)
    BY <1>1, <2>3, SoundGrows DEF Sound
  <2>5. product' = product
    BY <2>1 DEF Change, caches
  <2> HIDE DEF Now1
  <2>6. \A q \in Requests : request'[q].step \in {"fill product", "priced"} =>
           request'[q].item.full /\ Now1(request'[q].item)
    BY <1>2, <2>2, <2>4 DEF Marked
  <2>7. \A j \in DOMAIN events' : Now1(events'[j].copy)
    BY <1>2, <1>4, <2>2, <2>4
  <2> QED
    BY <1>2, <2>4, <2>5, <2>6, <2>7 DEF Sounds, Sound, Now1
<1>7. ASSUME NEW p \in Procs, ProcessDies(p) PROVE Sounds'
  <2>1. Still /\ product' = product
    BY <1>7 DEF ProcessDies
  <2>2. /\ DOMAIN events' = DOMAIN events
        /\ \A j \in DOMAIN events : events'[j].copy \in {events[j].copy, NoProduct}
        /\ \A q \in Requests : request'[q] = request[q] \/ request'[q] = NoRequest
    BY <1>0, <1>7, ProcessDiesEffect
  <2> HIDE DEF Now1
  <2>3. \A j \in DOMAIN events' : Now1(events'[j].copy)
    BY <1>2, <1>3, <1>4, <2>1, <2>2
  <2>4. \A q \in Requests : request'[q].step \in {"fill product", "priced"} =>
           request'[q].item.full /\ Now1(request'[q].item)
    BY <1>2, <1>3, <2>1, <2>2, NoRequestType
  <2> QED
    BY <1>2, <1>3, <2>1, <2>3, <2>4 DEF Sounds, Sound, Now1
<1>8. ASSUME NEW q \in Requests, RequestAction(q) PROVE Sounds'
  <2>1. Still /\ events' = events /\ (product' = product \/ FillProducts(q))
    BY <1>8 DEF RequestAction, GetBranch, GetBranchesByIds, GetProducts, GetPermissions, FetchBranch,
         FillBranch, CheckFlag, FetchBranches, FillBranches, FetchProducts, FillProducts,
         BuildOrderLineDrafts, Leave, FetchPermissions, FillPermissions, unread
  <2>2. Now1(product')
    <3>1. FillProducts(q) => product' = request[q].item /\ request[q].step = "fill product"
      BY DEF FillProducts, At
    <3> HIDE DEF Now1
    <3> QED
      BY <1>2, <1>3, <2>1, <3>1
  <2>3. /\ \A x \in Requests \ {q} : request'[x] = request[x]
        /\ request'[q].step \in {"fill product", "priced"} => request'[q].item.full /\ Now1(request'[q].item)
    <3> DEFINE Fine == /\ \A x \in Requests \ {q} : request'[x] = request[x]
                       /\ request'[q].step \in {"fill product", "priced"} =>
                             request'[q].item.full /\ Now1(request'[q].item)
    <3>1. ASSUME NEW step, NEW proc, NEW val, NEW late, NEW shut, NEW item,
                 Becomes(q, step, proc, val, late, shut, item),
                 step \in {"fill product", "priced"} => item.full /\ Now1(item)
          PROVE  Fine
      <4> HIDE DEF Now1
      <4> QED
        BY <3>1, Zenon DEF Becomes
    <3>2. CASE \E p \in Procs : GetBranch(q, p) \/ GetBranchesByIds(q, p) \/ GetPermissions(q, p)
      <4>1. /\ "fetch branch" \notin {"fill product", "priced"} /\ "flag" \notin {"fill product", "priced"}
            /\ "fetch branches" \notin {"fill product", "priced"}
            /\ "fetch role" \notin {"fill product", "priced"}
            /\ (IF branch # None THEN "flag" ELSE "fetch branch") \notin {"fill product", "priced"}
        OBVIOUS
      <4> QED
        BY <1>0, <3>1, <3>2, <4>1, RequestStarts, Zenon
    <3>3. ASSUME NEW p \in Procs, GetProducts(q, p) PROVE Fine
      <4> DEFINE step == IF Usable(product) THEN "priced" ELSE "fetch product"
                 item == IF Usable(product) THEN product ELSE NoProduct
      <4>1. Becomes(q, step, p, None, FALSE, FALSE, item)
        BY <1>0, <3>3, RequestStarts, Zenon
      <4>2. step \in {"fill product", "priced"} => item.full /\ Now1(item)
        BY <1>2, <1>3, <2>1 DEF Usable
      <4> HIDE DEF step, item
      <4> QED
        BY <3>1, <4>1, <4>2, Zenon
    <3>4. CASE FetchBranch(q) \/ FetchBranches(q) \/ FetchPermissions(q) \/ FillBranch(q)
      <4>1. /\ "fill branch" \notin {"fill product", "priced"} /\ "flag" \notin {"fill product", "priced"}
            /\ "fill branches" \notin {"fill product", "priced"}
            /\ "fill role" \notin {"fill product", "priced"}
        OBVIOUS
      <4> QED
        BY <1>0, <3>1, <3>4, <4>1, RequestGoesOn, Zenon
    <3>5. CASE FetchProducts(q)
      <4> DEFINE item == [full |-> TRUE, price |-> core["price"], stock |-> core["stock"]]
      <4>1. Becomes(q, "fill product", request[q].proc, request[q].val, request[q].late, request[q].shut, item)
        BY <1>0, <3>5, RequestGoesOn, Zenon
      <4>2. item.full /\ Now1(item)
        BY <1>1, <2>1, CoreCacheAssumption DEF SoundAt
      <4> HIDE DEF item
      <4> QED
        BY <3>1, <4>1, <4>2, Zenon
    <3>6. CASE FillProducts(q)
      <4>1. Becomes(q, "priced", request[q].proc, request[q].val, FALSE, request[q].shut, request[q].item)
        BY <1>0, <3>6, RequestGoesOn, Zenon
      <4>2. request[q].item.full /\ Now1(request[q].item)
        BY <1>2, <1>3, <2>1, <3>6 DEF FillProducts, At
      <4> QED
        BY <3>1, <4>1, <4>2, Zenon
    <3>7. CASE \/ Now(q, NoRequest)
               \/ CheckFlag(q)
      <4>1. "idle" \notin {"fill product", "priced"} /\ "accepted" \notin {"fill product", "priced"}
        OBVIOUS
      <4> QED
        BY <1>0, <3>1, <3>7, <4>1, BecomesIdle, RequestGoesOn, Zenon
    <3>8. FillBranches(q) \/ FillPermissions(q) \/ BuildOrderLineDrafts(q) \/ Leave(q) => Now(q, NoRequest)
      BY DEF FillBranches, FillPermissions, BuildOrderLineDrafts, Leave
    <3> QED
      BY <1>8, <3>2, <3>3, <3>4, <3>5, <3>6, <3>7, <3>8, Zenon DEF RequestAction
  <2>4. \A x \in Requests : request'[x].step \in {"fill product", "priced"} =>
           request'[x].item.full /\ Now1(request'[x].item)
    <3> HIDE DEF Now1
    <3> QED
      BY <1>2, <1>3, <2>1, <2>3
  <2>5. \A j \in DOMAIN events' : Now1(events'[j].copy)
    BY <1>2, <1>3, <2>1
  <2> QED
    BY <2>2, <2>4, <2>5 DEF Sounds, Sound
<1>9. CASE \/ \E i \in DOMAIN events : DedupeExpires(i)
           \/ EntryExpires \/ UNCHANGED vars
  <2>1. /\ Still /\ events' = events /\ request' = request
        /\ product' = product \/ product' = NoProduct
    BY <1>9 DEF DedupeExpires, EntryExpires, vars, unread, caches
  <2> QED
    BY <1>2, <1>3, <1>4, <2>1 DEF Sounds, Sound
<1> QED
  BY <1>5, <1>6, <1>7, <1>8, <1>9, NextCases

(* Whatever events and fills have merged in an entry, an order is priced   *)
(* with a name, a price and a stock that core once had.                    *)
THEOREM PricedAlwaysWhole == Spec => []PricedIsWhole
<1>1. Sounds => PricedIsWhole
  BY DEF Sounds, Sound, SoundAt, PricedIsWhole
<1> QED
  BY <1>1, BaseInitial, BaseKeeps, SoundsInitial, SoundsKeeps, PTL DEF Spec

-----------------------------------------------------------------------------
(* What is acknowledged stays so, and core's events are only added to.      *)

LEMMA InOrderInitial == Init => InOrder
BY DEF Init, InOrder

LEMMA EventsStay ==
    ASSUME BaseInv, [Next]_vars
    PROVE  /\ \A j \in DOMAIN events :
                 /\ j \in DOMAIN events'
                 /\ events'[j].type = events[j].type /\ events'[j].datum = events[j].datum
                 /\ events'[j].val = events[j].val
                 /\ events[j].step = "acked" => events'[j] = events[j]
           /\ ~ChangeAction => core' = core /\ DOMAIN events' = DOMAIN events
<1>0. Shape
  BY DEF BaseInv
<1>1. ASSUME ChangeAction PROVE \A j \in DOMAIN events : j \in DOMAIN events' /\ events'[j] = events[j]
  <2>1. PICK d \in Data, type \in Data \cup {"deactivated"} : Change(d, type)
    BY <1>1, ChangeCases
  <2> QED
    BY <1>0, <2>1, ChangeEffect DEF BaseInv, Numbered
<1> DEFINE Kept == /\ core' = core /\ DOMAIN events' = DOMAIN events
                   /\ \A j \in DOMAIN events :
                         /\ events'[j].type = events[j].type /\ events'[j].datum = events[j].datum
                         /\ events'[j].val = events[j].val
                         /\ events[j].step = "acked" => events'[j] = events[j]
<1>2. ASSUME NEW i \in DOMAIN events, EventAction(i) PROVE Kept
  <2>1. PICK step : \E copy : Moves(i, step, copy)
    BY <1>0, <1>2, EventEffect, DeliverEffect, Zenon DEF EventAction, Consume
  <2>2. core' = core /\ events[i].step # "acked"
    BY <1>2 DEF EventAction, Consume, Deliver, SkipDuplicate, MarkSeen, DropBranch, TurnFlag, GetToMerge,
                Merge, SetMerged, DropRole, HandlerFails, Replay, InHand
  <2> QED
    BY <2>1, <2>2 DEF Moves
<1>3. ASSUME NEW p \in Procs, ProcessDies(p) PROVE Kept
  <2>1. core' = core /\ \A j \in Unacked(p) : events[j].step # "acked"
    BY <1>3 DEF ProcessDies, Unacked, InHand
  <2> QED
    BY <1>0, <1>3, <2>1, ProcessDiesEffect
<1>4. ASSUME \/ \E i \in DOMAIN events : DedupeExpires(i)
             \/ \E q \in Requests : RequestAction(q)
             \/ EntryExpires \/ UNCHANGED vars
      PROVE  Kept
  <2>1. events' = events /\ core' = core
    BY <1>4 DEF DedupeExpires, EntryExpires, vars, RequestAction, GetBranch, GetBranchesByIds, GetProducts,
         GetPermissions, FetchBranch, FillBranch, CheckFlag, FetchBranches, FillBranches, FetchProducts,
         FillProducts, BuildOrderLineDrafts, Leave, FetchPermissions, FillPermissions, unread
  <2> QED
    BY <2>1
<1> QED
  BY <1>1, <1>2, <1>3, <1>4, NextCases

(* An event is acknowledged by the last step of its handler, or a skip.     *)
LEMMA Acknowledged ==
    ASSUME BaseInv, InOrder, [Next]_vars, scope' \notin disorder',
           NEW j \in DOMAIN events', events'[j].step = "acked"
    PROVE  /\ j \in DOMAIN events
           /\ events[j].step = "acked" \/ TurnFlag(j) \/ Merge(j) \/ DropRole(j)
<1>0. Shape
  BY DEF BaseInv
<1>1. ASSUME ChangeAction PROVE j \in DOMAIN events /\ events[j].step = "acked"
  <2>1. PICK d \in Data, type \in Data \cup {"deactivated"} : Change(d, type)
    BY <1>1, ChangeCases
  <2>2. /\ DOMAIN events' = DOMAIN events \cup {Len(events) + 1}
        /\ \A i \in DOMAIN events : events'[i] = events[i]
        /\ events'[Len(events) + 1].step = "queued"
    BY <1>0, <2>1, ChangeEffect DEF BaseInv, Numbered
  <2> QED
    BY <2>2
<1>2. ASSUME NEW i \in DOMAIN events, EventAction(i)
      PROVE  /\ j \in DOMAIN events
             /\ events[j].step = "acked" \/ TurnFlag(j) \/ Merge(j) \/ DropRole(j)
  <2>1. ASSUME NEW step, NEW copy, Moves(i, step, copy), step # "acked"
        PROVE  j \in DOMAIN events /\ events[j].step = "acked"
    BY <2>1 DEF Moves
  <2>2. ASSUME NEW copy, Moves(i, "acked", copy)
        PROVE  j \in DOMAIN events /\ (j # i => events[j].step = "acked")
    BY <2>2 DEF Moves
  <2>3. CASE \/ \E p \in Procs : Deliver(i, p)
             \/ MarkSeen(i) \/ DropBranch(i) \/ GetToMerge(i)
    <3>1. \E step, copy : Moves(i, step, copy) /\ step # "acked"
      BY <1>0, <2>3, EventEffect, DeliverEffect
    <3> QED
      BY <2>1, <3>1
  <2>4. CASE TurnFlag(i) \/ Merge(i) \/ DropRole(i)
    <3>1. \E copy : Moves(i, "acked", copy)
      BY <1>0, <2>4, EventEffect
    <3> QED
      BY <2>2, <2>4, <3>1
  <2> QED
    BY <1>2, <2>3, <2>4, Undisordered DEF EventAction, Consume
<1>3. ASSUME NEW p \in Procs, ProcessDies(p) PROVE j \in DOMAIN events /\ events[j].step = "acked"
  BY <1>0, <1>3, ProcessDiesEffect
<1>4. ASSUME \/ \E i \in DOMAIN events : DedupeExpires(i)
             \/ \E q \in Requests : RequestAction(q)
             \/ EntryExpires \/ UNCHANGED vars
      PROVE  j \in DOMAIN events /\ events[j].step = "acked"
  <2>1. events' = events
    BY <1>4 DEF DedupeExpires, EntryExpires, vars, RequestAction, GetBranch, GetBranchesByIds, GetProducts,
         GetPermissions, FetchBranch, FillBranch, CheckFlag, FetchBranches, FillBranches, FetchProducts,
         FillProducts, BuildOrderLineDrafts, Leave, FetchPermissions, FillPermissions, unread
  <2> QED
    BY <2>1
<1> QED
  BY <1>1, <1>2, <1>3, <1>4, NextCases

-----------------------------------------------------------------------------
(* The flag of a closed branch.                                             *)

LEMMA BranchKey ==
    ASSUME NEW d \in Data
    PROVE  KeyOf(d) = "branch" <=> d = "branch"
BY DEF KeyOf, Data

LEMMA FlagMoves ==
    ASSUME BaseInv, [Next]_vars, flag' # flag
    PROVE  \E k \in DOMAIN events : TurnFlag(k)
<1>1. ASSUME ChangeAction PROVE FALSE
  BY <1>1 DEF ChangeAction, ChangeDatum, UpdateInactive, Deactivate, Change, caches
<1>2. ASSUME NEW i \in DOMAIN events, EventAction(i), ~TurnFlag(i) PROVE FALSE
  BY <1>2 DEF EventAction, Consume, Deliver, SkipDuplicate, MarkSeen, DropBranch, GetToMerge, Merge, SetMerged,
              DropRole, HandlerFails, Replay, caches
<1>3. ASSUME NEW q \in Requests, RequestAction(q) PROVE FALSE
  BY <1>3 DEF RequestAction, GetBranch, GetBranchesByIds, GetProducts, GetPermissions, FetchBranch,
       FillBranch, CheckFlag, FetchBranches, FillBranches, FetchProducts, FillProducts,
       BuildOrderLineDrafts, Leave, FetchPermissions, FillPermissions, unread
<1>4. CASE \/ \E i \in DOMAIN events : DedupeExpires(i)
           \/ \E p \in Procs : ProcessDies(p)
           \/ EntryExpires \/ UNCHANGED vars
  BY <1>4 DEF ProcessDies, EntryExpires, DedupeExpires, unread, caches, vars
<1> QED
  BY <1>1, <1>2, <1>3, <1>4, NextCases

LEMMA FlagKeeps ==
    ASSUME BaseInv, InOrder, FlagFollows, [Next]_vars
    PROVE  FlagFollows'
<1> SUFFICES ASSUME "branch" \notin disorder',
                    NEW i \in DOMAIN events',
                    events'[i].datum = "branch", events'[i].step = "acked",
                    \A j \in DOMAIN events' : j > i => events'[j].step # "acked"
             PROVE  flag' = (events'[i].type = "deactivated")
  BY DEF FlagFollows
<1>0. Shape /\ BaseInv'
  BY BaseKeeps DEF BaseInv
<1>1. scope' = "branch" /\ scope = "branch"
  BY <1>0, Grows DEF BaseInv, Numbered, KeyOf
<1>2. scope' \notin disorder' /\ "branch" \notin disorder
  BY <1>1, Grows
<1>3. /\ i \in DOMAIN events
      /\ events[i].step = "acked" \/ TurnFlag(i) \/ Merge(i) \/ DropRole(i)
  BY <1>2, Acknowledged
<1>4. events[i].datum = "branch" /\ events'[i].type = events[i].type
  BY <1>3, EventsStay
<1>5. ~Merge(i) /\ ~DropRole(i)
  BY <1>3, <1>4, StepOfKind DEF Merge, SetMerged, DropRole, KeyOf
<1>6. DOMAIN events \subseteq Nat
  BY <1>0 DEF Shape
<1>7. CASE \E k \in DOMAIN events : TurnFlag(k)
  <2>1. PICK k \in DOMAIN events : TurnFlag(k)
    BY <1>7
  <2>2. events[k].step = "half" /\ flag' = (events[k].type = "deactivated") /\ Moves(k, "acked", NoProduct)
    BY <1>0, <2>1, EventEffect DEF TurnFlag
  <2>3. k \in DOMAIN events' /\ events'[k].step = "acked"
    BY <2>1, <2>2 DEF Moves
  <2>4. ~(k > i)
    BY <2>3
  <2>5. ~(i > k)
    <3>1. SUFFICES ASSUME i > k PROVE FALSE
      OBVIOUS
    <3>2. events'[i] = events[i]
      BY <1>3, <1>6, <2>1, <2>2, <3>1 DEF Moves
    <3>3. events[i].step \in Handled
      BY <3>2 DEF Handled
    <3> QED
      BY <1>1, <1>2, <1>3, <2>1, <2>2, <3>1, <3>3 DEF InOrder
  <2>6. i = k
    BY <1>3, <1>6, <2>1, <2>4, <2>5
  <2> QED
    BY <1>4, <2>2, <2>6
<1>8. CASE ~(\E k \in DOMAIN events : TurnFlag(k))
  <2>1. flag' = flag
    BY <1>8, FlagMoves
  <2>2. events[i].step = "acked"
    BY <1>3, <1>5, <1>8
  <2>3. \A j \in DOMAIN events : j > i => events[j].step # "acked"
    BY EventsStay
  <2> QED
    BY <1>2, <1>3, <1>4, <2>1, <2>2, <2>3 DEF FlagFollows
<1> QED
  BY <1>7, <1>8

(* Once its last event is acknowledged, a closed branch has its flag.       *)
LEMMA ClosedHasFlag ==
    ASSUME BaseInv, FlagFollows, KnownClosed, "branch" \notin disorder
    PROVE  flag
<1>0. Shape
  BY DEF BaseInv
<1>1. PICK m \in DOMAIN events : /\ events[m].datum = "branch" /\ events[m].step = "acked"
                                 /\ events[m].type = "deactivated" /\ events[m].val = core["branch"]
  BY DEF KnownClosed
<1>2. scope = "branch"
  BY <1>1 DEF BaseInv, Numbered, KeyOf
<1>3. ASSUME NEW j \in DOMAIN events, j > m PROVE FALSE
  <2>1. events[j].datum = "branch"
    BY <1>0, <1>2, KeyOfEvent, BranchKey DEF BaseInv, Numbered
  <2>2. events[j].val <= core["branch"] /\ events[m].val < events[j].val
    <3>1. m \in Nat /\ j \in Nat
      BY <1>0, <1>1, <1>3 DEF Shape
    <3> QED
      BY <1>1, <1>3, <2>1, <3>1 DEF BaseInv, Numbered
  <2>3. events[j].val \in Nat /\ core["branch"] \in Nat
    BY <1>0, KeyOfEvent, CoreCacheAssumption DEF Shape, Data
  <2> QED
    BY <1>1, <2>2, <2>3
<1> QED
  BY <1>1, <1>3 DEF FlagFollows

(* A request that knows of the closed branch came after it, and is refused. *)
LEMMA RequestShut ==
    ASSUME BaseInv, NEW q \in Requests, RequestAction(q), NEW x \in Requests
    PROVE  /\ request'[x].shut => request[x].shut \/ KnownClosed
           /\ request'[x].shut /\ request'[x].step = "accepted" =>
                 request[x].shut /\ (request[x].step = "accepted" \/ ~flag)
<1>0. Shape
  BY DEF BaseInv
<1> DEFINE Fine == /\ request'[x].shut => request[x].shut \/ KnownClosed
                   /\ request'[x].shut /\ request'[x].step = "accepted" =>
                         request[x].shut /\ (request[x].step = "accepted" \/ ~flag)
<1>1. ASSUME NEW step, NEW proc, NEW val, NEW late, NEW shut, NEW item,
             Becomes(q, step, proc, val, late, shut, item),
             shut => request[q].shut \/ KnownClosed, step # "accepted" \/ (~flag /\ (shut => request[q].shut))
      PROVE  Fine
  BY <1>1, Zenon DEF Becomes
<1>2. /\ "idle" # "accepted" /\ "fetch branch" # "accepted" /\ "flag" # "accepted"
      /\ "fetch branches" # "accepted" /\ "fetch role" # "accepted" /\ "fill branch" # "accepted"
      /\ "fill branches" # "accepted" /\ "fill role" # "accepted" /\ "fill product" # "accepted"
      /\ "priced" # "accepted"
      /\ (IF branch # None THEN "flag" ELSE "fetch branch") # "accepted"
      /\ (IF Usable(product) THEN "priced" ELSE "fetch product") # "accepted"
  OBVIOUS
<1>3. ASSUME NEW p \in Procs, GetBranch(q, p) \/ GetBranchesByIds(q, p) \/ GetProducts(q, p) \/ GetPermissions(q, p)
      PROVE  Fine
  BY <1>0, <1>1, <1>2, <1>3, RequestStarts, Zenon
<1>4. CASE \/ FetchBranch(q) \/ FetchBranches(q) \/ FetchPermissions(q) \/ FetchProducts(q)
           \/ FillBranch(q) \/ FillProducts(q)
  <2>1. \E step, proc, val, late, item :
           step # "accepted" /\ Becomes(q, step, proc, val, late, request[q].shut, item)
    <3> HIDE DEF Fine
    <3>1. CASE FetchBranch(q)
      BY <1>0, <1>2, <3>1, RequestGoesOn, Zenon
    <3>2. CASE FetchBranches(q)
      BY <1>0, <1>2, <3>2, RequestGoesOn, Zenon
    <3>3. CASE FetchPermissions(q)
      BY <1>0, <1>2, <3>3, RequestGoesOn, Zenon
    <3>4. CASE FetchProducts(q)
      BY <1>0, <1>2, <3>4, RequestGoesOn, Zenon
    <3>5. CASE FillBranch(q)
      BY <1>0, <1>2, <3>5, RequestGoesOn, Zenon
    <3>6. CASE FillProducts(q)
      BY <1>0, <1>2, <3>6, RequestGoesOn, Zenon
    <3> QED
      BY <1>4, <3>1, <3>2, <3>3, <3>4, <3>5, <3>6
  <2> QED
    BY <1>1, <2>1, Zenon
<1>5. CASE Now(q, NoRequest)
  BY <1>0, <1>1, <1>2, <1>5, BecomesIdle, Zenon
<1>6. CASE CheckFlag(q)
  <2>1. CASE Becomes(q, "idle", NoRequest.proc, None, FALSE, FALSE, NoProduct)
    BY <1>1, <1>2, <2>1, Zenon
  <2>2. CASE ~flag /\ Becomes(q, "accepted", request[q].proc, None, request[q].late,
                              request[q].shut, request[q].item)
    BY <2>2, Zenon DEF Becomes
  <2> QED
    BY <1>0, <1>6, <2>1, <2>2, RequestGoesOn, Zenon
<1>7. FillBranches(q) \/ FillPermissions(q) \/ BuildOrderLineDrafts(q) \/ Leave(q) => Now(q, NoRequest)
  BY DEF FillBranches, FillPermissions, BuildOrderLineDrafts, Leave
<1> QED
  BY <1>3, <1>4, <1>5, <1>6, <1>7, Zenon DEF RequestAction

LEMMA ClosedStays ==
    ASSUME BaseInv, [Next]_vars, KnownClosed, ~ChangeAction
    PROVE  KnownClosed'
BY EventsStay DEF KnownClosed

(* Only a change of the branch can come once it is known to be closed.      *)
LEMMA ChangeReopens ==
    ASSUME BaseInv, KnownClosed, ChangeAction
    PROVE  \A q \in Requests : ~request'[q].shut
<1>1. scope = "branch"
  BY DEF BaseInv, Numbered, KeyOf, KnownClosed
<1>2. PICK d \in Data, type \in Data \cup {"deactivated"} : Change(d, type)
  BY ChangeCases
<1>3. d = "branch"
  BY <1>1, <1>2, BranchKey DEF Change
<1> QED
  BY <1>2, <1>3, ChangeEffect DEF BaseInv, Numbered

LEMMA ShutKeeps ==
    ASSUME BaseInv, FlagFollows, ShutIsClosed, [Next]_vars
    PROVE  ShutIsClosed'
<1>0. Shape /\ disorder \subseteq disorder'
  BY Grows DEF BaseInv
<1> DEFINE Came(x) == /\ request'[x].shut => request[x].shut
                      /\ request'[x].step = "accepted" => request[x].step = "accepted"
<1>1. ASSUME NEW x \in Requests, Came(x)
      PROVE  request'[x].shut => request[x].shut /\ (request'[x].step = "accepted" => "branch" \in disorder')
  BY <1>0, <1>1 DEF ShutIsClosed
<1>2. ASSUME ~ChangeAction, \A x \in Requests : Came(x) PROVE ShutIsClosed'
  BY <1>1, <1>2, ClosedStays DEF ShutIsClosed
<1>3. CASE ChangeAction
  <2>1. PICK d \in Data, type \in Data \cup {"deactivated"} : Change(d, type)
    BY <1>3, ChangeCases
  <2>2. ASSUME NEW x \in Requests PROVE ~request'[x].shut
    <3>1. request'[x].shut => request[x].shut
      BY <1>0, <2>1, ChangeEffect DEF BaseInv, Numbered
    <3>2. request[x].shut => KnownClosed
      BY DEF ShutIsClosed
    <3> QED
      BY <1>3, <3>1, <3>2, ChangeReopens
  <2> QED
    BY <2>2 DEF ShutIsClosed
<1>4. ASSUME NEW q \in Requests, RequestAction(q), ~ChangeAction PROVE ShutIsClosed'
  <2>1. ASSUME NEW x \in Requests, request'[x].shut PROVE KnownClosed'
    BY <1>4, <2>1, RequestShut, ClosedStays DEF ShutIsClosed
  <2>2. ASSUME NEW x \in Requests, request'[x].shut, request'[x].step = "accepted"
        PROVE  "branch" \in disorder'
    <3>1. request[x].shut /\ (request[x].step = "accepted" \/ ~flag)
      BY <1>4, <2>2, RequestShut
    <3>2. CASE request[x].step = "accepted"
      BY <1>0, <3>1, <3>2 DEF ShutIsClosed
    <3>3. CASE ~flag
      BY <1>0, <3>1, <3>3, ClosedHasFlag DEF ShutIsClosed
    <3> QED
      BY <3>1, <3>2, <3>3
  <2> QED
    BY <2>1, <2>2 DEF ShutIsClosed
<1>5. ASSUME NEW i \in DOMAIN events, EventAction(i) PROVE \A x \in Requests : Came(x)
  <2>1. CASE DropBranch(i) \/ Merge(i)
    <3>1. PICK k \in {"branch", "product"} : Overtake(k)
      BY <2>1 DEF DropBranch, Merge, SetMerged
    <3> QED
      BY <1>0, <3>1, OvertakeEffect, Zenon DEF Marked
  <2>2. CASE DropRole(i)
    BY <1>0, <2>2, DropRoleEffect, Zenon DEF Marked
  <2>3. CASE ~DropBranch(i) /\ ~Merge(i) /\ ~DropRole(i)
    BY <1>5, <2>3 DEF EventAction, Consume, Deliver, SkipDuplicate, MarkSeen, TurnFlag, GetToMerge,
       HandlerFails, Replay
  <2> QED
    BY <2>1, <2>2, <2>3
<1>6. ASSUME NEW p \in Procs, ProcessDies(p) PROVE \A x \in Requests : Came(x)
  <2>1. \A x \in Requests : request'[x] = request[x] \/ request'[x] = NoRequest
    BY <1>0, <1>6, ProcessDiesEffect
  <2>2. NoRequest.shut = FALSE /\ NoRequest.step # "accepted"
    BY NoRequestType
  <2> QED
    BY <2>1, <2>2
<1>7. CASE \/ \E i \in DOMAIN events : DedupeExpires(i)
           \/ EntryExpires \/ UNCHANGED vars
  <2>1. request' = request
    BY <1>7 DEF DedupeExpires, EntryExpires, vars
  <2> QED
    BY <1>2, <1>3, <2>1
<1> QED
  BY <1>2, <1>3, <1>4, <1>5, <1>6, <1>7, NextCases

LEMMA FlagInitial == Init => FlagFollows /\ ShutIsClosed
<1> SUFFICES ASSUME Init PROVE FlagFollows /\ ShutIsClosed
  OBVIOUS
<1>1. DOMAIN events = {} /\ \A q \in Requests : request[q] = NoRequest
  BY DEF Init
<1> QED
  BY <1>1, NoRequestType DEF FlagFollows, ShutIsClosed

(* No order is accepted by a request that came after branch.deactivated was *)
(* handled, unless events of the branch were handled together or lost.      *)
THEOREM NoOrderAlwaysOnceClosed == Spec => []NoOrderOnceClosed
<1> DEFINE Inv == BaseInv /\ InOrder /\ FlagFollows /\ ShutIsClosed
<1>1. Init => Inv
  BY BaseInitial, InOrderInitial, FlagInitial
<1>2. Inv /\ [Next]_vars => Inv'
  BY BaseKeeps, OrderKeeps, FlagKeeps, ShutKeeps
<1>3. Inv => NoOrderOnceClosed
  BY DEF ShutIsClosed, NoOrderOnceClosed
<1> QED
  BY <1>1, <1>2, <1>3, PTL DEF Spec

-----------------------------------------------------------------------------
(* What a handler leaves alone, and the key of what is cached.              *)

LEMMA CachesMove ==
    ASSUME BaseInv, NEW i \in DOMAIN events, EventAction(i)
    PROVE  /\ core' = core /\ raced' = raced
           /\ branch' = branch \/ (DropBranch(i) /\ branch' = None)
           /\ product' = product \/ Merge(i)
           /\ roles' = roles \/ (DropRole(i) /\ roles' = [roles EXCEPT ![events[i].proc] = None])
           /\ \A q \in Requests : /\ request'[q].step = request[q].step /\ request'[q].proc = request[q].proc
                                  /\ request'[q].val = request[q].val /\ request'[q].item = request[q].item
                                  /\ request[q].late => request'[q].late
<1>0. Shape
  BY DEF BaseInv
<1>1. /\ core' = core /\ raced' = raced
      /\ branch' = branch \/ (DropBranch(i) /\ branch' = None)
      /\ product' = product \/ Merge(i)
      /\ roles' = roles \/ (DropRole(i) /\ roles' = [roles EXCEPT ![events[i].proc] = None])
  BY DEF EventAction, Consume, Deliver, SkipDuplicate, MarkSeen, DropBranch, TurnFlag, GetToMerge,
         Merge, SetMerged, DropRole, HandlerFails, Replay, caches, history
<1>2. ASSUME NEW q \in Requests
      PROVE  /\ request'[q].step = request[q].step /\ request'[q].proc = request[q].proc
             /\ request'[q].val = request[q].val /\ request'[q].item = request[q].item
             /\ request[q].late => request'[q].late
  <2>1. CASE DropBranch(i) \/ Merge(i)
    <3>1. PICK k \in {"branch", "product"} : Overtake(k)
      BY <2>1 DEF DropBranch, Merge, SetMerged
    <3> QED
      BY <1>0, <3>1, OvertakeEffect, Zenon DEF Marked
  <2>2. CASE DropRole(i)
    BY <1>0, <2>2, DropRoleEffect, Zenon DEF Marked
  <2>3. CASE ~DropBranch(i) /\ ~Merge(i) /\ ~DropRole(i)
    <3>1. request' = request
      BY <2>3 DEF EventAction, Consume, Deliver, SkipDuplicate, MarkSeen, TurnFlag, GetToMerge,
                  HandlerFails, Replay
    <3> QED
      BY <3>1
  <2> QED
    BY <2>1, <2>2, <2>3
<1> QED
  BY <1>1, <1>2

(* What a request stores is what it has fetched, and is late if overtaken.  *)
LEMMA CachesFill ==
    ASSUME NEW q \in Requests, RequestAction(q)
    PROVE  /\ core' = core /\ events' = events
           /\ \/ branch' = branch
              \/ /\ branch' = request[q].val /\ request[q].step \in {"fill branch", "fill branches"}
                 /\ request[q].late => "branch" \in raced'
           /\ \/ product' = product
              \/ /\ product' = request[q].item /\ request[q].step = "fill product"
                 /\ request[q].late => "product" \in raced'
           /\ \/ roles' = roles
              \/ /\ roles' = [roles EXCEPT ![request[q].proc] = request[q].val]
                 /\ request[q].step = "fill role"
                 /\ request[q].late => "role" \in raced'
<1>1. core' = core /\ events' = events
  BY DEF RequestAction, GetBranch, GetBranchesByIds, GetProducts, GetPermissions, FetchBranch,
         FillBranch, CheckFlag, FetchBranches, FillBranches, FetchProducts, FillProducts,
         BuildOrderLineDrafts, Leave, FetchPermissions, FillPermissions, unread
<1>2. CASE FillBranch(q) \/ FillBranches(q)
  BY <1>1, <1>2 DEF FillBranch, FillBranches, At
<1>3. CASE FillProducts(q)
  BY <1>1, <1>3 DEF FillProducts, At
<1>4. CASE FillPermissions(q)
  BY <1>1, <1>4 DEF FillPermissions, At
<1>5. CASE ~FillBranch(q) /\ ~FillBranches(q) /\ ~FillProducts(q) /\ ~FillPermissions(q)
  BY <1>1, <1>5 DEF RequestAction, GetBranch, GetBranchesByIds, GetProducts, GetPermissions, FetchBranch,
     CheckFlag, FetchBranches, FetchProducts, BuildOrderLineDrafts, Leave, FetchPermissions
<1> QED
  BY <1>2, <1>3, <1>4, <1>5

LEMMA OneKeyInitial == Init => OneKey
<1> SUFFICES ASSUME Init PROVE OneKey
  OBVIOUS
<1>1. /\ branch = None /\ product = NoProduct /\ \A p \in Procs : roles[p] = None
      /\ \A q \in Requests : request[q] = NoRequest
  BY DEF Init
<1> QED
  BY <1>1, NoRequestType DEF OneKey, RightKey

(* Where a request goes next. *)
LEMMA RightKeyKeeps ==
    ASSUME BaseInv, OneKey, NEW q \in Requests, RequestAction(q)
    PROVE  /\ \A x \in Requests \ {q} : request'[x] = request[x]
           /\ RightKey(request'[q].step)
<1>0. Shape /\ RightKey(request[q].step)
  BY DEF BaseInv, OneKey
<1> DEFINE Fine == /\ \A x \in Requests \ {q} : request'[x] = request[x]
                   /\ RightKey(request'[q].step)
<1>1. ASSUME NEW step, NEW proc, NEW val, NEW late, NEW shut, NEW item,
             Becomes(q, step, proc, val, late, shut, item), RightKey(step)
      PROVE  Fine
  BY <1>1, Zenon DEF Becomes
<1>2. /\ RightKey("idle") /\ RightKey("flag") /\ RightKey("accepted") /\ RightKey("priced")
      /\ scope = "branch" => /\ RightKey("fetch branch") /\ RightKey("fill branch")
                             /\ RightKey("fetch branches") /\ RightKey("fill branches")
                             /\ RightKey(IF branch # None THEN "flag" ELSE "fetch branch")
      /\ scope = "product" => /\ RightKey("fetch product") /\ RightKey("fill product")
                              /\ RightKey(IF Usable(product) THEN "priced" ELSE "fetch product")
      /\ scope = "role" => RightKey("fetch role") /\ RightKey("fill role")
  BY DEF RightKey
<1>3. ASSUME NEW p \in Procs, GetBranch(q, p) \/ GetBranchesByIds(q, p) \/ GetProducts(q, p) \/ GetPermissions(q, p)
      PROVE  Fine
  <2>1. GetBranch(q, p) \/ GetBranchesByIds(q, p) => scope = "branch"
    BY DEF GetBranch, GetBranchesByIds
  <2>2. GetPermissions(q, p) => scope = "role"
    BY DEF GetPermissions
  <2>3. GetProducts(q, p) => scope = "product"
    BY DEF GetProducts
  <2> HIDE DEF Fine
  <2>4. CASE GetBranch(q, p)
    BY <1>0, <1>1, <1>2, <2>1, <2>4, RequestStarts, Zenon
  <2>5. CASE GetBranchesByIds(q, p)
    BY <1>0, <1>1, <1>2, <2>1, <2>5, RequestStarts, Zenon
  <2>6. CASE GetProducts(q, p)
    BY <1>0, <1>1, <1>2, <2>3, <2>6, RequestStarts, Zenon
  <2>7. CASE GetPermissions(q, p)
    BY <1>0, <1>1, <1>2, <2>2, <2>7, RequestStarts, Zenon
  <2> QED
    BY <1>3, <2>4, <2>5, <2>6, <2>7
<1>4. ASSUME NEW step, NEW val, NEW late, NEW item, RightKey(step),
             Becomes(q, step, request[q].proc, val, late, request[q].shut, item)
      PROVE  Fine
  BY <1>1, <1>4, Zenon
<1>5. CASE FetchBranch(q)
  <2>1. scope = "branch"
    BY <1>0, <1>5 DEF RightKey, FetchBranch, At
  <2> QED
    BY <1>0, <1>2, <1>4, <1>5, <2>1, RequestGoesOn, Zenon
<1>6. CASE FetchBranches(q)
  <2>1. scope = "branch"
    BY <1>0, <1>6 DEF RightKey, FetchBranches, At
  <2> QED
    BY <1>0, <1>2, <1>4, <1>6, <2>1, RequestGoesOn, Zenon
<1>7. CASE FetchProducts(q)
  <2>1. scope = "product"
    BY <1>0, <1>7 DEF RightKey, FetchProducts, At
  <2> QED
    BY <1>0, <1>2, <1>4, <1>7, <2>1, RequestGoesOn, Zenon
<1>8. CASE FetchPermissions(q)
  <2>1. scope = "role"
    BY <1>0, <1>8 DEF RightKey, FetchPermissions, At
  <2> QED
    BY <1>0, <1>2, <1>4, <1>8, <2>1, RequestGoesOn, Zenon
<1>9. CASE FillBranch(q)
  BY <1>0, <1>2, <1>4, <1>9, RequestGoesOn, Zenon
<1>10. CASE FillProducts(q)
  BY <1>0, <1>2, <1>4, <1>10, RequestGoesOn, Zenon
<1>11. CASE Now(q, NoRequest)
  BY <1>0, <1>1, <1>2, <1>11, BecomesIdle, Zenon
<1>12. CASE CheckFlag(q)
  <2>1. CASE Becomes(q, "idle", NoRequest.proc, None, FALSE, FALSE, NoProduct)
    BY <1>1, <1>2, <2>1, Zenon
  <2>2. CASE Becomes(q, "accepted", request[q].proc, None, request[q].late,
                     request[q].shut, request[q].item)
    BY <1>1, <1>2, <2>2, Zenon
  <2> QED
    BY <1>0, <1>12, <2>1, <2>2, RequestGoesOn, Zenon
<1>13. FillBranches(q) \/ FillPermissions(q) \/ BuildOrderLineDrafts(q) \/ Leave(q) => Now(q, NoRequest)
  BY DEF FillBranches, FillPermissions, BuildOrderLineDrafts, Leave
<1> QED
  BY <1>3, <1>5, <1>6, <1>7, <1>8, <1>9, <1>10, <1>11, <1>12, <1>13, Zenon DEF RequestAction

LEMMA OneKeyKeeps ==
    ASSUME BaseInv, OneKey, [Next]_vars
    PROVE  OneKey'
<1>0. Shape /\ scope' = scope
  BY Grows DEF BaseInv
<1>1. /\ branch # None => scope = "branch"
      /\ product # NoProduct => scope = "product"
      /\ \A p \in Procs : roles[p] # None => scope = "role"
      /\ \A q \in Requests : RightKey(request[q].step)
  BY DEF OneKey
<1>2. roles \in [Procs -> Versions]
  BY <1>0 DEF Shape
<1>3. SUFFICES /\ branch' # None => scope = "branch"
               /\ product' # NoProduct => scope = "product"
               /\ \A p \in Procs : roles'[p] # None => scope = "role"
               /\ \A q \in Requests : RightKey(request'[q].step)
  BY <1>0 DEF OneKey, RightKey
<1> DEFINE Good == /\ branch' # None => scope = "branch"
                   /\ product' # NoProduct => scope = "product"
                   /\ \A p \in Procs : roles'[p] # None => scope = "role"
                   /\ \A q \in Requests : RightKey(request'[q].step)
<1>4. ASSUME ChangeAction PROVE Good
  <2>1. PICK d \in Data, type \in Data \cup {"deactivated"} : Change(d, type)
    BY <1>4, ChangeCases
  <2>2. Marked
    BY <1>0, <2>1, ChangeEffect DEF BaseInv, Numbered
  <2>3. branch' = branch /\ product' = product /\ roles' = roles
    BY <2>1 DEF Change, caches
  <2> QED
    BY <1>1, <2>2, <2>3 DEF Marked
<1>5. ASSUME NEW i \in DOMAIN events, EventAction(i) PROVE Good
  <2>1. product' # product => scope = "product"
    BY <1>5, CachesMove DEF BaseInv, Numbered, Merge, SetMerged
  <2>2. \A p \in Procs : roles'[p] = roles[p] \/ roles'[p] = None
    BY <1>2, <1>5, CachesMove
  <2>3. \A q \in Requests : request'[q].step = request[q].step
    BY <1>5, CachesMove
  <2>4. branch' = branch \/ branch' = None
    BY <1>5, CachesMove
  <2> QED
    BY <1>1, <2>1, <2>2, <2>3, <2>4
<1>6. ASSUME NEW p \in Procs, ProcessDies(p) PROVE Good
  <2>1. /\ \A x \in Procs : roles'[x] = roles[x] \/ roles'[x] = None
        /\ \A q \in Requests : request'[q] = request[q] \/ request'[q] = NoRequest
    BY <1>0, <1>6, ProcessDiesEffect
  <2>2. branch' = branch /\ product' = product
    BY <1>6 DEF ProcessDies
  <2>3. RightKey(NoRequest.step)
    BY NoRequestType DEF RightKey
  <2> QED
    BY <1>1, <2>1, <2>2, <2>3
<1>7. ASSUME NEW q \in Requests, RequestAction(q) PROVE Good
  <2>1. \A x \in Requests : RightKey(request'[x].step)
    BY <1>1, <1>7, RightKeyKeeps
  <2>2. /\ branch' = branch \/ request[q].step \in {"fill branch", "fill branches"}
        /\ product' = product \/ request[q].step = "fill product"
        /\ roles' = roles \/ request[q].step = "fill role"
    BY <1>7, CachesFill
  <2>3. RightKey(request[q].step)
    BY <1>1
  <2> QED
    BY <1>1, <2>1, <2>2, <2>3 DEF RightKey
<1>8. CASE \/ \E i \in DOMAIN events : DedupeExpires(i)
           \/ EntryExpires \/ UNCHANGED vars
  <2>1. /\ request' = request /\ branch' \in {branch, None} /\ product' \in {product, NoProduct}
        /\ \A p \in Procs : roles'[p] \in {roles[p], None}
    BY <1>2, <1>8 DEF DedupeExpires, EntryExpires, vars, unread, caches
  <2> QED
    BY <1>1, <2>1
<1> QED
  BY <1>4, <1>5, <1>6, <1>7, <1>8, NextCases

-----------------------------------------------------------------------------
(* What is told stays told.                                                 *)

Tells(last, queue) ==
    /\ \A d \in Data : \A c : Told(core, events, d, c) => Told(last, queue, d, c)
    /\ \A p \in Procs : \A c : Taken(events, p, c) => Taken(queue, p, c)

LEMMA TellsAll ==
    ASSUME NEW last, NEW queue, Tells(last, queue)
    PROVE  /\ \A item : ProductTold(core, events, item) => ProductTold(last, queue, item)
           /\ \A p \in Procs : \A c : RoleTold(core, events, p, c) => RoleTold(last, queue, p, c)
           /\ \A c : Told(core, events, "branch", c) => Told(last, queue, "branch", c)
<1>1. "branch" \in Data /\ "role" \in Data /\ "price" \in Data /\ "stock" \in Data
  BY DEF Data
<1> QED
  BY <1>1, Zenon DEF Tells, ProductTold, RoleTold

LEMMA TakenStays ==
    ASSUME BaseInv, [Next]_vars, NEW p, NEW c, Taken(events, p, c)
    PROVE  Taken(events', p, c)
<1>1. PICK i \in DOMAIN events : /\ events[i].datum = "role" /\ events[i].val > c
                                 /\ events[i].step = "acked" /\ events[i].proc # p
  BY DEF Taken
<1>2. i \in DOMAIN events' /\ events'[i] = events[i]
  BY <1>1, EventsStay
<1> QED
  BY <1>1, <1>2 DEF Taken

LEMMA ChangeTells ==
    ASSUME BaseInv, ChangeAction
    PROVE  Tells(core', events')
<1>0. Shape /\ [Next]_vars
  BY DEF BaseInv, ChangeAction, Next
<1>1. PICK x \in Data, type \in Data \cup {"deactivated"} : Change(x, type)
  BY ChangeCases
<1> DEFINE n == Len(events) + 1
<1>2. /\ core'[x] = core[x] + 1 /\ \A y \in Data \ {x} : core'[y] = core[y]
      /\ DOMAIN events' = DOMAIN events \cup {n}
      /\ \A j \in DOMAIN events : events'[j] = events[j]
      /\ events'[n].datum = x /\ events'[n].val = core[x] + 1 /\ events'[n].step = "queued"
  BY <1>0, <1>1, ChangeEffect DEF BaseInv, Numbered
<1> HIDE DEF n
<1>3. ASSUME NEW d \in Data, NEW c, Told(core, events, d, c), c # None, c < core'[d]
      PROVE  \E i \in DOMAIN events' :
                events'[i].datum = d /\ events'[i].val > c /\ events'[i].step \in Undecided
  <2>1. CASE d = x
    <3>1. n \in DOMAIN events' /\ events'[n].datum = d /\ events'[n].val = core'[d] /\ events'[n].step \in Undecided
      BY <1>2, <2>1 DEF Undecided
    <3>2. events'[n].val > c
      BY <1>3, <3>1
    <3> QED
      BY <3>1, <3>2
  <2>2. CASE d # x
    <3>1. c < core[d]
      BY <1>2, <1>3, <2>2
    <3>2. PICK i \in DOMAIN events :
             events[i].datum = d /\ events[i].val > c /\ events[i].step \in Undecided
      BY <1>3, <3>1 DEF Told
    <3> QED
      BY <1>2, <3>2
  <2> QED
    BY <2>1, <2>2
<1>4. \A d \in Data : \A c : Told(core, events, d, c) => Told(core', events', d, c)
  BY <1>3 DEF Told
<1>5. \A p \in Procs : \A c : Taken(events, p, c) => Taken(events', p, c)
  BY <1>0, TakenStays
<1> QED
  BY <1>4, <1>5 DEF Tells

(* Only the event that is decided may have told it. *)
LEMMA MoveTells ==
    ASSUME NEW i \in DOMAIN events, NEW step, NEW copy, Moves(i, step, copy), core' = core,
           NEW d, NEW c, Told(core, events, d, c),
           d # events[i].datum \/ step \in Undecided \/ events[i].step \notin Undecided
    PROVE  Told(core', events', d, c)
<1>1. SUFFICES ASSUME c # None, c < core[d]
               PROVE  \E j \in DOMAIN events' :
                         events'[j].datum = d /\ events'[j].val > c /\ events'[j].step \in Undecided
  BY DEF Told
<1>2. PICK j \in DOMAIN events :
         events[j].datum = d /\ events[j].val > c /\ events[j].step \in Undecided
  BY <1>1 DEF Told
<1>3. /\ j \in DOMAIN events' /\ events'[j].datum = events[j].datum /\ events'[j].val = events[j].val
      /\ events'[j].step = IF j = i THEN step ELSE events[j].step
  BY DEF Moves
<1> QED
  BY <1>2, <1>3

-----------------------------------------------------------------------------
(* What is cached, read or fetched is current, or a newer change is told.   *)

LEMMA MarkedTold ==
    ASSUME NEW r, NEW s, NEW last, NEW queue,
           s.step = r.step, s.proc = r.proc, s.val = r.val, s.item = r.item, r.late => s.late,
           FillTold(last, queue, r)
    PROVE  FillTold(last, queue, s)
BY DEF FillTold

LEMMA TellsFill ==
    ASSUME NEW last, NEW queue, Tells(last, queue), NEW r, r.proc \in Procs, FillTold(core, events, r)
    PROVE  FillTold(last, queue, r)
BY TellsAll, Zenon DEF FillTold

LEMMA EmptyTold ==
    /\ \A last, queue, d : Told(last, queue, d, None)
    /\ \A last, queue : ProductTold(last, queue, NoProduct)
    /\ \A last, queue, p : RoleTold(last, queue, p, None)
<1>1. NoProduct["price"] = None /\ NoProduct["stock"] = None
  BY DEF NoProduct
<1> QED
  BY <1>1 DEF Told, ProductTold, RoleTold

LEMMA ProcOfRequest ==
    ASSUME Shape, NEW q \in Requests
    PROVE  request[q].proc \in Procs
<1>1. request[q] \in RequestType
  BY DEF Shape
<1> QED
  BY <1>1, Zenon DEF RequestType

(* Steps of the consumer that decide nothing.                               *)
LEMMA QuietKeeps ==
    ASSUME BaseInv, [Next]_vars, Current, NEW i \in DOMAIN events,
           (\E p \in Procs : Deliver(i, p)) \/ MarkSeen(i) \/ TurnFlag(i) \/ GetToMerge(i)
    PROVE  Current'
<1>0. Shape
  BY DEF BaseInv
<1>1. /\ core' = core /\ branch' = branch /\ product' = product /\ roles' = roles
      /\ request' = request
  BY DEF Deliver, MarkSeen, TurnFlag, GetToMerge, caches
<1>2. PICK step : /\ \E copy : Moves(i, step, copy)
                  /\ step \in Undecided \/ events[i].step \notin Undecided
                  /\ step = "got" => GetToMerge(i)
  <2>1. CASE \E p \in Procs : Deliver(i, p)
    BY <1>0, <2>1, DeliverEffect DEF Undecided
  <2>2. CASE MarkSeen(i)
    BY <1>0, <2>2, EventEffect DEF Undecided
  <2>3. CASE TurnFlag(i)
    BY <1>0, <2>3, EventEffect DEF Undecided, TurnFlag
  <2>4. CASE GetToMerge(i)
    BY <1>0, <2>4, EventEffect DEF Undecided
  <2> QED
    BY <2>1, <2>2, <2>3, <2>4
<1>3. PICK copy : Moves(i, step, copy)
  BY <1>2
<1>4. Tells(core', events')
  <2>1. \A d \in Data : \A c : Told(core, events, d, c) => Told(core', events', d, c)
    BY <1>1, <1>2, <1>3, MoveTells
  <2>2. \A p \in Procs : \A c : Taken(events, p, c) => Taken(events', p, c)
    BY TakenStays
  <2> QED
    BY <2>1, <2>2 DEF Tells
<1>5. Told(core', events', "branch", branch') /\ ProductTold(core', events', product')
  BY <1>1, <1>4, TellsAll DEF Current
<1>6. \A p \in Procs : RoleTold(core', events', p, roles'[p])
  BY <1>1, <1>4, TellsAll DEF Current
<1>7. ASSUME NEW j \in DOMAIN events', events'[j].step = "got"
      PROVE  ProductTold(core', events', events'[j].copy)
  <2>1. CASE j = i
    <3>1. GetToMerge(i)
      BY <1>2, <1>3, <1>7, <2>1 DEF Moves
    <3>2. events'[i].copy = product
      BY <1>0, <3>1, EventEffect DEF Moves
    <3> QED
      BY <1>1, <1>5, <2>1, <3>2
  <2>2. CASE j # i
    BY <1>3, <1>4, <1>7, <2>2, TellsAll DEF Moves, Current
  <2> QED
    BY <2>1, <2>2
<1>8. \A q \in Requests : FillTold(core', events', request'[q])
  BY <1>0, <1>1, <1>4, ProcOfRequest, TellsFill DEF Current
<1> QED
  BY <1>5, <1>6, <1>7, <1>8 DEF Current

LEMMA DropBranchKeeps ==
    ASSUME BaseInv, [Next]_vars, Current, NEW i \in DOMAIN events, DropBranch(i)
    PROVE  Current'
<1>0. Shape
  BY DEF BaseInv
<1>1. /\ core' = core /\ branch' = None /\ product' = product /\ roles' = roles
      /\ Overtake("branch") /\ events[i].datum = "branch"
  BY DEF DropBranch
<1>2. Moves(i, "half", NoProduct)
  BY <1>0, EventEffect
<1>3. \A d, c : d # "branch" /\ Told(core, events, d, c) => Told(core', events', d, c)
  BY <1>1, <1>2, MoveTells
<1>4. \A p \in Procs : \A c : RoleTold(core, events, p, c) => RoleTold(core', events', p, c)
  BY <1>3, TakenStays DEF RoleTold
<1>5. \A item : ProductTold(core, events, item) => ProductTold(core', events', item)
  BY <1>3 DEF ProductTold
<1>6. Told(core', events', "branch", branch') /\ ProductTold(core', events', product')
  BY <1>1, <1>5, EmptyTold DEF Current
<1>7. \A p \in Procs : RoleTold(core', events', p, roles'[p])
  BY <1>1, <1>4 DEF Current
<1>8. \A j \in DOMAIN events' : events'[j].step = "got" => ProductTold(core', events', events'[j].copy)
  BY <1>2, <1>5 DEF Current, Moves
<1>9. ASSUME NEW q \in Requests PROVE FillTold(core', events', request'[q])
  <2>1. FillTold(core, events, request[q]) /\ request[q].proc \in Procs
    BY <1>0, ProcOfRequest DEF Current
  <2>2. /\ request'[q].step = request[q].step /\ request'[q].proc = request[q].proc
        /\ request'[q].val = request[q].val /\ request'[q].item = request[q].item
        /\ request'[q].late = (request[q].late \/ request[q].step \in Filling("branch"))
    BY <1>0, <1>1, OvertakeEffect, Zenon DEF Marked
  <2>3. ~request'[q].late => ~request[q].late /\ request[q].step \notin {"fill branch", "fill branches"}
    BY <2>2 DEF Filling
  <2> QED
    BY <1>4, <1>5, <2>1, <2>2, <2>3, Zenon DEF FillTold
<1> QED
  BY <1>6, <1>7, <1>8, <1>9 DEF Current

(* A merge stores the event's own datum, and what it had read of the other. *)
LEMMA MergeKeeps ==
    ASSUME BaseInv, InOrder, [Next]_vars, scope \notin disorder, Current,
           NEW i \in DOMAIN events, Merge(i)
    PROVE  Current'
<1>0. Shape
  BY DEF BaseInv
<1>1. /\ core' = core /\ branch' = branch /\ roles' = roles /\ Overtake("product")
      /\ events[i].step = "got"
  BY DEF Merge, SetMerged
<1>2. Moves(i, "acked", NoProduct) /\ KeyOf(events[i].datum) = "product"
  BY <1>0, <1>1, EventEffect, StepOfKind
<1> DEFINE mine == events[i].datum
<1>3. /\ mine \in {"price", "stock"} /\ product'[mine] = events[i].val
      /\ \A x \in {"price", "stock"} \ {mine} : product'[x] = events[i].copy[x]
  BY <1>0, <1>2, MergeEffect
<1>4. \A d, c : d # mine /\ Told(core, events, d, c) => Told(core', events', d, c)
  BY <1>1, <1>2, MoveTells
<1>5. \A p \in Procs : \A c : RoleTold(core, events, p, c) => RoleTold(core', events', p, c)
  BY <1>3, <1>4, TakenStays DEF RoleTold
<1>6. Told(core', events', "branch", branch')
  BY <1>1, <1>3, <1>4 DEF Current
<1>7. Told(core', events', mine, events[i].val)
  <2>1. SUFFICES ASSUME events[i].val < core[mine]
                 PROVE  \E j \in DOMAIN events' : /\ events'[j].datum = mine /\ events'[j].val > events[i].val
                                                  /\ events'[j].step \in Undecided
    BY <1>1 DEF Told
  <2>2. mine \in Data /\ events[i].val \in Nat /\ core[mine] \in Nat
    BY <1>0, KeyOfEvent, CoreCacheAssumption DEF Shape
  <2>3. PICK j \in DOMAIN events : events[j].datum = mine /\ events[j].val = core[mine]
    BY <2>1, <2>2 DEF BaseInv, Numbered
  <2>4. DOMAIN events \subseteq Nat
    BY <1>0 DEF Shape
  <2>5. ~(j < i) /\ j # i
    BY <2>1, <2>2, <2>3 DEF BaseInv, Numbered
  <2>6. i < j
    BY <2>3, <2>4, <2>5
  <2>7. events[j].step \notin Handled /\ events[j].step # "dead"
    BY <1>1, <2>3, <2>6 DEF InOrder
  <2>8. events[j].step \in Undecided
    BY <1>0, <2>3, <2>7, KeyOfEvent DEF InHand, Undecided, Handled
  <2>9. j \in DOMAIN events' /\ events'[j] = events[j]
    BY <1>2, <2>3, <2>5 DEF Moves
  <2> QED
    BY <2>1, <2>2, <2>3, <2>8, <2>9
<1>8. ProductTold(core', events', product')
  <2>1. ProductTold(core, events, events[i].copy)
    BY <1>1 DEF Current
  <2>2. ASSUME NEW x \in {"price", "stock"} PROVE Told(core', events', x, product'[x])
    <3>1. CASE x = mine
      BY <1>3, <1>7, <3>1
    <3>2. CASE x # mine
      BY <1>3, <1>4, <2>1, <3>2 DEF ProductTold
    <3> QED
      BY <3>1, <3>2
  <2> QED
    BY <2>2 DEF ProductTold
<1>9. \A p \in Procs : RoleTold(core', events', p, roles'[p])
  BY <1>1, <1>5 DEF Current
<1>10. ASSUME NEW j \in DOMAIN events', events'[j].step = "got" PROVE FALSE
  <2>1. j \in DOMAIN events /\ j # i /\ events[j].step = "got"
    BY <1>2, <1>10 DEF Moves
  <2>2. i < j \/ j < i
    BY <1>0, <2>1 DEF Shape
  <2> QED
    BY <1>1, <2>1, <2>2 DEF InOrder, Handled
<1>11. ASSUME NEW q \in Requests PROVE FillTold(core', events', request'[q])
  <2>1. FillTold(core, events, request[q]) /\ request[q].proc \in Procs
    BY <1>0, ProcOfRequest DEF Current
  <2>2. /\ request'[q].step = request[q].step /\ request'[q].proc = request[q].proc
        /\ request'[q].val = request[q].val /\ request'[q].item = request[q].item
        /\ request'[q].late = (request[q].late \/ request[q].step \in Filling("product"))
    BY <1>0, <1>1, OvertakeEffect, Zenon DEF Marked
  <2>3. ~request'[q].late => ~request[q].late /\ request[q].step # "fill product"
    BY <2>2 DEF Filling
  <2>4. \A c : Told(core, events, "branch", c) => Told(core', events', "branch", c)
    BY <1>3, <1>4
  <2> QED
    BY <1>5, <2>1, <2>2, <2>3, <2>4, Zenon DEF FillTold
<1> QED
  BY <1>6, <1>8, <1>9, <1>10, <1>11 DEF Current

(* The process that takes a change of the role drops what it holds of it.   *)
LEMMA DropRoleKeeps ==
    ASSUME BaseInv, [Next]_vars, Current, NEW i \in DOMAIN events, DropRole(i)
    PROVE  Current'
<1> DEFINE taker == events[i].proc
<1>0. Shape /\ taker \in Procs
  BY KeyOfEvent DEF BaseInv
<1>1. /\ core' = core /\ branch' = branch /\ product' = product
      /\ roles' = [roles EXCEPT ![taker] = None] /\ events[i].datum = "role"
  BY DEF DropRole
<1>2. Moves(i, "acked", NoProduct) /\ events'[i].proc = taker
  BY <1>0, EventEffect
<1>3. \A d, c : d # "role" /\ Told(core, events, d, c) => Told(core', events', d, c)
  BY <1>1, <1>2, MoveTells
<1>4. \A item : ProductTold(core, events, item) => ProductTold(core', events', item)
  BY <1>3 DEF ProductTold
<1>5. ASSUME NEW p \in Procs, p # taker, NEW c, RoleTold(core, events, p, c)
      PROVE  RoleTold(core', events', p, c)
  <2>1. CASE Taken(events, p, c)
    BY <2>1, TakenStays DEF RoleTold
  <2>2. CASE c = None \/ ~(c < core["role"])
    BY <1>1, <2>2 DEF RoleTold, Told
  <2>3. CASE ~Taken(events, p, c) /\ c # None /\ c < core["role"]
    <3>1. PICK j \in DOMAIN events :
             events[j].datum = "role" /\ events[j].val > c /\ events[j].step \in Undecided
      BY <1>5, <2>3 DEF RoleTold, Told
    <3>2. j \in DOMAIN events' /\ events'[j].datum = "role" /\ events'[j].val > c
      BY <1>2, <3>1 DEF Moves
    <3>3. CASE j = i
      BY <1>2, <1>5, <3>2, <3>3 DEF Moves, RoleTold, Taken
    <3>4. CASE j # i
      BY <1>2, <3>1, <3>2, <3>4 DEF Moves, RoleTold, Told
    <3> QED
      BY <3>3, <3>4
  <2> QED
    BY <2>1, <2>2, <2>3
<1>6. Told(core', events', "branch", branch') /\ ProductTold(core', events', product')
  BY <1>1, <1>3, <1>4 DEF Current
<1>7. ASSUME NEW p \in Procs PROVE RoleTold(core', events', p, roles'[p])
  <2>1. roles \in [Procs -> Versions]
    BY <1>0 DEF Shape
  <2>2. CASE p = taker
    BY <1>0, <1>1, <2>1, <2>2, EmptyTold
  <2>3. CASE p # taker
    BY <1>0, <1>1, <1>5, <2>1, <2>3 DEF Current
  <2> QED
    BY <2>2, <2>3
<1>8. \A j \in DOMAIN events' : events'[j].step = "got" => ProductTold(core', events', events'[j].copy)
  BY <1>2, <1>4 DEF Current, Moves
<1>9. ASSUME NEW q \in Requests PROVE FillTold(core', events', request'[q])
  <2>1. FillTold(core, events, request[q]) /\ request[q].proc \in Procs
    BY <1>0, ProcOfRequest DEF Current
  <2>2. /\ request'[q].step = request[q].step /\ request'[q].proc = request[q].proc
        /\ request'[q].val = request[q].val /\ request'[q].item = request[q].item
        /\ request'[q].late = (request[q].late \/
              (request[q].step = "fill role" /\ request[q].proc = taker))
    BY <1>0, DropRoleEffect, Zenon DEF Marked
  <2>3. \A c : Told(core, events, "branch", c) => Told(core', events', "branch", c)
    BY <1>3
  <2>4. ~request'[q].late => ~request[q].late /\ (request[q].step = "fill role" => request[q].proc # taker)
    BY <2>2, Zenon
  <2> HIDE DEF taker
  <2> QED
    BY <1>4, <1>5, <2>1, <2>2, <2>3, <2>4, Zenon DEF FillTold
<1> QED
  BY <1>6, <1>7, <1>8, <1>9 DEF Current

(* What a request is about to store after its step.                         *)
LEMMA FillKeeps ==
    ASSUME BaseInv, Current, NEW q \in Requests, RequestAction(q)
    PROVE  FillTold(core, events, request'[q])
<1>0. Shape /\ request[q].proc \in Procs /\ FillTold(core, events, request[q])
  BY ProcOfRequest DEF BaseInv, Current
<1> DEFINE Fine == FillTold(core, events, request'[q])
<1> SUFFICES Fine
  OBVIOUS
<1>1. ASSUME NEW step, NEW proc, NEW val, NEW late, NEW shut, NEW item,
             Becomes(q, step, proc, val, late, shut, item), step \notin Fills
      PROVE  Fine
  <2>1. request'[q].step \notin Fills
    BY <1>1, Zenon DEF Becomes
  <2> QED
    BY <2>1 DEF FillTold, Fills
<1>2. /\ "idle" \notin Fills /\ "accepted" \notin Fills /\ "flag" \notin Fills /\ "priced" \notin Fills
      /\ "fetch branches" \notin Fills /\ "fetch role" \notin Fills
      /\ (IF branch # None THEN "flag" ELSE "fetch branch") \notin Fills
      /\ (IF Usable(product) THEN "priced" ELSE "fetch product") \notin Fills
  BY DEF Fills
<1>3. /\ Told(core, events, "branch", core["branch"]) /\ Told(core, events, "role", core["role"])
       /\ Told(core, events, "price", core["price"]) /\ Told(core, events, "stock", core["stock"])
  <2>1. \A d \in Data : core[d] \in Nat
    BY <1>0, CoreCacheAssumption DEF Shape
  <2>2. \A d \in Data : Told(core, events, d, core[d])
    BY <2>1 DEF Told
  <2> QED
    BY <2>2 DEF Data
<1>4. ASSUME NEW p \in Procs, GetBranch(q, p) \/ GetBranchesByIds(q, p) \/ GetProducts(q, p) \/ GetPermissions(q, p)
      PROVE  Fine
  <2> HIDE DEF Fine
  <2> QED
    BY <1>0, <1>1, <1>2, <1>4, RequestStarts, Zenon
<1>5. CASE FetchBranch(q) \/ FetchBranches(q)
  <2>1. PICK step \in {"fill branch", "fill branches"} :
           Becomes(q, step, request[q].proc, core["branch"], request[q].late, request[q].shut, request[q].item)
    <3>1. CASE FetchBranch(q)
      BY <1>0, <3>1, RequestGoesOn, Zenon
    <3>2. CASE FetchBranches(q)
      BY <1>0, <3>2, RequestGoesOn, Zenon
    <3> QED
      BY <1>5, <3>1, <3>2
  <2>2. request'[q].step = step /\ request'[q].val = core["branch"]
    BY <2>1, Zenon DEF Becomes
  <2>3. Told(core, events, "branch", core["branch"]) /\ step # "fill product" /\ step # "fill role"
    BY <1>3
  <2> QED
    BY <2>2, <2>3, Zenon DEF FillTold
<1>6. CASE FetchPermissions(q)
  <2>1. request'[q].step = "fill role" /\ request'[q].val = core["role"]
    BY <1>0, <1>6, RequestGoesOn, Zenon DEF Becomes
  <2>2. RoleTold(core, events, request'[q].proc, core["role"])
    BY <1>3 DEF RoleTold
  <2>3. "fill role" \notin {"fill branch", "fill branches", "fill product"}
    OBVIOUS
  <2> QED
    BY <2>1, <2>2, <2>3, Zenon DEF FillTold
<1>7. CASE FetchProducts(q)
  <2> DEFINE item == [full |-> TRUE, price |-> core["price"], stock |-> core["stock"]]
  <2>1. request'[q].step = "fill product" /\ request'[q].item = item
    BY <1>0, <1>7, RequestGoesOn, Zenon DEF Becomes
  <2>2. item["price"] = core["price"] /\ item["stock"] = core["stock"]
    OBVIOUS
  <2> HIDE DEF item
  <2>3. ProductTold(core, events, item)
    BY <1>3, <2>2 DEF ProductTold
  <2>4. "fill product" \notin {"fill branch", "fill branches", "fill role"}
    OBVIOUS
  <2> QED
    BY <2>1, <2>3, <2>4, Zenon DEF FillTold
<1>8. CASE FillBranch(q)
  <2> HIDE DEF Fine
  <2> QED
    BY <1>0, <1>1, <1>2, <1>8, RequestGoesOn, Zenon
<1>9. CASE FillProducts(q)
  <2> HIDE DEF Fine
  <2> QED
    BY <1>0, <1>1, <1>2, <1>9, RequestGoesOn, Zenon
<1>10. CASE Now(q, NoRequest)
  <2> HIDE DEF Fine
  <2> QED
    BY <1>0, <1>1, <1>2, <1>10, BecomesIdle, Zenon
<1>11. CASE CheckFlag(q)
  <2> HIDE DEF Fine
  <2>1. CASE Becomes(q, "idle", NoRequest.proc, None, FALSE, FALSE, NoProduct)
    BY <1>1, <1>2, <2>1, Zenon
  <2>2. CASE Becomes(q, "accepted", request[q].proc, None, request[q].late,
                     request[q].shut, request[q].item)
    BY <1>1, <1>2, <2>2, Zenon
  <2> QED
    BY <1>0, <1>11, <2>1, <2>2, RequestGoesOn, Zenon
<1>12. FillBranches(q) \/ FillPermissions(q) \/ BuildOrderLineDrafts(q) \/ Leave(q) => Now(q, NoRequest)
  BY DEF FillBranches, FillPermissions, BuildOrderLineDrafts, Leave
<1> QED
  BY <1>4, <1>5, <1>6, <1>7, <1>8, <1>9, <1>10, <1>11, <1>12, Zenon DEF RequestAction

LEMMA RequestKeeps ==
    ASSUME BaseInv, OneKey, [Next]_vars, scope \notin raced', Current, NEW q \in Requests, RequestAction(q)
    PROVE  Current'
<1>0. Shape /\ roles \in [Procs -> Versions] /\ RightKey(request[q].step)
  BY DEF BaseInv, Shape, OneKey
<1>1. core' = core /\ events' = events
  BY CachesFill
<1>2. FillTold(core, events, request[q])
  BY DEF Current
<1>3. Told(core, events, "branch", branch')
  BY <1>0, <1>2, CachesFill DEF Current, FillTold, RightKey
<1>4. ProductTold(core, events, product')
  BY <1>0, <1>2, CachesFill DEF Current, FillTold, RightKey
<1>5. ASSUME NEW p \in Procs PROVE RoleTold(core, events, p, roles'[p])
  <2>1. CASE roles' = roles
    BY <2>1 DEF Current
  <2>2. CASE /\ roles' = [roles EXCEPT ![request[q].proc] = request[q].val]
             /\ request[q].step = "fill role"
             /\ request[q].late => "role" \in raced'
    <3>1. RoleTold(core, events, request[q].proc, request[q].val)
      BY <1>0, <1>2, <2>2 DEF FillTold, RightKey
    <3> QED
      BY <1>0, <2>2, <3>1 DEF Current
  <2> QED
    BY <2>1, <2>2, CachesFill
<1>6. \A x \in Requests : FillTold(core, events, request'[x])
  BY RightKeyKeeps, FillKeeps DEF Current
<1> QED
  BY <1>1, <1>3, <1>4, <1>5, <1>6 DEF Current

LEMMA CurrentChanges ==
    ASSUME BaseInv, Current, ChangeAction
    PROVE  Current'
<1>0. Shape
  BY DEF BaseInv
<1>1. Tells(core', events')
  BY ChangeTells
<1>2. PICK d \in Data, type \in Data \cup {"deactivated"} : Change(d, type)
  BY ChangeCases
<1>3. /\ Marked /\ \A q \in Requests : request'[q].late = request[q].late
      /\ DOMAIN events' = DOMAIN events \cup {Len(events) + 1}
      /\ \A j \in DOMAIN events : events'[j] = events[j]
      /\ events'[Len(events) + 1].step = "queued"
  BY <1>0, <1>2, ChangeEffect DEF BaseInv, Numbered
<1>4. branch' = branch /\ product' = product /\ roles' = roles
  BY <1>2 DEF Change, caches
<1>5. Told(core', events', "branch", branch') /\ ProductTold(core', events', product')
  BY <1>1, <1>4, TellsAll DEF Current
<1>6. \A p \in Procs : RoleTold(core', events', p, roles'[p])
  BY <1>1, <1>4, TellsAll DEF Current
<1>7. \A j \in DOMAIN events' : events'[j].step = "got" => ProductTold(core', events', events'[j].copy)
  BY <1>1, <1>3, TellsAll DEF Current
<1>8. ASSUME NEW q \in Requests PROVE FillTold(core', events', request'[q])
  <2>1. FillTold(core', events', request[q])
    BY <1>0, <1>1, ProcOfRequest, TellsFill DEF Current
  <2>2. /\ request'[q].step = request[q].step /\ request'[q].proc = request[q].proc
        /\ request'[q].val = request[q].val /\ request'[q].item = request[q].item
        /\ request[q].late => request'[q].late
    BY <1>3 DEF Marked
  <2> QED
    BY <2>1, <2>2, MarkedTold
<1> QED
  BY <1>5, <1>6, <1>7, <1>8 DEF Current

(* The death of a process that has nothing in hand, and expiry, only empty. *)
LEMMA EmptyKeeps ==
    ASSUME Shape, Current,
           DOMAIN events' = DOMAIN events, \A j \in DOMAIN events : events'[j] = events[j], core' = core,
           branch' \in {branch, None}, product' \in {product, NoProduct},
           \A p \in Procs : roles'[p] \in {roles[p], None},
           \A q \in Requests : request'[q] \in {request[q], NoRequest}
    PROVE  Current'
<1>1. Tells(core', events')
  BY DEF Tells, Told, Taken
<1>2. \A last, queue : FillTold(last, queue, NoRequest)
  BY NoRequestType DEF FillTold
<1>3. Told(core', events', "branch", branch') /\ ProductTold(core', events', product')
  BY <1>1, EmptyTold, TellsAll DEF Current
<1>4. \A p \in Procs : RoleTold(core', events', p, roles'[p])
  BY <1>1, EmptyTold, TellsAll DEF Current
<1>5. \A j \in DOMAIN events' : events'[j].step = "got" => ProductTold(core', events', events'[j].copy)
  BY <1>1, TellsAll DEF Current
<1>6. \A q \in Requests : FillTold(core', events', request'[q])
  BY <1>1, <1>2, ProcOfRequest, TellsFill DEF Current
<1> QED
  BY <1>3, <1>4, <1>5, <1>6 DEF Current

LEMMA FreshInitial == Init => Fresh
<1> SUFFICES ASSUME Init PROVE Fresh
  OBVIOUS
<1>1. /\ branch = None /\ product = NoProduct /\ (\A p \in Procs : roles[p] = None)
      /\ DOMAIN events = {} /\ \A q \in Requests : request[q] = NoRequest
  BY DEF Init
<1>2. FillTold(core, events, NoRequest)
  BY NoRequestType DEF FillTold
<1> QED
  BY <1>1, <1>2, EmptyTold DEF Fresh, Current

LEMMA FreshKeeps ==
    ASSUME BaseInv, InOrder, OneKey, Fresh, [Next]_vars
    PROVE  Fresh'
<1> SUFFICES ASSUME scope' \notin disorder' \cup raced' PROVE Current'
  BY DEF Fresh
<1>0. Shape /\ scope \notin disorder \cup raced /\ scope \notin raced' /\ scope' \notin disorder'
  BY Grows DEF BaseInv
<1>1. Current
  BY <1>0 DEF Fresh
<1>2. ASSUME NEW i \in DOMAIN events, EventAction(i) PROVE Current'
  BY <1>0, <1>1, <1>2, QuietKeeps, DropBranchKeeps, MergeKeeps, DropRoleKeeps, Undisordered
     DEF EventAction, Consume
<1>3. ASSUME NEW p \in Procs, ProcessDies(p) PROVE Current'
  <2>1. Unacked(p) = {}
    BY <1>0, <1>3, Undisordered
  <2>2. core' = core /\ branch' = branch /\ product' = product
    BY <1>3 DEF ProcessDies
  <2>3. /\ DOMAIN events' = DOMAIN events /\ \A j \in DOMAIN events : events'[j] = events[j]
        /\ \A x \in Procs : roles'[x] \in {roles[x], None}
        /\ \A q \in Requests : request'[q] \in {request[q], NoRequest}
    BY <1>0, <1>3, <2>1, ProcessDiesEffect
  <2> QED
    BY <1>0, <1>1, <2>2, <2>3, EmptyKeeps
<1>4. CASE \/ \E i \in DOMAIN events : DedupeExpires(i)
           \/ EntryExpires \/ UNCHANGED vars
  <2>1. roles \in [Procs -> Versions]
    BY <1>0 DEF Shape
  <2>2. /\ request' = request /\ events' = events /\ core' = core
        /\ branch' \in {branch, None} /\ product' \in {product, NoProduct}
        /\ \A p \in Procs : roles'[p] \in {roles[p], None}
    BY <1>4, <2>1 DEF DedupeExpires, EntryExpires, vars, unread, caches
  <2> QED
    BY <1>0, <1>1, <2>2, EmptyKeeps
<1> QED
  BY <1>0, <1>1, <1>2, <1>3, <1>4, CurrentChanges, RequestKeeps, NextCases

(* A cached datum is behind core only while a newer change of it is still   *)
(* to be handled, or another process took it if it is about a role, unless  *)
(* events of its key met or were lost, or a late fetch was stored.          *)
THEOREM StaleAlwaysAnnounced == Spec => []StaleIsAnnounced
<1> DEFINE Inv == BaseInv /\ InOrder /\ OneKey /\ Fresh
<1>1. Init => Inv
  BY BaseInitial, InOrderInitial, OneKeyInitial, FreshInitial
<1>2. Inv /\ [Next]_vars => Inv'
  BY BaseKeeps, OrderKeeps, OneKeyKeeps, FreshKeeps
<1>3. Inv => StaleIsAnnounced
  <2> SUFFICES ASSUME Inv PROVE StaleIsAnnounced
    OBVIOUS
  <2>1. scope \notin disorder \cup raced => Current
    BY DEF Fresh
  <2>2. "branch" \notin disorder \cup raced /\ Stale("branch", branch) => Announced("branch", branch)
    BY <2>1 DEF OneKey, Current, Told, Stale, Announced
  <2>3. ASSUME "product" \notin disorder \cup raced, NEW d \in {"price", "stock"}, Stale(d, product[d])
        PROVE  Announced(d, product[d])
    <3>1. product # NoProduct
      BY <2>3 DEF Stale, NoProduct
    <3>2. Told(core, events, d, product[d])
      BY <2>1, <2>3, <3>1 DEF OneKey, Current, ProductTold
    <3> QED
      BY <2>3, <3>2 DEF Told, Stale, Announced
  <2>4. ASSUME NEW p \in Procs, "role" \notin disorder \cup raced, Stale("role", roles[p])
        PROVE  Announced("role", roles[p]) \/ TakenElsewhere(p)
    <3>1. RoleTold(core, events, p, roles[p])
      BY <2>1, <2>4 DEF OneKey, Current, Stale
    <3> QED
      BY <2>4, <3>1 DEF RoleTold, Told, Taken, Stale, Announced, TakenElsewhere
  <2> QED
    BY <2>2, <2>3, <2>4 DEF StaleIsAnnounced
<1> QED
  BY <1>1, <1>2, <1>3, PTL DEF Spec
=============================================================================
