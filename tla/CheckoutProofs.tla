--------------------------- MODULE CheckoutProofs ---------------------------
(***************************************************************************)
(* Proofs about Checkout, for every set of orders, payment attempts and    *)
(* webhook deliveries, with every fault and every overlap.  There are      *)
(* three invariants, each inductive given the ones before it: IInv, that   *)
(* an online order was announced only if it was paid; AccountInv, that     *)
(* what settled a session left its charge; AloneInv, that an order whose   *)
(* requests never overlapped is what they last read of it.                 *)
(***************************************************************************)
EXTENDS Checkout, TLAPS

AnnouncedIsPaid == \A o \in Online : placed[o] # 0 => Paid(o)

NotYetInserted ==
    \A o \in Orders : place[o] \in {"reserve", "insert"} =>
        row[o] = NoRow /\ placed[o] = 0 /\ cancel[o].step # "commit"

(* A payment is attempted only after placeOrder answered. *)
SentIsAnswered ==
    /\ \A e \in sent : place[OrderOf[e]] = "answered"
    /\ \A w \in Slots : hook[w] # IdleHook => hook[w].event \in sent

(* Only charges of attempts that were made, and only on placed orders.     *)
PlacedIsAnswered ==
    /\ \A o \in Orders : row[o] = "placed" => place[o] = "answered"
    /\ charges \subseteq sent

(* A session that is open to be paid, or what has settled it.              *)
Accounted(o) == \E d \in charges : OrderOf[d] = o

SessionIsAccounted ==
    /\ \A o \in Online : place[o] = "answered" => session[o] = "initialized" \/ Accounted(o)
    /\ \A w \in Slots : hook[w].step = "stamp" => Accounted(OrderOf[hook[w].event])

(* A delivery that is about the order; a cancellation in progress.         *)
About(w, o) == hook[w] # IdleHook /\ OrderOf[hook[w].event] = o

Cancelling(o) == cancel[o].step \in {"commit", "release"}

(* At most one request of the order is in progress.                        *)
OneAtATime(o) ==
    /\ \A w, x \in Slots : About(w, o) /\ About(x, o) => w = x
    /\ \A w \in Slots : About(w, o) => ~Cancelling(o)
    /\ Cancelling(o) => place[o] \in {"answered", "failed"}

(* What a request has read is still so when it writes.                     *)
StillRead(o) ==
    /\ \A w \in Slots : About(w, o) /\ hook[w].step = "trx" =>
          session[o] = "initialized" /\ hook[w].status = row[o]
    /\ cancel[o].step = "release" => row[o] = "cancelled"

(* The reservation outlives the order's way to the kitchen.                *)
StockHeld(o) ==
    place[o] \in {"insert", "openSession", "answered"} /\ row[o] # "cancelled"
        => stock[o] = "reserved"

Undisturbed(o) ==
    /\ OneAtATime(o) /\ StillRead(o) /\ StockHeld(o)
    /\ o \in Online /\ Paid(o) => session[o] = "captured"

AloneInv == \A o \in Orders \ overlapped : Undisturbed(o)

IInv == /\ TypeOK /\ PlacedIsPaid /\ PlacedIsAnnounced
        /\ AnnouncedIsPaid /\ NotYetInserted /\ SentIsAnswered

RowValues == {NoRow, "pending_payment", "placed", "cancelled"}

HookType ==
    hook \in [Slots -> {IdleHook} \cup
                 [step : {"record", "read", "trx", "stamp"}, event : Events, status : RowValues]]

(* History only: a step notes a fault or leaves the note alone. *)
LEMMA FaultedType ==
    ASSUME TypeOK, [Next]_vars
    PROVE  faulted' \in BOOLEAN
<1>0. faulted \in BOOLEAN
  BY DEF TypeOK
<1>1. ASSUME NEW o \in Orders, PlaceOrder(o) \/ PlaceCrash(o) PROVE faulted' \in BOOLEAN
  BY <1>0, <1>1 DEF PlaceOrder, PlaceCrash, ReserveStock, InsertOrder, InsertFails,
     OpenSession, CreateSession, OpenSessionFails, VoidOrderSafe, ReleaseStockSafe, Release, Fault
<1>2. ASSUME NEW o \in Orders, ReadForCancel(o) \/ Cancellation(o) \/ CancelCrash(o)
      PROVE  faulted' \in BOOLEAN
  BY <1>0, <1>2 DEF ReadForCancel, Cancellation, CancelCrash, CommitCancel, ReleaseCancelled,
     Release, Fault
<1>3. ASSUME NEW w \in Slots, HandleWebhook(w) \/ WebhookFails(w) PROVE faulted' \in BOOLEAN
  BY <1>0, <1>3 DEF HandleWebhook, WebhookFails, RecordWebhookOrSkip, ReadOrderAndSession,
     CommitReconcile, Reconcile, UpdateSession, CreateTransaction, MarkWebhookProcessed, Fault
<1>4. ASSUME NEW e \in Events, Attempt(e) \/ \E w \in Slots : Deliver(w, e)
      PROVE  faulted' \in BOOLEAN
  BY <1>0, <1>4 DEF Attempt, Deliver
<1>5. CASE UNCHANGED vars
  BY <1>0, <1>5 DEF vars
<1> QED
  BY <1>1, <1>2, <1>3, <1>4, <1>5 DEF Next

LEMMA Initial == Init => IInv
<1> SUFFICES ASSUME Init PROVE IInv
  OBVIOUS
<1>1. NoRow # "placed" /\ NoRow # "pending_payment" /\ Online \subseteq Orders
  BY CheckoutAssumption DEF Statuses
<1>2. TypeOK
  <2>1. faulted \in BOOLEAN /\ overlapped = {}
    BY Zenon DEF Init
  <2>2. /\ place \in [Orders -> PlaceSteps]
        /\ stock \in [Orders -> {"none", "reserved", "released"}]
        /\ row \in [Orders -> RowValues]
        /\ session \in [Orders -> {NoRow, "initialized", "captured", "failed"}]
        /\ placed \in [Orders -> 0..1]
        /\ cancel \in [Orders -> [step : {"idle", "commit", "release", "done"}, from : RowValues]]
    BY DEF Init, PlaceSteps, IdleCancel, RowValues
  <2>3. /\ hook \in [Slots -> {IdleHook}]
        /\ charges = {} /\ sent = {} /\ acked = {} /\ recorded = {} /\ stamped = {}
    BY DEF Init
  <2> QED
    BY <2>1, <2>2, <2>3 DEF TypeOK, RowValues
<1> QED
  BY <1>1, <1>2 DEF Init, IInv, PlacedIsPaid, PlacedIsAnnounced, AnnouncedIsPaid, NotYetInserted,
     SentIsAnswered, IdleCancel

(* A step of placeOrder that does not write the order's row.               *)
LEMMA PlaceStepKeeps ==
    ASSUME IInv, NEW o \in Orders, NEW to \in PlaceSteps \ {"reserve"},
           to = "insert" => place[o] = "reserve",
           place[o] # "answered",
           place' = [place EXCEPT ![o] = to],
           stock' \in [Orders -> {"none", "reserved", "released"}],
           session' \in [Orders -> {NoRow, "initialized", "captured", "failed"}],
           row' = row, placed' = placed, hookVars' = hookVars, cancel' = cancel,
           overlapped' = overlapped, faulted' \in BOOLEAN
    PROVE  IInv'
<1>1. TypeOK'
  BY DEF IInv, TypeOK, hookVars
<1>2. NotYetInserted'
  BY DEF IInv, TypeOK, NotYetInserted
<1>3. SentIsAnswered'
  BY CheckoutAssumption DEF IInv, TypeOK, SentIsAnswered, hookVars
<1> QED
  BY <1>1, <1>2, <1>3 DEF IInv, hookVars, PlacedIsPaid, PlacedIsAnnounced, AnnouncedIsPaid, Paid

LEMMA ReleaseType ==
    ASSUME TypeOK, NEW o \in Orders, Release(o)
    PROVE  stock' \in [Orders -> {"none", "reserved", "released"}]
BY DEF TypeOK, Release

(* Writing "cancelled" over any status. *)
LEMMA CancelledKeeps ==
    ASSUME IInv, NEW o \in Orders, place[o] \notin {"reserve", "insert"},
           row' = [row EXCEPT ![o] = "cancelled"],
           placed' = placed, hookVars' = hookVars, stock' = stock, session' = session,
           overlapped' = overlapped, faulted' \in BOOLEAN, place' \in [Orders -> PlaceSteps],
           \A p \in Orders : place'[p] \in {"reserve", "insert"} => place'[p] = place[p],
           \A p \in Orders : place[p] = "answered" => place'[p] = "answered",
           cancel' \in [Orders -> [step : {"idle", "commit", "release", "done"}, from : RowValues]],
           \A p \in Orders : cancel'[p].step = "commit" => cancel[p].step = "commit"
    PROVE  IInv'
<1>1. TypeOK'
  <2>1. TypeOK
    BY DEF IInv
  <2>2. row' \in [Orders -> RowValues]
    BY <2>1 DEF TypeOK, RowValues
  <2>3. /\ charges' = charges /\ sent' = sent /\ acked' = acked
        /\ recorded' = recorded /\ stamped' = stamped /\ hook' = hook
    BY DEF hookVars
  <2> QED
    BY <2>1, <2>2, <2>3 DEF TypeOK, RowValues
<1>2. PlacedIsPaid' /\ AnnouncedIsPaid'
  BY CheckoutAssumption DEF IInv, TypeOK, PlacedIsPaid, AnnouncedIsPaid, Paid, hookVars
<1>3. PlacedIsAnnounced' /\ NotYetInserted'
  BY DEF IInv, TypeOK, PlacedIsAnnounced, NotYetInserted
<1>4. SentIsAnswered'
  <2>1. \A e \in sent : OrderOf[e] \in Orders /\ place[OrderOf[e]] = "answered"
    BY CheckoutAssumption DEF IInv, TypeOK, SentIsAnswered
  <2>2. sent' = sent /\ hook' = hook
    BY DEF hookVars
  <2> QED
    BY <2>1, <2>2 DEF IInv, SentIsAnswered
<1> QED
  BY <1>1, <1>2, <1>3, <1>4 DEF IInv

LEMMA PlaceOrderKeeps ==
    ASSUME IInv, faulted' \in BOOLEAN, NEW o \in Orders, PlaceOrder(o) \/ PlaceCrash(o)
    PROVE  IInv'
<1>0. TypeOK /\ NotYetInserted /\ faulted' \in BOOLEAN
  BY DEF IInv
<1> DEFINE Keeps == /\ row' = row /\ placed' = placed /\ hookVars' = hookVars /\ cancel' = cancel
                    /\ overlapped' = overlapped
           Typed == /\ stock' \in [Orders -> {"none", "reserved", "released"}]
                    /\ session' \in [Orders -> {NoRow, "initialized", "captured", "failed"}]
           Goes(to) == place' = [place EXCEPT ![o] = to]
<1>1. ASSUME NEW to \in PlaceSteps \ {"reserve"}, to = "insert" => place[o] = "reserve",
             place[o] # "answered", Goes(to), Keeps, Typed
      PROVE  IInv'
  BY <1>0, <1>1, PlaceStepKeeps
<1>2. CASE ReserveStock(o)
  <2>1. place[o] = "reserve" /\ Keeps /\ session' = session
    BY <1>2 DEF ReserveStock, PlaceGoto
  <2>2. Goes("insert") \/ Goes("failed")
    BY <1>2 DEF ReserveStock, PlaceGoto
  <2>3. Typed
    BY <1>0, <1>2, <2>1 DEF ReserveStock, TypeOK
  <2> QED
    BY <1>1, <2>1, <2>2, <2>3 DEF PlaceSteps
<1>3. CASE InsertOrder(o)
  <2>1. place[o] = "insert" /\ row[o] = NoRow /\ placed[o] = 0 /\ cancel[o].step # "commit"
    BY <1>0, <1>3 DEF InsertOrder, PlaceGoto, NotYetInserted
  <2>2. /\ place' = [place EXCEPT ![o] = IF o \in Online THEN "openSession" ELSE "answered"]
        /\ row' = [row EXCEPT ![o] = IF o \in Online THEN "pending_payment" ELSE "placed"]
        /\ placed' = IF o \in Online THEN placed ELSE [placed EXCEPT ![o] = placed[o] + 1]
        /\ stock' = stock /\ session' = session /\ hookVars' = hookVars /\ cancel' = cancel
        /\ overlapped' = overlapped
    BY <1>3 DEF InsertOrder, PlaceGoto
  <2>3. placed' \in [Orders -> 0..1] /\ placed'[o] = IF o \in Online THEN 0 ELSE 1
    BY <1>0, <2>1, <2>2 DEF TypeOK
  <2>4. \A p \in Orders : p # o => placed'[p] = placed[p] /\ row'[p] = row[p]
    BY <1>0, <2>2 DEF TypeOK
  <2>5. row'[o] = IF o \in Online THEN "pending_payment" ELSE "placed"
    BY <1>0, <2>2 DEF TypeOK
  <2>6. TypeOK'
    BY <1>0, <2>2, <2>3 DEF TypeOK, PlaceSteps, hookVars
  <2>7. PlacedIsPaid' /\ AnnouncedIsPaid'
    BY <2>2, <2>3, <2>4, <2>5, CheckoutAssumption
       DEF IInv, PlacedIsPaid, AnnouncedIsPaid, Paid, hookVars
  <2>8. PlacedIsAnnounced'
    BY <2>3, <2>4, <2>5 DEF IInv, PlacedIsAnnounced
  <2>9. NotYetInserted'
    BY <1>0, <2>2, <2>4 DEF TypeOK, NotYetInserted
  <2>10. SentIsAnswered'
    BY <1>0, <2>1, <2>2, CheckoutAssumption DEF IInv, TypeOK, SentIsAnswered, hookVars
  <2> QED
    BY <2>6, <2>7, <2>8, <2>9, <2>10 DEF IInv
<1>4. CASE InsertFails(o)
  <2>1. place[o] = "insert" /\ Goes("release") /\ Keeps /\ stock' = stock /\ session' = session
    BY <1>4 DEF InsertFails, PlaceGoto
  <2> QED
    BY <1>0, <1>1, <2>1 DEF TypeOK, PlaceSteps
<1>5. CASE OpenSession(o)
  <2>1. place[o] = "openSession" /\ Goes("answered") /\ Keeps /\ stock' = stock
    BY <1>5 DEF OpenSession, CreateSession, PlaceGoto
  <2>2. Typed
    BY <1>0, <1>5, <2>1 DEF OpenSession, CreateSession, TypeOK
  <2> QED
    BY <1>1, <2>1, <2>2 DEF PlaceSteps
<1>6. CASE OpenSessionFails(o)
  <2>1. place[o] = "openSession" /\ Goes("void") /\ Keeps /\ stock' = stock /\ session' = session
    BY <1>6 DEF OpenSessionFails, PlaceGoto
  <2> QED
    BY <1>0, <1>1, <2>1 DEF TypeOK, PlaceSteps
<1>7. CASE VoidOrderSafe(o)
  <2>1. /\ place[o] = "void" /\ Goes("release")
        /\ stock' = stock /\ session' = session /\ placed' = placed
        /\ hookVars' = hookVars /\ cancel' = cancel /\ overlapped' = overlapped
    BY <1>7 DEF VoidOrderSafe, PlaceGoto
  <2>2. CASE row' = row
    BY <1>0, <1>1, <2>1, <2>2 DEF TypeOK, PlaceSteps
  <2>3. CASE row' = [row EXCEPT ![o] = "cancelled"]
    <3>1. /\ place' \in [Orders -> PlaceSteps]
          /\ \A p \in Orders : place'[p] \in {"reserve", "insert"} => place'[p] = place[p]
          /\ \A p \in Orders : place[p] = "answered" => place'[p] = "answered"
      BY <1>0, <2>1 DEF TypeOK, PlaceSteps
    <3>2. cancel' \in [Orders -> [step : {"idle", "commit", "release", "done"}, from : RowValues]]
      BY <1>0, <2>1 DEF TypeOK, RowValues
    <3> QED
      BY <1>0, <2>1, <2>3, <3>1, <3>2, CancelledKeeps
  <2> QED
    BY <1>7, <2>2, <2>3 DEF VoidOrderSafe
<1>8. CASE ReleaseStockSafe(o)
  <2>1. place[o] = "release" /\ Goes("failed") /\ Keeps /\ session' = session
    BY <1>8 DEF ReleaseStockSafe, PlaceGoto
  <2>2. Typed
    BY <1>0, <1>8, <2>1, ReleaseType DEF ReleaseStockSafe, TypeOK
  <2> QED
    BY <1>1, <2>1, <2>2 DEF PlaceSteps
<1>9. CASE PlaceCrash(o)
  <2>1. place[o] # "answered" /\ Goes("failed") /\ Keeps /\ stock' = stock /\ session' = session
    BY <1>9 DEF PlaceCrash
  <2> QED
    BY <1>0, <1>1, <2>1 DEF TypeOK, PlaceSteps
<1> QED
  BY <1>2, <1>3, <1>4, <1>5, <1>6, <1>7, <1>8, <1>9 DEF PlaceOrder

(* A step of the webhook or of the cancellation that writes no order row   *)
(* and books no charge.                                                    *)
LEMMA OtherStepKeeps ==
    ASSUME IInv, place' = place, row' = row, placed' = placed, charges' = charges,
           TypeOK', SentIsAnswered',
           \A o \in Orders : cancel'[o].step = "commit" => cancel[o].step = "commit" \/ row[o] # NoRow
    PROVE  IInv'
<1>1. NotYetInserted'
  BY DEF IInv, NotYetInserted
<1> QED
  BY <1>1 DEF IInv, PlacedIsPaid, PlacedIsAnnounced, AnnouncedIsPaid, Paid

LEMMA CancelKeeps ==
    ASSUME IInv, faulted' \in BOOLEAN, NEW o \in Orders,
           ReadForCancel(o) \/ CommitCancel(o) \/ ReleaseCancelled(o) \/ CancelCrash(o)
    PROVE  IInv'
<1>0. TypeOK /\ NotYetInserted /\ SentIsAnswered /\ faulted' \in BOOLEAN
  BY DEF IInv
<1>1. CASE ReadForCancel(o)
  <2>1. place' = place /\ row' = row /\ placed' = placed /\ charges' = charges /\ row[o] # NoRow
    BY <1>1 DEF ReadForCancel, placeVars, hookVars
  <2>2. TypeOK' /\ SentIsAnswered'
    BY <1>0, <1>1 DEF ReadForCancel, NoteOverlap, TypeOK, SentIsAnswered, placeVars, hookVars
  <2>3. \A p \in Orders : cancel'[p].step = "commit" => cancel[p].step = "commit" \/ row[p] # NoRow
    BY <1>0, <1>1, <2>1 DEF ReadForCancel, TypeOK
  <2> QED
    BY <2>1, <2>2, <2>3, OtherStepKeeps
<1>2. CASE ReleaseCancelled(o)
  <2>1. place' = place /\ row' = row /\ placed' = placed /\ charges' = charges
    BY <1>2 DEF ReleaseCancelled, hookVars
  <2>2. TypeOK' /\ SentIsAnswered'
    BY <1>0, <1>2, ReleaseType DEF ReleaseCancelled, TypeOK, SentIsAnswered, hookVars
  <2>3. \A p \in Orders : cancel'[p].step = "commit" => cancel[p].step = "commit" \/ row[p] # NoRow
    BY <1>0, <1>2 DEF ReleaseCancelled, TypeOK
  <2> QED
    BY <2>1, <2>2, <2>3, OtherStepKeeps
<1>3. CASE CancelCrash(o)
  <2>1. place' = place /\ row' = row /\ placed' = placed /\ charges' = charges
    BY <1>3 DEF CancelCrash, placeVars, hookVars
  <2>2. TypeOK' /\ SentIsAnswered'
    BY <1>0, <1>3 DEF CancelCrash, TypeOK, SentIsAnswered, placeVars, hookVars
  <2>3. \A p \in Orders : cancel'[p].step = "commit" => cancel[p].step = "commit" \/ row[p] # NoRow
    BY <1>0, <1>3 DEF CancelCrash, TypeOK
  <2> QED
    BY <2>1, <2>2, <2>3, OtherStepKeeps
<1>4. CASE CommitCancel(o)
  <2>1. /\ cancel[o].step = "commit" /\ row' = [row EXCEPT ![o] = "cancelled"]
        /\ placed' = placed /\ hookVars' = hookVars /\ stock' = stock /\ session' = session
        /\ place' = place /\ overlapped' = overlapped
    BY <1>4 DEF CommitCancel, placeVars
  <2>2. place[o] \notin {"reserve", "insert"}
    BY <1>0, <2>1 DEF NotYetInserted
  <2>3. /\ cancel' \in [Orders -> [step : {"idle", "commit", "release", "done"}, from : RowValues]]
        /\ \A p \in Orders : cancel'[p].step = "commit" => cancel[p].step = "commit"
    BY <1>0, <1>4 DEF CommitCancel, TypeOK, RowValues
  <2> QED
    BY <1>0, <2>1, <2>2, <2>3, CancelledKeeps DEF TypeOK
<1> QED
  BY <1>1, <1>2, <1>3, <1>4

LEMMA WebhookKeeps ==
    ASSUME IInv, faulted' \in BOOLEAN, NEW w \in Slots, HandleWebhook(w) \/ WebhookFails(w)
    PROVE  IInv'
<1>0. TypeOK /\ SentIsAnswered /\ faulted' \in BOOLEAN
  BY DEF IInv
<1> DEFINE Keeps == place' = place /\ row' = row /\ placed' = placed /\ cancel' = cancel
                    /\ charges' = charges /\ sent' = sent
<1>1. CASE RecordWebhookOrSkip(w)
  <2>1. Keeps /\ hook[w] # IdleHook
    BY <1>1 DEF RecordWebhookOrSkip, placeVars, IdleHook
  <2>2. TypeOK' /\ SentIsAnswered'
    BY <1>0, <1>1, <2>1 DEF RecordWebhookOrSkip, TypeOK, SentIsAnswered, placeVars
  <2> QED
    BY <2>1, <2>2, OtherStepKeeps
<1>2. CASE ReadOrderAndSession(w)
  <2>1. Keeps /\ hook[w] # IdleHook
    BY <1>2 DEF ReadOrderAndSession, placeVars, IdleHook
  <2>2. OrderOf[hook[w].event] \in Orders
    BY <1>0, <2>1, CheckoutAssumption DEF TypeOK
  <2>3. row[OrderOf[hook[w].event]] \in RowValues
    BY <1>0, <2>2 DEF TypeOK, RowValues
  <2>4. PICK step \in {"trx", "stamp"} :
          hook' = [hook EXCEPT ![w] = [hook[w] EXCEPT !.step = step,
                                                       !.status = row[OrderOf[hook[w].event]]]]
    BY <1>0, <1>2, <2>1 DEF ReadOrderAndSession, TypeOK
  <2>5. hook'[w] = [step |-> step, event |-> hook[w].event, status |-> row[OrderOf[hook[w].event]]]
    <3>1. hook[w] \in [step : {"record", "read", "trx", "stamp"}, event : Events, status : RowValues]
      BY <1>0, <2>1 DEF TypeOK, RowValues
    <3>2. hook'[w] = [hook[w] EXCEPT !.step = step, !.status = row[OrderOf[hook[w].event]]]
      BY <1>0, <2>4 DEF TypeOK
    <3> QED
      BY <3>1, <3>2
  <2>6. HookType' /\ hook'[w].event = hook[w].event /\ \A x \in Slots : x # w => hook'[x] = hook[x]
    BY <1>0, <2>1, <2>3, <2>4, <2>5 DEF TypeOK, HookType, RowValues
  <2>7. TypeOK' /\ SentIsAnswered'
    BY <1>0, <1>2, <2>1, <2>6
       DEF ReadOrderAndSession, TypeOK, HookType, RowValues, SentIsAnswered, placeVars
  <2> QED
    BY <2>1, <2>7, OtherStepKeeps
<1>3. CASE MarkWebhookProcessed(w)
  <2>1. Keeps /\ hook[w] # IdleHook
    BY <1>3 DEF MarkWebhookProcessed, placeVars, IdleHook
  <2>2. TypeOK' /\ SentIsAnswered'
    BY <1>0, <1>3, <2>1 DEF MarkWebhookProcessed, TypeOK, SentIsAnswered, placeVars
  <2> QED
    BY <2>1, <2>2, OtherStepKeeps
<1>4. CASE WebhookFails(w)
  <2>1. Keeps
    BY <1>4 DEF WebhookFails, placeVars
  <2>2. TypeOK' /\ SentIsAnswered'
    BY <1>0, <1>4, <2>1 DEF WebhookFails, TypeOK, SentIsAnswered, placeVars
  <2> QED
    BY <2>1, <2>2, OtherStepKeeps
<1>5. CASE CommitReconcile(w)
  <2> DEFINE e == hook[w].event
             o == OrderOf[e]
             places == e \in Succeeds /\ hook[w].status = "pending_payment"
  <2>1. /\ hook[w].step = "trx" /\ e \notin charges /\ charges' = charges \cup {e}
        /\ session' = [session EXCEPT ![o] = IF e \in Succeeds THEN "captured" ELSE "failed"]
        /\ row' = IF places THEN [row EXCEPT ![o] = "placed"] ELSE row
        /\ placed' = IF places THEN [placed EXCEPT ![o] = placed[o] + 1] ELSE placed
        /\ hook' = [hook EXCEPT ![w].step = "stamp"]
        /\ UNCHANGED <<place, stock, sent, acked, recorded, stamped, cancel, overlapped>>
    BY <1>5 DEF CommitReconcile, Reconcile, UpdateSession, CreateTransaction
  <2>2. /\ hook[w] # IdleHook /\ e \in Events /\ e \in sent /\ o \in Online /\ o \in Orders
        /\ place[o] = "answered"
    BY <1>0, <2>1, CheckoutAssumption DEF IdleHook, TypeOK, SentIsAnswered
  <2> HIDE DEF e, o
  <2>3. places => \A p \in Online : p = o => Paid(p)'
    BY <2>1, <2>2 DEF Paid, o
  <2>4. places => placed[o] = 0
    <3>1. ASSUME places, placed[o] # 0 PROVE FALSE
      <4>1. PICK d \in charges \cap Succeeds : OrderOf[d] = o
        BY <2>2, <3>1 DEF IInv, AnnouncedIsPaid, Paid
      <4>2. d = e
        BY <2>2, <3>1, <4>1, CheckoutAssumption DEF o
      <4> QED
        BY <2>1, <4>1, <4>2
    <3> QED
      BY <3>1
  <2>5. \A p \in Online : Paid(p) => Paid(p)'
    BY <2>1 DEF Paid
  <2>6. /\ row' \in [Orders -> RowValues] /\ placed' \in [Orders -> 0..1]
        /\ \A p \in Orders : p # o \/ ~places => row'[p] = row[p] /\ placed'[p] = placed[p]
        /\ places => row'[o] = "placed" /\ placed'[o] = 1
    BY <1>0, <2>1, <2>2, <2>4 DEF TypeOK, RowValues
  <2>7. TypeOK'
    BY <1>0, <2>1, <2>2, <2>6 DEF TypeOK, RowValues, e
  <2>8. PlacedIsPaid' /\ AnnouncedIsPaid'
    BY <2>2, <2>3, <2>5, <2>6, CheckoutAssumption DEF IInv, PlacedIsPaid, AnnouncedIsPaid
  <2>9. PlacedIsAnnounced'
    BY <2>2, <2>6 DEF IInv, PlacedIsAnnounced
  <2>10. NotYetInserted'
    BY <2>1, <2>2, <2>6 DEF IInv, NotYetInserted
  <2>11. SentIsAnswered'
    BY <1>0, <2>1, <2>2 DEF SentIsAnswered, TypeOK
  <2> QED
    BY <2>7, <2>8, <2>9, <2>10, <2>11 DEF IInv
<1> QED
  BY <1>1, <1>2, <1>3, <1>4, <1>5 DEF HandleWebhook

LEMMA StepKeeps == IInv /\ [Next]_vars => IInv'
<1> SUFFICES ASSUME IInv, [Next]_vars PROVE IInv'
  OBVIOUS
<1>0. faulted' \in BOOLEAN
  BY FaultedType DEF IInv
<1>1. ASSUME NEW o \in Orders, PlaceOrder(o) \/ PlaceCrash(o) PROVE IInv'
  BY <1>0, <1>1, PlaceOrderKeeps
<1>2. ASSUME NEW o \in Orders, ReadForCancel(o) \/ Cancellation(o) \/ CancelCrash(o) PROVE IInv'
  BY <1>0, <1>2, CancelKeeps DEF Cancellation
<1>3. ASSUME NEW w \in Slots, HandleWebhook(w) \/ WebhookFails(w) PROVE IInv'
  BY <1>0, <1>3, WebhookKeeps
<1>4. ASSUME NEW e \in Events, Attempt(e) PROVE IInv'
  <2>1. /\ place' = place /\ row' = row /\ placed' = placed /\ charges' = charges
        /\ cancel' = cancel /\ sent' = sent \cup {e} /\ place[OrderOf[e]] = "answered"
    BY <1>4 DEF Attempt, placeVars
  <2>2. TypeOK' /\ SentIsAnswered'
    BY <1>0, <1>4, <2>1 DEF IInv, Attempt, TypeOK, SentIsAnswered, placeVars
  <2> QED
    BY <2>1, <2>2, OtherStepKeeps
<1>5. ASSUME NEW w \in Slots, NEW e \in Events, Deliver(w, e) PROVE IInv'
  <2>1. /\ place' = place /\ row' = row /\ placed' = placed /\ charges' = charges
        /\ cancel' = cancel /\ sent' = sent /\ e \in sent
    BY <1>5 DEF Deliver, placeVars
  <2>2. hook' = [hook EXCEPT ![w] = [step |-> "record", event |-> e, status |-> NoRow]]
    BY <1>5 DEF Deliver
  <2>3. overlapped' \subseteq Orders
    BY <1>5, CheckoutAssumption DEF IInv, Deliver, NoteOverlap, TypeOK
  <2>4. TypeOK' /\ SentIsAnswered'
    BY <1>0, <1>5, <2>1, <2>2, <2>3 DEF IInv, Deliver, TypeOK, SentIsAnswered, placeVars
  <2> QED
    BY <2>1, <2>4, OtherStepKeeps
<1>6. CASE UNCHANGED vars
  BY <1>6 DEF vars, hookVars, placeVars, IInv, TypeOK, PlacedIsPaid, PlacedIsAnnounced,
     AnnouncedIsPaid, Paid, NotYetInserted, SentIsAnswered
<1> QED
  BY <1>1, <1>2, <1>3, <1>4, <1>5, <1>6 DEF Next

(* The invariant is inductive.                                             *)
THEOREM Invariant == Spec => []IInv
BY Initial, StepKeeps, PTL DEF Spec

(* Rows, sessions and requests in flight keep their types.                 *)
THEOREM TypeCorrect == Spec => []TypeOK
<1>1. IInv => TypeOK
  BY DEF IInv
<1> QED
  BY <1>1, Invariant, PTL

(* No fault and no overlap shows the restaurant an unpaid online order.    *)
THEOREM PlacedAlwaysPaid == Spec => []PlacedIsPaid
<1>1. IInv => PlacedIsPaid
  BY DEF IInv
<1> QED
  BY <1>1, Invariant, PTL

(* No fault and no overlap announces a placed order twice, or never.       *)
THEOREM PlacedAlwaysAnnounced == Spec => []PlacedIsAnnounced
<1>1. IInv => PlacedIsAnnounced
  BY DEF IInv
<1> QED
  BY <1>1, Invariant, PTL

-----------------------------------------------------------------------------
(* What a step of one request changes, order by order.                     *)

LEMMA PlaceOrderEffect ==
    ASSUME IInv, NEW o \in Orders, PlaceOrder(o) \/ PlaceCrash(o)
    PROVE  /\ hookVars' = hookVars /\ cancel' = cancel /\ overlapped' = overlapped
           /\ place[o] \notin {"answered", "failed"}
           /\ \A p \in Orders \ {o} : /\ place'[p] = place[p] /\ stock'[p] = stock[p]
                                      /\ row'[p] = row[p] /\ session'[p] = session[p]
           /\ row'[o] = "placed" => row[o] = "placed" \/ place'[o] = "answered"
           /\ o \in Online /\ place'[o] = "answered" => session'[o] = "initialized"
           /\ StockHeld(o) => StockHeld(o)'
<1>0. TypeOK /\ NotYetInserted /\ NoRow # "cancelled"
  BY CheckoutAssumption DEF IInv, Statuses
<1>1. CASE ReserveStock(o)
  <2>1. place'[o] \in {"insert", "failed"} /\ (place'[o] = "insert" => stock'[o] = "reserved")
    BY <1>0, <1>1 DEF ReserveStock, PlaceGoto, TypeOK
  <2>2. \A p \in Orders \ {o} : place'[p] = place[p] /\ stock'[p] = stock[p]
    BY <1>0, <1>1 DEF ReserveStock, PlaceGoto, TypeOK
  <2> QED
    BY <1>1, <2>1, <2>2 DEF ReserveStock, PlaceGoto, StockHeld
<1>2. CASE InsertOrder(o)
  <2>1. /\ place[o] = "insert" /\ row[o] = NoRow
        /\ place'[o] = IF o \in Online THEN "openSession" ELSE "answered"
        /\ row'[o] = IF o \in Online THEN "pending_payment" ELSE "placed"
        /\ \A p \in Orders \ {o} : place'[p] = place[p] /\ row'[p] = row[p]
    BY <1>0, <1>2 DEF InsertOrder, PlaceGoto, TypeOK, NotYetInserted
  <2> QED
    BY <1>0, <1>2, <2>1 DEF InsertOrder, StockHeld
<1>3. CASE OpenSession(o)
  <2>1. /\ place[o] = "openSession" /\ place'[o] = "answered" /\ session'[o] = "initialized"
        /\ \A p \in Orders \ {o} : place'[p] = place[p] /\ session'[p] = session[p]
    BY <1>0, <1>3 DEF OpenSession, CreateSession, Active, PlaceGoto, TypeOK
  <2> QED
    BY <1>3, <2>1 DEF OpenSession, StockHeld
<1>4. CASE VoidOrderSafe(o)
  <2>1. /\ place[o] = "void" /\ place'[o] = "release" /\ row'[o] \in {row[o], "cancelled"}
        /\ \A p \in Orders \ {o} : place'[p] = place[p] /\ row'[p] = row[p]
    BY <1>0, <1>4 DEF VoidOrderSafe, PlaceGoto, TypeOK
  <2> QED
    BY <1>4, <2>1 DEF VoidOrderSafe, StockHeld
<1>5. CASE ReleaseStockSafe(o)
  <2>1. /\ place[o] = "release" /\ place'[o] = "failed"
        /\ \A p \in Orders \ {o} : place'[p] = place[p] /\ stock'[p] = stock[p]
    BY <1>0, <1>5 DEF ReleaseStockSafe, Release, PlaceGoto, TypeOK
  <2> QED
    BY <1>5, <2>1 DEF ReleaseStockSafe, StockHeld
<1>6. CASE InsertFails(o) \/ OpenSessionFails(o) \/ PlaceCrash(o)
  <2>1. /\ place[o] \notin {"answered", "failed"} /\ place'[o] \in {"release", "void", "failed"}
        /\ \A p \in Orders \ {o} : place'[p] = place[p]
    BY <1>0, <1>6 DEF InsertFails, OpenSessionFails, PlaceCrash, PlaceGoto, TypeOK
  <2> QED
    BY <1>6, <2>1 DEF InsertFails, OpenSessionFails, PlaceCrash, StockHeld
<1> QED
  BY <1>1, <1>2, <1>3, <1>4, <1>5, <1>6 DEF PlaceOrder

LEMMA CancelEffect ==
    ASSUME TypeOK, NEW o \in Orders, Cancellation(o) \/ CancelCrash(o)
    PROVE  /\ place' = place /\ session' = session /\ hookVars' = hookVars
           /\ overlapped' = overlapped /\ Cancelling(o)
           /\ \A p \in Orders \ {o} : /\ stock'[p] = stock[p] /\ row'[p] = row[p]
                                      /\ cancel'[p] = cancel[p]
           /\ row'[o] \in {row[o], "cancelled"}
           /\ stock'[o] # stock[o] => cancel[o].step = "release" /\ row'[o] = row[o]
           /\ cancel'[o].step = "release" => row'[o] = "cancelled"
<1>1. CASE CommitCancel(o)
  <2>1. /\ row'[o] = "cancelled" /\ stock' = stock
        /\ \A p \in Orders \ {o} : row'[p] = row[p] /\ cancel'[p] = cancel[p]
    BY <1>1 DEF CommitCancel, TypeOK, placeVars
  <2> QED
    BY <1>1, <2>1 DEF CommitCancel, placeVars, Cancelling
<1>2. CASE ReleaseCancelled(o)
  <2>1. /\ cancel'[o].step = "done"
        /\ \A p \in Orders \ {o} : stock'[p] = stock[p] /\ cancel'[p] = cancel[p]
    BY <1>2 DEF ReleaseCancelled, Release, TypeOK
  <2> QED
    BY <1>2, <2>1 DEF ReleaseCancelled, Cancelling
<1>3. CASE CancelCrash(o)
  <2>1. /\ cancel'[o].step = "done"
        /\ \A p \in Orders \ {o} : cancel'[p] = cancel[p]
    BY <1>3 DEF CancelCrash, TypeOK
  <2> QED
    BY <1>3, <2>1 DEF CancelCrash, placeVars, Cancelling
<1> QED
  BY <1>1, <1>2, <1>3 DEF Cancellation

(* A webhook touches its own delivery and its own order.                   *)
LEMMA WebhookEffect ==
    ASSUME TypeOK, NEW w \in Slots, HandleWebhook(w) \/ WebhookFails(w)
    PROVE  /\ place' = place /\ stock' = stock /\ cancel' = cancel /\ sent' = sent
           /\ overlapped' = overlapped /\ hook[w] # IdleHook
           /\ \A x \in Slots \ {w} : hook'[x] = hook[x]
           /\ hook'[w] # IdleHook => hook'[w].event = hook[w].event
           /\ \/ /\ row' = row /\ session' = session /\ charges' = charges
                 /\ hook'[w].step = "trx" => Active(OrderOf[hook[w].event])
                                             /\ hook'[w].status = row[OrderOf[hook[w].event]]
              \/ CommitReconcile(w) /\ hook'[w].step = "stamp"
<1>1. CASE RecordWebhookOrSkip(w)
  <2>1. hook[w].step = "record" /\ hook[w] # IdleHook
    BY <1>1 DEF RecordWebhookOrSkip, IdleHook
  <2>2. hook' = [hook EXCEPT ![w] = IdleHook] \/ hook' = [hook EXCEPT ![w].step = "read"]
    BY <1>1 DEF RecordWebhookOrSkip
  <2>3. /\ \A x \in Slots \ {w} : hook'[x] = hook[x]
        /\ hook'[w] = IdleHook \/ (hook'[w].step = "read" /\ hook'[w].event = hook[w].event)
    BY <2>1, <2>2 DEF TypeOK
  <2> QED
    BY <1>1, <2>1, <2>3 DEF RecordWebhookOrSkip, placeVars, IdleHook
<1>2. CASE ReadOrderAndSession(w)
  <2> DEFINE o == OrderOf[hook[w].event]
  <2>1. hook[w].step = "read" /\ hook[w] # IdleHook
    BY <1>2 DEF ReadOrderAndSession, IdleHook
  <2>2. hook[w] \in [step : {"record", "read", "trx", "stamp"}, event : Events, status : RowValues]
    BY <2>1 DEF TypeOK, RowValues
  <2>3. /\ hook' = [hook EXCEPT ![w] = [hook[w] EXCEPT !.step = IF Active(o) THEN "trx" ELSE "stamp",
                                                        !.status = row[o]]]
    BY <1>2, <2>1 DEF ReadOrderAndSession, TypeOK
  <2>4. /\ \A x \in Slots \ {w} : hook'[x] = hook[x]
        /\ hook'[w] = [hook[w] EXCEPT !.step = IF Active(o) THEN "trx" ELSE "stamp",
                                      !.status = row[o]]
    BY <2>3 DEF TypeOK
  <2>5. hook'[w] = [step |-> IF Active(o) THEN "trx" ELSE "stamp",
                    event |-> hook[w].event, status |-> row[o]]
    BY <2>2, <2>4
  <2>6. /\ hook'[w].event = hook[w].event /\ hook'[w].status = row[o]
        /\ hook'[w].step = "trx" => Active(o)
    BY <2>5
  <2> HIDE DEF o
  <2> QED
    BY <1>2, <2>1, <2>4, <2>6 DEF ReadOrderAndSession, placeVars, o
<1>3. CASE CommitReconcile(w)
  <2>1. /\ hook[w].step = "trx" /\ hook' = [hook EXCEPT ![w].step = "stamp"]
        /\ place' = place /\ stock' = stock /\ cancel' = cancel /\ sent' = sent
        /\ overlapped' = overlapped
    BY <1>3 DEF CommitReconcile, Reconcile
  <2>2. /\ hook[w] # IdleHook /\ \A x \in Slots \ {w} : hook'[x] = hook[x]
        /\ hook'[w].step = "stamp" /\ hook'[w].event = hook[w].event
    BY <2>1 DEF TypeOK, IdleHook
  <2> QED
    BY <1>3, <2>1, <2>2
<1>4. CASE MarkWebhookProcessed(w) \/ WebhookFails(w)
  <2>1. hook[w] # IdleHook /\ hook' = [hook EXCEPT ![w] = IdleHook]
    BY <1>4 DEF MarkWebhookProcessed, WebhookFails, IdleHook
  <2>2. hook'[w] = IdleHook /\ \A x \in Slots \ {w} : hook'[x] = hook[x]
    BY <2>1 DEF TypeOK
  <2> QED
    BY <1>4, <2>1, <2>2 DEF MarkWebhookProcessed, WebhookFails, placeVars, IdleHook
<1> QED
  BY <1>1, <1>2, <1>3, <1>4 DEF HandleWebhook

(* The charge, and what its transaction writes of the order.               *)
LEMMA ReconcileEffect ==
    ASSUME IInv, NEW w \in Slots, CommitReconcile(w), NEW o, o = OrderOf[hook[w].event]
    PROVE  /\ o \in Online /\ o \in Orders /\ place[o] = "answered"
           /\ hook[w] # IdleHook /\ hook[w].step = "trx"
           /\ hook[w].event \in sent /\ charges' = charges \cup {hook[w].event}
           /\ session'[o] = IF hook[w].event \in Succeeds THEN "captured" ELSE "failed"
           /\ row'[o] = IF hook[w].event \in Succeeds /\ hook[w].status = "pending_payment"
                        THEN "placed" ELSE row[o]
           /\ \A p \in Orders \ {o} : row'[p] = row[p] /\ session'[p] = session[p]
<1>1. TypeOK /\ SentIsAnswered
  BY DEF IInv
<1>2. hook[w].step = "trx" /\ hook[w] # IdleHook
  BY DEF CommitReconcile, Reconcile, IdleHook
<1>3. hook[w].event \in sent /\ hook[w].event \in Events
  BY <1>1, <1>2 DEF SentIsAnswered, TypeOK
<1>4. o \in Online /\ o \in Orders /\ place[o] = "answered"
  BY <1>1, <1>3, CheckoutAssumption DEF SentIsAnswered
<1>5. /\ charges' = charges \cup {hook[w].event}
      /\ session' = [session EXCEPT ![o] = IF hook[w].event \in Succeeds THEN "captured" ELSE "failed"]
      /\ row' = IF hook[w].event \in Succeeds /\ hook[w].status = "pending_payment"
                THEN [row EXCEPT ![o] = "placed"] ELSE row
  BY DEF CommitReconcile, Reconcile, UpdateSession, CreateTransaction
<1> QED
  BY <1>1, <1>2, <1>3, <1>4, <1>5 DEF TypeOK

-----------------------------------------------------------------------------
(* Every webhook that was processed is accounted for.                      *)

AccountInv == IInv /\ PlacedIsAnswered /\ SessionIsAccounted /\ StampedIsAccounted

LEMMA AccountInitial == Init => AccountInv
<1> SUFFICES ASSUME Init PROVE AccountInv
  OBVIOUS
<1>1. NoRow # "placed" /\ Online \subseteq Orders
  BY CheckoutAssumption DEF Statuses
<1>2. /\ \A o \in Orders : place[o] = "reserve" /\ row[o] = NoRow
      /\ charges = {} /\ stamped = {} /\ \A w \in Slots : hook[w].step = "idle"
  BY DEF Init, IdleHook
<1> QED
  BY <1>1, <1>2, Initial DEF AccountInv, PlacedIsAnswered, SessionIsAccounted, StampedIsAccounted

(* A step that books no charge and stamps no webhook.                      *)
LEMMA AccountFrame ==
    ASSUME AccountInv, IInv', charges' = charges, stamped' = stamped, sent \subseteq sent',
           \A o \in Orders : row'[o] = "placed" => row[o] = "placed" \/ place'[o] = "answered",
           \A o \in Orders : place[o] = "answered" => place'[o] = "answered",
           \A o \in Online : place'[o] = "answered" =>
               session'[o] = "initialized" \/ (place[o] = "answered" /\ session'[o] = session[o]),
           \A w \in Slots : hook'[w].step = "stamp" => Accounted(OrderOf[hook'[w].event])
    PROVE  AccountInv'
BY DEF AccountInv, PlacedIsAnswered, SessionIsAccounted, StampedIsAccounted, Accounted

LEMMA AccountKeeps == AccountInv /\ [Next]_vars => AccountInv'
<1> SUFFICES ASSUME AccountInv, [Next]_vars PROVE AccountInv'
  OBVIOUS
<1>0. /\ IInv /\ TypeOK /\ SentIsAnswered /\ IInv' /\ Online \subseteq Orders
      /\ \A w \in Slots : hook[w].step = "stamp" => Accounted(OrderOf[hook[w].event])
  BY StepKeeps, CheckoutAssumption DEF AccountInv, IInv, SessionIsAccounted
<1>1. ASSUME NEW o \in Orders, PlaceOrder(o) \/ PlaceCrash(o) PROVE AccountInv'
  <2>1. /\ charges' = charges /\ stamped' = stamped /\ sent' = sent /\ hook' = hook
        /\ place[o] # "answered"
        /\ \A p \in Orders \ {o} : place'[p] = place[p] /\ row'[p] = row[p] /\ session'[p] = session[p]
        /\ row'[o] = "placed" => row[o] = "placed" \/ place'[o] = "answered"
        /\ o \in Online /\ place'[o] = "answered" => session'[o] = "initialized"
    BY <1>0, <1>1, PlaceOrderEffect DEF hookVars
  <2> QED
    BY <1>0, <2>1, AccountFrame
<1>2. ASSUME NEW o \in Orders, ReadForCancel(o) \/ Cancellation(o) \/ CancelCrash(o)
      PROVE  AccountInv'
  <2>1. /\ charges' = charges /\ stamped' = stamped /\ sent' = sent /\ hook' = hook
        /\ place' = place /\ session' = session
        /\ \A p \in Orders : row'[p] = "placed" => row[p] = "placed"
    <3>1. CASE ReadForCancel(o)
      BY <3>1 DEF ReadForCancel, placeVars, hookVars
    <3>2. CASE Cancellation(o) \/ CancelCrash(o)
      <4>1. /\ place' = place /\ session' = session /\ hookVars' = hookVars
            /\ row'[o] \in {row[o], "cancelled"} /\ \A p \in Orders \ {o} : row'[p] = row[p]
        BY <1>0, <3>2, CancelEffect
      <4> QED
        BY <4>1 DEF hookVars
    <3> QED
      BY <1>2, <3>1, <3>2
  <2> QED
    BY <1>0, <2>1, AccountFrame
<1>3. ASSUME NEW e \in Events, Attempt(e) PROVE AccountInv'
  <2>1. /\ charges' = charges /\ stamped' = stamped /\ sent' = sent \cup {e} /\ hook' = hook
        /\ place' = place /\ session' = session /\ row' = row
    BY <1>3 DEF Attempt, placeVars
  <2> QED
    BY <1>0, <2>1, AccountFrame
<1>4. ASSUME NEW w \in Slots, NEW e \in Events, Deliver(w, e) PROVE AccountInv'
  <2>1. /\ charges' = charges /\ stamped' = stamped /\ sent' = sent
        /\ place' = place /\ session' = session /\ row' = row
        /\ hook'[w].step = "record" /\ \A x \in Slots \ {w} : hook'[x] = hook[x]
    BY <1>0, <1>4 DEF Deliver, placeVars, TypeOK
  <2> QED
    BY <1>0, <2>1, AccountFrame
<1>5. ASSUME NEW w \in Slots, HandleWebhook(w) \/ WebhookFails(w) PROVE AccountInv'
  <2> DEFINE e == hook[w].event
             o == OrderOf[e]
  <2>1. /\ place' = place /\ sent' = sent /\ hook[w] # IdleHook
        /\ \A x \in Slots \ {w} : hook'[x] = hook[x]
        /\ hook'[w] # IdleHook => hook'[w].event = e
    BY <1>0, <1>5, WebhookEffect
  <2>2. o \in Online /\ place[o] = "answered"
    BY <1>0, <2>1, CheckoutAssumption DEF TypeOK, SentIsAnswered
  <2>3. CASE CommitReconcile(w)
    <3>1. /\ e \in sent /\ charges' = charges \cup {e} /\ stamped' = stamped
          /\ \A p \in Orders \ {o} : row'[p] = row[p] /\ session'[p] = session[p]
      BY <1>0, <2>3, ReconcileEffect DEF CommitReconcile, Reconcile
    <3>2. \A p \in Online : Accounted(p) \/ p = o => \E d \in charges' : OrderOf[d] = p
      BY <3>1 DEF Accounted
    <3>3. PlacedIsAnswered'
      BY <1>0, <2>1, <2>2, <3>1 DEF AccountInv, PlacedIsAnswered
    <3>4. SessionIsAccounted'
      <4>1. ASSUME NEW p \in Online, place'[p] = "answered"
            PROVE  session'[p] = "initialized" \/ \E d \in charges' : OrderOf[d] = p
        <5>1. session[p] = "initialized" \/ Accounted(p)
          BY <2>1, <4>1 DEF AccountInv, SessionIsAccounted
        <5> QED
          BY <1>0, <3>1, <3>2, <5>1
      <4>2. ASSUME NEW x \in Slots, hook'[x].step = "stamp"
            PROVE  \E d \in charges' : OrderOf[d] = OrderOf[hook'[x].event]
        <5>1. CASE x = w
          BY <2>1, <2>2, <3>2, <4>2, <5>1 DEF IdleHook
        <5>2. CASE x # w
          BY <1>0, <2>1, <3>1, <4>2, <5>2 DEF Accounted
        <5> QED
          BY <5>1, <5>2
      <4> QED
        BY <4>1, <4>2 DEF SessionIsAccounted, Accounted
    <3>5. StampedIsAccounted'
      BY <3>1 DEF AccountInv, StampedIsAccounted
    <3> QED
      BY <1>0, <3>3, <3>4, <3>5 DEF AccountInv
  <2>4. CASE MarkWebhookProcessed(w)
    <3>1. /\ charges' = charges /\ stamped' = stamped \cup {e} /\ row' = row /\ session' = session
          /\ hook[w].step = "stamp" /\ hook'[w].step = "idle"
      BY <1>0, <2>4 DEF MarkWebhookProcessed, placeVars, IdleHook, TypeOK
    <3>2. \E d \in charges : OrderOf[d] = o
      BY <1>0, <3>1 DEF Accounted
    <3>3. StampedIsAccounted'
      BY <3>1, <3>2 DEF AccountInv, StampedIsAccounted
    <3>4. SessionIsAccounted' /\ PlacedIsAnswered'
      BY <2>1, <3>1 DEF AccountInv, SessionIsAccounted, PlacedIsAnswered, Accounted
    <3> QED
      BY <1>0, <3>3, <3>4 DEF AccountInv
  <2>5. CASE RecordWebhookOrSkip(w) \/ WebhookFails(w)
    <3>1. /\ charges' = charges /\ stamped' = stamped /\ row' = row /\ session' = session
      BY <2>5 DEF RecordWebhookOrSkip, WebhookFails, placeVars
    <3>2. hook' = [hook EXCEPT ![w] = IdleHook] \/ hook' = [hook EXCEPT ![w].step = "read"]
      BY <2>5 DEF RecordWebhookOrSkip, WebhookFails
    <3>3. hook'[w] = IdleHook \/ hook'[w] = [hook[w] EXCEPT !.step = "read"]
      BY <1>0, <3>2 DEF TypeOK
    <3>4. hook[w] \in [step : {"record", "read", "trx", "stamp"}, event : Events, status : RowValues]
      BY <1>0, <2>1 DEF TypeOK, RowValues
    <3>5. hook'[w].step \in {"idle", "read"}
      BY <3>3, <3>4 DEF IdleHook
    <3> QED
      BY <1>0, <2>1, <3>1, <3>5, AccountFrame
  <2>6. CASE ReadOrderAndSession(w)
    <3>1. /\ charges' = charges /\ stamped' = stamped /\ row' = row /\ session' = session
          /\ hook[w].step = "read"
          /\ hook' = [hook EXCEPT ![w] = [hook[w] EXCEPT !.step = IF Active(o) THEN "trx" ELSE "stamp",
                                                          !.status = row[o]]]
      BY <2>6 DEF ReadOrderAndSession, placeVars
    <3>2. hook'[w] = [hook[w] EXCEPT !.step = IF Active(o) THEN "trx" ELSE "stamp", !.status = row[o]]
      BY <1>0, <3>1 DEF TypeOK
    <3>3. hook[w] \in [step : {"record", "read", "trx", "stamp"}, event : Events, status : RowValues]
      BY <1>0, <2>1 DEF TypeOK, RowValues
    <3> DEFINE to == IF Active(o) THEN "trx" ELSE "stamp"
    <3>4. hook'[w] = [step |-> to, event |-> e, status |-> row[o]]
      <4> HIDE DEF o, to
      <4> QED
        BY <3>2, <3>3 DEF o, to
    <3>5. hook'[w].event = e /\ hook'[w].step = to
      <4> HIDE DEF o, to
      <4> QED
        BY <3>4
    <3>6. hook'[w].step = "stamp" => Accounted(o)
      BY <2>2, <3>4 DEF AccountInv, SessionIsAccounted, Active
    <3> QED
      BY <1>0, <2>1, <3>1, <3>5, <3>6, AccountFrame
  <2> QED
    BY <1>5, <2>3, <2>4, <2>5, <2>6 DEF HandleWebhook
<1>6. CASE UNCHANGED vars
  BY <1>0, <1>6, AccountFrame DEF vars, placeVars, hookVars
<1> QED
  BY <1>1, <1>2, <1>3, <1>4, <1>5, <1>6 DEF Next

(* No late, duplicated or failed webhook is stamped as processed without a *)
(* charge on its order.                                                    *)
THEOREM StampedAlwaysAccounted == Spec => []StampedIsAccounted
<1>1. AccountInv => StampedIsAccounted
  BY DEF AccountInv
<1> QED
  BY <1>1, AccountInitial, AccountKeeps, PTL DEF Spec

-----------------------------------------------------------------------------
(* An order whose requests did not overlap.                                *)

LEMMA AloneInitial == Init => AloneInv
<1> SUFFICES ASSUME Init PROVE AloneInv
  OBVIOUS
<1>1. /\ \A o \in Orders : place[o] = "reserve" /\ cancel[o].step = "idle"
      /\ charges = {} /\ \A w \in Slots : hook[w] = IdleHook
  BY DEF Init, IdleCancel
<1> QED
  BY <1>1 DEF AloneInv, Undisturbed, OneAtATime, StillRead, StockHeld, About, Cancelling, Paid

(* What a step about another order leaves alone.                           *)
LEMMA UndisturbedFrame ==
    ASSUME NEW p \in Orders, Undisturbed(p), place'[p] = place[p], stock'[p] = stock[p],
           row'[p] = row[p], session'[p] = session[p], cancel'[p] = cancel[p],
           \A w \in Slots : About(w, p)' => hook'[w] = hook[w],
           Paid(p)' => Paid(p)
    PROVE  Undisturbed(p)'
<1>1. \A w \in Slots : About(w, p)' => About(w, p) /\ hook'[w] = hook[w]
  BY DEF About
<1>2. OneAtATime(p)'
  BY <1>1 DEF Undisturbed, OneAtATime, Cancelling
<1>3. StillRead(p)'
  BY <1>1 DEF Undisturbed, StillRead
<1>4. StockHeld(p)'
  BY DEF Undisturbed, StockHeld
<1> QED
  BY <1>2, <1>3, <1>4 DEF Undisturbed

(* A request that starts and overlaps with no other.                       *)
LEMMA StartsAlone ==
    ASSUME TypeOK, NEW o \in Orders, NoteOverlap(o)
    PROVE  /\ overlapped \subseteq overlapped'
           /\ o \notin overlapped' =>
                 /\ place[o] \in {"answered", "failed"} /\ ~Cancelling(o)
                 /\ \A w \in Slots : ~About(w, o)
BY DEF NoteOverlap, TypeOK, About, Cancelling

LEMMA AlonePlaceOrder ==
    ASSUME AccountInv, AloneInv, NEW o \in Orders, PlaceOrder(o) \/ PlaceCrash(o)
    PROVE  AloneInv'
<1>0. IInv /\ SentIsAnswered /\ charges \subseteq sent
  BY DEF AccountInv, IInv, PlacedIsAnswered
<1>1. /\ hook' = hook /\ charges' = charges /\ cancel' = cancel /\ overlapped' = overlapped
      /\ place[o] \notin {"answered", "failed"}
      /\ \A p \in Orders \ {o} : /\ place'[p] = place[p] /\ stock'[p] = stock[p]
                                 /\ row'[p] = row[p] /\ session'[p] = session[p]
      /\ StockHeld(o) => StockHeld(o)'
  BY <1>0, PlaceOrderEffect DEF hookVars
<1>2. \A w \in Slots : ~About(w, o)
  BY <1>0, <1>1 DEF About, SentIsAnswered
<1>3. ~Paid(o)
  BY <1>0, <1>1 DEF Paid, SentIsAnswered
<1>4. ASSUME NEW p \in Orders \ overlapped PROVE Undisturbed(p)'
  <2>1. Undisturbed(p)
    BY DEF AloneInv
  <2>2. CASE p # o
    BY <1>1, <2>1, <2>2, UndisturbedFrame DEF Paid
  <2>3. CASE p = o
    <3>1. ~Cancelling(o)
      BY <1>1, <2>1, <2>3 DEF Undisturbed, OneAtATime
    <3>2. ~Cancelling(o)' /\ ~Paid(o)' /\ \A w \in Slots : ~About(w, o)'
      BY <1>1, <1>2, <1>3, <3>1 DEF Cancelling, Paid, About
    <3> QED
      BY <1>1, <2>1, <2>3, <3>2 DEF Undisturbed, OneAtATime, StillRead, Cancelling
  <2> QED
    BY <2>2, <2>3
<1> QED
  BY <1>1, <1>4 DEF AloneInv

LEMMA AloneCancel ==
    ASSUME AccountInv, AloneInv, NEW o \in Orders,
           ReadForCancel(o) \/ Cancellation(o) \/ CancelCrash(o)
    PROVE  AloneInv'
<1>0. IInv /\ TypeOK
  BY DEF AccountInv, IInv
<1>1. CASE ReadForCancel(o)
  <2>1. /\ place' = place /\ stock' = stock /\ row' = row /\ session' = session
        /\ hook' = hook /\ charges' = charges /\ NoteOverlap(o)
        /\ cancel'[o].step = "commit" /\ \A p \in Orders \ {o} : cancel'[p] = cancel[p]
    BY <1>0, <1>1 DEF ReadForCancel, placeVars, hookVars, TypeOK
  <2>2. ASSUME NEW p \in Orders \ overlapped' PROVE Undisturbed(p)'
    <3>1. p \in Orders \ overlapped /\ Undisturbed(p)
      BY <1>0, <2>1, StartsAlone DEF AloneInv
    <3>2. CASE p # o
      BY <2>1, <3>1, <3>2, UndisturbedFrame DEF Paid
    <3>3. CASE p = o
      <4>1. place'[o] \in {"answered", "failed"} /\ \A w \in Slots : ~About(w, o)'
        BY <1>0, <2>1, <2>2, <3>3, StartsAlone DEF About
      <4> QED
        BY <2>1, <3>1, <3>3, <4>1 DEF Undisturbed, OneAtATime, StillRead, StockHeld, Paid
    <3> QED
      BY <3>2, <3>3
  <2> QED
    BY <2>2 DEF AloneInv
<1>2. CASE Cancellation(o) \/ CancelCrash(o)
  <2>1. /\ place' = place /\ session' = session /\ hook' = hook /\ charges' = charges
        /\ overlapped' = overlapped /\ Cancelling(o)
        /\ \A p \in Orders \ {o} : /\ stock'[p] = stock[p] /\ row'[p] = row[p]
                                   /\ cancel'[p] = cancel[p]
        /\ row'[o] \in {row[o], "cancelled"}
        /\ stock'[o] # stock[o] => cancel[o].step = "release" /\ row'[o] = row[o]
        /\ cancel'[o].step = "release" => row'[o] = "cancelled"
    BY <1>0, <1>2, CancelEffect DEF hookVars
  <2>2. ASSUME NEW p \in Orders \ overlapped PROVE Undisturbed(p)'
    <3>1. Undisturbed(p)
      BY DEF AloneInv
    <3>2. CASE p # o
      BY <2>1, <3>1, <3>2, UndisturbedFrame DEF Paid
    <3>3. CASE p = o
      <4>1. place'[o] \in {"answered", "failed"} /\ \A w \in Slots : ~About(w, o)'
        BY <2>1, <3>1, <3>3 DEF Undisturbed, OneAtATime, About
      <4>2. OneAtATime(o)' /\ StillRead(o)'
        BY <2>1, <4>1 DEF OneAtATime, StillRead
      <4>3. StockHeld(o)'
        BY <2>1, <3>1, <3>3 DEF Undisturbed, StillRead, StockHeld
      <4> QED
        BY <2>1, <3>1, <3>3, <4>2, <4>3 DEF Undisturbed, Paid
    <3> QED
      BY <3>2, <3>3
  <2> QED
    BY <2>1, <2>2 DEF AloneInv
<1> QED
  BY <1>1, <1>2

LEMMA AloneDeliver ==
    ASSUME AccountInv, AloneInv, NEW w \in Slots, NEW e \in Events, Deliver(w, e)
    PROVE  AloneInv'
<1>0. TypeOK /\ SentIsAnswered
  BY DEF AccountInv, IInv
<1>1. /\ place' = place /\ stock' = stock /\ row' = row /\ session' = session
      /\ cancel' = cancel /\ charges' = charges /\ NoteOverlap(OrderOf[e])
      /\ hook'[w] = [step |-> "record", event |-> e, status |-> NoRow]
      /\ \A x \in Slots \ {w} : hook'[x] = hook[x]
  BY <1>0 DEF Deliver, placeVars, TypeOK
<1>2. OrderOf[e] \in Orders /\ hook'[w].step = "record" /\ hook'[w].event = e
  BY <1>1, CheckoutAssumption
<1>3. ASSUME NEW p \in Orders \ overlapped' PROVE Undisturbed(p)'
  <2>1. p \in Orders \ overlapped /\ Undisturbed(p)
    BY <1>0, <1>1, <1>2, StartsAlone DEF AloneInv
  <2>2. CASE p # OrderOf[e]
    <3>1. \A x \in Slots : About(x, p)' => hook'[x] = hook[x]
      BY <1>1, <1>2, <2>2 DEF About
    <3> QED
      BY <1>1, <2>1, <3>1, UndisturbedFrame DEF Paid
  <2>3. CASE p = OrderOf[e]
    <3>1. ~Cancelling(p) /\ \A x \in Slots : ~About(x, p)
      BY <1>0, <1>1, <1>2, <1>3, <2>3, StartsAlone
    <3>2. ~Cancelling(p)' /\ \A x \in Slots : About(x, p)' => x = w
      BY <1>1, <3>1 DEF Cancelling, About
    <3>3. OneAtATime(p)'
      BY <3>2 DEF OneAtATime
    <3>4. StillRead(p)'
      BY <1>1, <1>2, <2>1, <3>2 DEF Undisturbed, StillRead
    <3> QED
      BY <1>1, <2>1, <3>3, <3>4 DEF Undisturbed, StockHeld, Paid
  <2> QED
    BY <2>2, <2>3
<1> QED
  BY <1>3 DEF AloneInv

LEMMA AloneWebhook ==
    ASSUME AccountInv, AloneInv, NEW w \in Slots, HandleWebhook(w) \/ WebhookFails(w)
    PROVE  AloneInv'
<1> DEFINE e == hook[w].event
<1>0. IInv /\ TypeOK /\ SentIsAnswered
  BY DEF AccountInv, IInv
<1>1. /\ place' = place /\ stock' = stock /\ cancel' = cancel /\ overlapped' = overlapped
      /\ hook[w] # IdleHook /\ \A x \in Slots \ {w} : hook'[x] = hook[x]
      /\ hook'[w] # IdleHook => hook'[w].event = e
      /\ \/ /\ row' = row /\ session' = session /\ charges' = charges
            /\ hook'[w].step = "trx" => Active(OrderOf[e]) /\ hook'[w].status = row[OrderOf[e]]
         \/ CommitReconcile(w) /\ hook'[w].step = "stamp"
  BY <1>0, WebhookEffect
<1>2. PICK o \in Orders : o = OrderOf[e]
  BY <1>0, <1>1, CheckoutAssumption DEF TypeOK
<1>3. \A x \in Slots, p \in Orders : About(x, p)' => About(x, p) /\ (p # o => hook'[x] = hook[x])
  BY <1>1, <1>2 DEF About
<1>4. About(w, o)
  BY <1>1, <1>2 DEF About
<1>5. ASSUME NEW p \in Orders \ overlapped, p # o PROVE Undisturbed(p)'
  <2>1. Undisturbed(p)
    BY DEF AloneInv
  <2>2. row'[p] = row[p] /\ session'[p] = session[p] /\ (Paid(p)' => Paid(p))
    <3>1. CASE CommitReconcile(w)
      BY <1>0, <1>2, <1>5, <3>1, ReconcileEffect DEF Paid
    <3>2. CASE ~CommitReconcile(w)
      BY <1>1, <3>2 DEF Paid
    <3> QED
      BY <3>1, <3>2
  <2> QED
    BY <1>1, <1>3, <1>5, <2>1, <2>2, UndisturbedFrame
<1>6. ASSUME o \notin overlapped PROVE Undisturbed(o)'
  <2>1. Undisturbed(o)
    BY <1>6 DEF AloneInv
  <2>2. ~Cancelling(o) /\ \A x \in Slots : About(x, o)' => x = w
    BY <1>3, <1>4, <2>1 DEF Undisturbed, OneAtATime
  <2>3. OneAtATime(o)'
    BY <1>1, <2>2 DEF OneAtATime, Cancelling
  <2>4. CASE row' = row /\ session' = session /\ charges' = charges
                 /\ (hook'[w].step = "trx" => Active(o) /\ hook'[w].status = row[o])
    <3>1. StillRead(o)'
      BY <1>1, <2>1, <2>2, <2>4 DEF Undisturbed, StillRead, Active
    <3> QED
      BY <1>1, <2>1, <2>3, <2>4, <3>1 DEF Undisturbed, StockHeld, Paid
  <2>5. CASE CommitReconcile(w) /\ hook'[w].step = "stamp"
    <3>1. /\ o \in Online /\ hook[w].step = "trx" /\ charges' = charges \cup {e}
          /\ session'[o] = IF e \in Succeeds THEN "captured" ELSE "failed"
          /\ row'[o] = IF e \in Succeeds /\ hook[w].status = "pending_payment"
                       THEN "placed" ELSE row[o]
      BY <1>0, <1>2, <2>5, ReconcileEffect
    <3>2. session[o] = "initialized" /\ hook[w].status = row[o]
      BY <1>4, <2>1, <3>1 DEF Undisturbed, StillRead
    <3>3. ~Paid(o)
      BY <2>1, <3>1, <3>2 DEF Undisturbed
    <3>4. Paid(o)' => session'[o] = "captured"
      BY <3>1, <3>3 DEF Paid
    <3>5. row'[o] # "cancelled" => row[o] # "cancelled"
      BY <3>1, <3>2
    <3>6. StockHeld(o)'
      BY <1>1, <2>1, <3>5 DEF Undisturbed, StockHeld
    <3>7. StillRead(o)'
      BY <1>1, <2>2, <2>5 DEF StillRead, Cancelling
    <3> QED
      BY <2>3, <3>4, <3>6, <3>7 DEF Undisturbed
  <2> QED
    BY <1>1, <1>2, <2>4, <2>5
<1> QED
  BY <1>1, <1>5, <1>6 DEF AloneInv

LEMMA AloneKeeps == AccountInv /\ AloneInv /\ [Next]_vars => AloneInv'
<1> SUFFICES ASSUME AccountInv, AloneInv, [Next]_vars PROVE AloneInv'
  OBVIOUS
<1>1. ASSUME NEW e \in Events, Attempt(e) PROVE AloneInv'
  <2>1. /\ placeVars' = placeVars /\ row' = row /\ hook' = hook /\ charges' = charges
        /\ cancel' = cancel /\ overlapped' = overlapped
    BY <1>1 DEF Attempt
  <2> QED
    BY <2>1, UndisturbedFrame DEF AloneInv, placeVars, Paid
<1>2. CASE UNCHANGED vars
  BY <1>2, UndisturbedFrame DEF AloneInv, vars, placeVars, hookVars, Paid
<1> QED
  BY <1>1, <1>2, AlonePlaceOrder, AloneCancel, AloneDeliver, AloneWebhook DEF Next

(* Both at once, over every behaviour.                                     *)
THEOREM AloneInvariant == Spec => [](AccountInv /\ AloneInv)
BY AccountInitial, AccountKeeps, AloneInitial, AloneKeeps, PTL DEF Spec

(* Whatever fails: an order whose requests never overlapped has its stock  *)
(* reserved while the restaurant sees it as placed.                        *)
THEOREM PlacedAlwaysHoldsStock == Spec => []PlacedHoldsStock
<1>1. AccountInv /\ AloneInv => PlacedHoldsStock
  BY DEF AccountInv, PlacedIsAnswered, AloneInv, Undisturbed, StockHeld, PlacedHoldsStock
<1> QED
  BY <1>1, AloneInvariant, PTL

(* Whatever fails: an order whose requests never overlapped has captured   *)
(* its session if one of its charges succeeded.                            *)
THEOREM SucceededAlwaysCaptured == Spec => []SucceededIsCaptured
<1>1. AloneInv => SucceededIsCaptured
  BY CheckoutAssumption DEF AloneInv, Undisturbed, SucceededIsCaptured
<1> QED
  BY <1>1, AloneInvariant, PTL
=============================================================================
