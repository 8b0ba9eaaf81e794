------------------------------ MODULE Checkout ------------------------------
(***************************************************************************)
(* How an order comes to be placed and paid: placeOrder of                 *)
(* order.service.ts (reserve stock in core, insert the order, open a       *)
(* payment session, undo on failure), initOnlinePayment of                 *)
(* payment.service.ts, processKashierWebhook of kashier-webhook.service.ts *)
(* and the customer's cancellation.                                        *)
(*                                                                         *)
(* placeOrder is a saga without a coordinator: each step is a call that    *)
(* may fail, and a process that dies leaves the steps it has done.  The    *)
(* payment provider delivers each webhook until it is answered with 200,   *)
(* and may deliver it twice at once.                                       *)
(*                                                                         *)
(* Faults = FALSE: no call fails and no process dies.                      *)
(* The history variable overlapped holds the orders two of whose requests  *)
(* (the placement, webhooks, the cancellation) were ever in progress at    *)
(* once.                                                                   *)
(* A transaction that fails is assumed to leave nothing behind.  Kashier   *)
(* is assumed to capture at most one payment of a session.                 *)
(***************************************************************************)
EXTENDS OrderStatus, Naturals

CONSTANTS
    Orders,    \* publicIds minted by placeOrder, one per request
    Online,    \* the orders paid online; the others are COD
    Events,    \* payment attempts at Kashier, by transactionId
    OrderOf,   \* the order an attempt pays
    Succeeds,  \* the attempts that capture the money
    Slots,     \* webhook deliveries in flight at once
    NoRow, NoEvent,
    Faults

ASSUME CheckoutAssumption ==
    /\ Online \subseteq Orders
    /\ OrderOf \in [Events -> Online]
    /\ Succeeds \subseteq Events
    /\ \A d, e \in Succeeds : OrderOf[d] = OrderOf[e] => d = e
    /\ NoRow \notin Statuses /\ NoEvent \notin Events
    /\ Faults \in BOOLEAN

VARIABLES
    place,     \* next step of each order's placeOrder call
    stock,     \* core's reservation under the order's key
    row,       \* orders.status, or NoRow
    session,   \* payment_sessions.status, or NoRow
    placed,    \* how many order.placed rows the outbox has per order
    charges,   \* attempts with a charge row, succeeded or failed
    sent,      \* attempts made, whose webhook Kashier delivers
    acked,     \* attempts whose webhook was answered with 200
    recorded,  \* attempts with a payment_webhook_events row
    stamped,   \* those with processed_at and no process_error
    hook,      \* the webhook deliveries in flight
    cancel,    \* the customer's cancellation of each order
    overlapped, \* history: orders with two requests in progress at once
    faulted    \* history: a call has failed or a process has died

placeVars == <<place, stock, session>>
hookVars == <<charges, sent, acked, recorded, stamped, hook>>
vars == <<place, stock, row, session, placed, hookVars, cancel, overlapped, faulted>>

PlaceSteps == {"reserve", "insert", "openSession", "void", "release", "answered", "failed"}

IdleHook == [step |-> "idle", event |-> NoEvent, status |-> NoRow]
IdleCancel == [step |-> "idle", from |-> NoRow]

Init ==
    /\ place = [o \in Orders |-> "reserve"]
    /\ stock = [o \in Orders |-> "none"]
    /\ row = [o \in Orders |-> NoRow]
    /\ session = [o \in Orders |-> NoRow]
    /\ placed = [o \in Orders |-> 0]
    /\ charges = {} /\ sent = {} /\ acked = {} /\ recorded = {} /\ stamped = {}
    /\ hook = [w \in Slots |-> IdleHook]
    /\ cancel = [o \in Orders |-> IdleCancel]
    /\ overlapped = {} /\ faulted = FALSE

(* A request about the order starts while another one is in progress.      *)
NoteOverlap(o) ==
    overlapped' = IF \/ place[o] \notin {"answered", "failed"}
                     \/ \E w \in Slots : hook[w] # IdleHook /\ OrderOf[hook[w].event] = o
                     \/ cancel[o].step \in {"commit", "release"}
                  THEN overlapped \cup {o} ELSE overlapped

Fault == Faults /\ faulted' = TRUE

PlaceGoto(o, from, to) ==
    /\ place[o] = from
    /\ place' = [place EXCEPT ![o] = to]

-----------------------------------------------------------------------------
(* placeOrder, after its read-only checks.                                 *)

(* The call to core, up to three attempts under one idempotency key: it    *)
(* succeeds, it is refused (409), or core cannot be reached, and then the  *)
(* reservation may or may not have been made.  Only success is undone      *)
(* later: the call is outside the try block.                               *)
ReserveStock(o) ==
    /\ \/ /\ PlaceGoto(o, "reserve", "insert")
          /\ stock' = [stock EXCEPT ![o] = "reserved"]
          /\ UNCHANGED faulted
       \/ /\ PlaceGoto(o, "reserve", "failed")
          /\ UNCHANGED <<stock, faulted>>
       \/ /\ Fault
          /\ PlaceGoto(o, "reserve", "failed")
          /\ stock' = [stock EXCEPT ![o] = "reserved"]
    /\ UNCHANGED <<row, session, placed, hookVars, cancel, overlapped>>

(* Mutant of InsertOrder: order.placed whatever the payment method. *)
InsertAnnounced(o) ==
    /\ PlaceGoto(o, "insert", IF o \in Online THEN "openSession" ELSE "answered")
    /\ row' = [row EXCEPT ![o] = IF o \in Online THEN "pending_payment" ELSE "placed"]
    /\ placed' = [placed EXCEPT ![o] = 1]
    /\ UNCHANGED <<stock, session, hookVars, cancel, overlapped, faulted>>

(* One transaction: the order, its items and, for a COD order, order.placed. *)
InsertOrder(o) ==
    /\ PlaceGoto(o, "insert", IF o \in Online THEN "openSession" ELSE "answered")
    /\ row' = [row EXCEPT ![o] = IF o \in Online THEN "pending_payment" ELSE "placed"]
    /\ placed' = IF o \in Online THEN placed ELSE [placed EXCEPT ![o] = @ + 1]
    /\ UNCHANGED <<stock, session, hookVars, cancel, overlapped, faulted>>

InsertFails(o) ==
    /\ Fault
    /\ PlaceGoto(o, "insert", "release")
    /\ UNCHANGED <<stock, row, session, placed, hookVars, cancel, overlapped>>

(* initOnlinePayment: an active session is reused, else Kashier is asked   *)
(* for one and its row is inserted.                                        *)
Active(o) == session[o] = "initialized"

CreateSession(o) == session' = [session EXCEPT ![o] = "initialized"]

OpenSession(o) ==
    /\ PlaceGoto(o, "openSession", "answered")
    /\ IF Active(o) THEN UNCHANGED session ELSE CreateSession(o)
    /\ UNCHANGED <<stock, row, placed, hookVars, cancel, overlapped, faulted>>

OpenSessionFails(o) ==
    /\ Fault
    /\ PlaceGoto(o, "openSession", "void")
    /\ UNCHANGED <<stock, row, session, placed, hookVars, cancel, overlapped>>

(* voidOrderSafe: an unconditional write whose failure is swallowed. *)
VoidOrderSafe(o) ==
    /\ PlaceGoto(o, "void", "release")
    /\ row' \in {row, [row EXCEPT ![o] = "cancelled"]}
    /\ UNCHANGED <<stock, session, placed, hookVars, cancel, overlapped, faulted>>

(* releaseStockSafe: a failure is swallowed too. *)
Release(o) ==
    \/ stock' = [stock EXCEPT ![o] = "released"] /\ UNCHANGED faulted
    \/ UNCHANGED stock /\ Fault

ReleaseStockSafe(o) ==
    /\ PlaceGoto(o, "release", "failed")
    /\ Release(o)
    /\ UNCHANGED <<row, session, placed, hookVars, cancel, overlapped>>

PlaceCrash(o) ==
    /\ Fault /\ place[o] \notin {"answered", "failed"}
    /\ place' = [place EXCEPT ![o] = "failed"]
    /\ UNCHANGED <<stock, row, session, placed, hookVars, cancel, overlapped>>

-----------------------------------------------------------------------------
(* Kashier: an attempt on the page the customer was sent to, and the       *)
(* delivery of its webhook until it is answered with 200.                  *)
Attempt(e) ==
    /\ place[OrderOf[e]] = "answered"
    /\ e \notin sent
    /\ \A s \in Succeeds \cap sent : OrderOf[s] # OrderOf[e]
    /\ sent' = sent \cup {e}
    /\ UNCHANGED <<placeVars, row, placed, charges, acked, recorded, stamped, hook, cancel, overlapped, faulted>>

Deliver(w, e) ==
    /\ e \in sent \ acked
    /\ hook[w] = IdleHook
    /\ hook' = [hook EXCEPT ![w] = [step |-> "record", event |-> e, status |-> NoRow]]
    /\ NoteOverlap(OrderOf[e])
    /\ UNCHANGED <<placeVars, row, placed, charges, sent, acked, recorded, stamped, cancel, faulted>>

(* The unique index on the provider's event id: the first delivery goes    *)
(* on, every other one is answered with 200 at once.                       *)
RecordWebhookOrSkip(w) ==
    LET e == hook[w].event
    IN  /\ hook[w].step = "record"
        /\ IF e \in recorded
           THEN /\ acked' = acked \cup {e}
                /\ hook' = [hook EXCEPT ![w] = IdleHook]
                /\ UNCHANGED recorded
           ELSE /\ recorded' = recorded \cup {e}
                /\ hook' = [hook EXCEPT ![w].step = "read"]
                /\ UNCHANGED acked
        /\ UNCHANGED <<placeVars, row, placed, charges, sent, stamped, cancel, overlapped, faulted>>

(* Mutant of ReadOrderAndSession: the session is found whatever its status. *)
ReadAnySession(w) ==
    LET o == OrderOf[hook[w].event]
    IN  /\ hook[w].step = "read"
        /\ hook' = [hook EXCEPT ![w].step = "trx", ![w].status = row[o]]
        /\ UNCHANGED <<placeVars, row, placed, charges, sent, acked, recorded, stamped, cancel, overlapped, faulted>>

(* The order and its active session are read before the transaction.       *)
(* Without an active session there is nothing to reconcile.  The two reads *)
(* are one step: a change between them could as well come after both.      *)
ReadOrderAndSession(w) ==
    LET o == OrderOf[hook[w].event]
    IN  /\ hook[w].step = "read"
        /\ hook' = [hook EXCEPT ![w].step = IF Active(o) THEN "trx" ELSE "stamp",
                                ![w].status = row[o]]
        /\ UNCHANGED <<placeVars, row, placed, charges, sent, acked, recorded, stamped, cancel, overlapped, faulted>>

(* The charge's key is the attempt's transactionId, and is unique. *)
CreateTransaction(e) == e \notin charges /\ charges' = charges \cup {e}

UpdateSession(o, status) == session' = [session EXCEPT ![o] = status]

(* One transaction: the session, the charge (unique per attempt), its      *)
(* event, and when places holds the order's placement.                     *)
Reconcile(w, places) ==
    LET e == hook[w].event
        o == OrderOf[e]
    IN  /\ hook[w].step = "trx"
        /\ UpdateSession(o, IF e \in Succeeds THEN "captured" ELSE "failed")
        /\ CreateTransaction(e)
        /\ row' = IF places THEN [row EXCEPT ![o] = "placed"] ELSE row
        /\ placed' = IF places THEN [placed EXCEPT ![o] = @ + 1] ELSE placed
        /\ hook' = [hook EXCEPT ![w].step = "stamp"]
        /\ UNCHANGED <<place, stock, sent, acked, recorded, stamped, cancel, overlapped, faulted>>

(* Mutants of CommitReconcile: the outcome is not looked at; the status    *)
(* that was read is not; a captured order stays pending.                   *)
ReconcileAnyOutcome(w) == Reconcile(w, hook[w].status = "pending_payment")
ReconcileAnyStatus(w) == Reconcile(w, hook[w].event \in Succeeds)
ReconcileWithoutPlacing(w) == Reconcile(w, FALSE)

(* A captured payment places the order if it was read as pending.          *)
CommitReconcile(w) ==
    Reconcile(w, hook[w].event \in Succeeds /\ hook[w].status = "pending_payment")

(* processed_at without an error, then 200. *)
MarkWebhookProcessed(w) ==
    /\ hook[w].step = "stamp"
    /\ stamped' = stamped \cup {hook[w].event}
    /\ acked' = acked \cup {hook[w].event}
    /\ hook' = [hook EXCEPT ![w] = IdleHook]
    /\ UNCHANGED <<placeVars, row, placed, charges, sent, recorded, cancel, overlapped, faulted>>

(* Mutant of WebhookFails: the catch block stamps no error. *)
WebhookFailsSilently(w) ==
    /\ Fault /\ hook[w] # IdleHook
    /\ stamped' = stamped \cup {hook[w].event}
    /\ hook' = [hook EXCEPT ![w] = IdleHook]
    /\ UNCHANGED <<placeVars, row, placed, charges, sent, acked, recorded, cancel, overlapped>>

(* The reconciliation throws, the error is stamped and 500 answered; or    *)
(* the process dies, which the database does not tell from it.             *)
WebhookFails(w) ==
    /\ Fault /\ hook[w] # IdleHook
    /\ hook' = [hook EXCEPT ![w] = IdleHook]
    /\ UNCHANGED <<placeVars, row, placed, charges, sent, acked, recorded, stamped, cancel, overlapped>>

-----------------------------------------------------------------------------
(* The customer's PATCH to cancelled, once per order: updateStatus.        *)
ReadForCancel(o) ==
    /\ cancel[o].step = "idle"
    /\ row[o] # NoRow
    /\ AssertTransition(row[o], "cancelled",
          [actor |-> "customer", reason |-> TRUE, acceptedAt |-> FALSE, inWindow |-> TRUE])
    /\ cancel' = [cancel EXCEPT ![o] = [step |-> "commit", from |-> row[o]]]
    /\ NoteOverlap(o)
    /\ UNCHANGED <<placeVars, row, placed, hookVars, faulted>>

CommitCancel(o) ==
    /\ cancel[o].step = "commit"
    /\ row' = [row EXCEPT ![o] = "cancelled"]
    /\ cancel' = [cancel EXCEPT ![o].step =
                    IF cancel[o].from \in StockReleaseEligible THEN "release" ELSE "done"]
    /\ UNCHANGED <<placeVars, placed, hookVars, overlapped, faulted>>

ReleaseCancelled(o) ==
    /\ cancel[o].step = "release"
    /\ Release(o)
    /\ cancel' = [cancel EXCEPT ![o].step = "done"]
    /\ UNCHANGED <<place, session, row, placed, hookVars, overlapped>>

CancelCrash(o) ==
    /\ Fault /\ cancel[o].step \in {"commit", "release"}
    /\ cancel' = [cancel EXCEPT ![o].step = "done"]
    /\ UNCHANGED <<placeVars, row, placed, hookVars, overlapped>>

-----------------------------------------------------------------------------
PlaceOrder(o) ==
    \/ ReserveStock(o) \/ InsertOrder(o) \/ InsertFails(o)
    \/ OpenSession(o) \/ OpenSessionFails(o)
    \/ VoidOrderSafe(o) \/ ReleaseStockSafe(o)

HandleWebhook(w) ==
    \/ RecordWebhookOrSkip(w) \/ ReadOrderAndSession(w)
    \/ CommitReconcile(w) \/ MarkWebhookProcessed(w)

Cancellation(o) == CommitCancel(o) \/ ReleaseCancelled(o)

Next ==
    \/ \E o \in Orders : PlaceOrder(o) \/ PlaceCrash(o)
                         \/ ReadForCancel(o) \/ Cancellation(o) \/ CancelCrash(o)
    \/ \E e \in Events : Attempt(e)
    \/ \E w \in Slots : \/ \E e \in Events : Deliver(w, e)
                        \/ HandleWebhook(w) \/ WebhookFails(w)

Spec == Init /\ [][Next]_vars

(* A request that was started runs on, and Kashier keeps delivering a      *)
(* webhook that was not answered with 200.                                 *)
Fairness ==
    /\ \A o \in Orders : WF_vars(PlaceOrder(o)) /\ WF_vars(Cancellation(o))
    /\ \A w \in Slots : WF_vars(HandleWebhook(w))
    /\ \A e \in Events : WF_vars(\E w \in Slots : Deliver(w, e))

FairSpec == Spec /\ Fairness

-----------------------------------------------------------------------------
(* Properties                                                              *)

TypeOK ==
    /\ place \in [Orders -> PlaceSteps]
    /\ stock \in [Orders -> {"none", "reserved", "released"}]
    /\ row \in [Orders -> {NoRow, "pending_payment", "placed", "cancelled"}]
    /\ session \in [Orders -> {NoRow, "initialized", "captured", "failed"}]
    /\ placed \in [Orders -> 0..1]
    /\ charges \subseteq Events /\ sent \subseteq Events /\ acked \subseteq Events
    /\ recorded \subseteq Events /\ stamped \subseteq Events
    /\ hook \in [Slots -> {IdleHook} \cup
                   [step : {"record", "read", "trx", "stamp"}, event : Events,
                    status : {NoRow, "pending_payment", "placed", "cancelled"}]]
    /\ cancel \in [Orders -> [step : {"idle", "commit", "release", "done"},
                              from : {NoRow, "pending_payment", "placed", "cancelled"}]]
    /\ overlapped \subseteq Orders /\ faulted \in BOOLEAN

Paid(o) == \E e \in charges \cap Succeeds : OrderOf[e] = o

(* Whatever fails and overlaps: the restaurant never sees an online order  *)
(* as placed before its money was captured and booked, late, duplicated    *)
(* and failed webhooks included.                                           *)
PlacedIsPaid == \A o \in Online : row[o] = "placed" => Paid(o)

(* Whatever fails and overlaps: analytics hears once of a placed order     *)
(* (docs/api-contracts.md:627: never of one still pending).                *)
PlacedIsAnnounced ==
    \A o \in Orders : /\ row[o] = "placed" => placed[o] = 1
                      /\ row[o] = "pending_payment" => placed[o] = 0

(* Whatever fails and overlaps: a webhook stamped as processed without an  *)
(* error left a charge row on its order, its own or that of the attempt    *)
(* that had settled the session before it.                                 *)
StampedIsAccounted ==
    \A e \in stamped : \E d \in charges : OrderOf[d] = OrderOf[e]

(* An order whose requests did not overlap, whatever failed: what the      *)
(* kitchen will cook has its stock reserved.                               *)
PlacedHoldsStock ==
    \A o \in Orders \ overlapped : row[o] = "placed" => stock[o] = "reserved"

(* An order whose requests did not overlap: payments.md:148, a charge      *)
(* cannot be succeeded unless its session is captured.                     *)
SucceededIsCaptured ==
    \A o \in Online \ overlapped : Paid(o) => session[o] = "captured"

(* As long as nothing has failed: a captured payment, the order's first    *)
(* attempt, places its order in the end, unless the customer cancelled it. *)
PaidIsPlaced ==
    <>[](\/ faulted
         \/ \A e \in sent \cap Succeeds :
               \/ row[OrderOf[e]] \in {"placed", "cancelled"}
               \/ \E d \in sent \ Succeeds : OrderOf[d] = OrderOf[e])
=============================================================================
