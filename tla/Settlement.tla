----------------------------- MODULE Settlement -----------------------------
(***************************************************************************)
(* The money of a delivered order: settleDelivered of                      *)
(* settlement.service.ts and recordPayout of finance.service.ts, over the  *)
(* tables orders (status, commission), transactions, restaurant_balances   *)
(* and agent_earnings.                                                     *)
(*                                                                         *)
(* settleDelivered reads the order, fetches the branch over HTTP and only  *)
(* then opens its transaction, without a lock that spans the three.  The   *)
(* transaction is one step: its first statement updates the order's row,   *)
(* so two settlements of one order write one after the other.              *)
(*                                                                         *)
(* The history variable overlapped holds the orders two of whose delivery  *)
(* requests were ever in flight together.  An account is a (restaurant,    *)
(* currency) pair, the key of restaurant_balances.                         *)
(***************************************************************************)
EXTENDS Integers, FiniteSetsExt

CONSTANTS
    Orders,       \* orders picked up by their agents
    Accounts,     \* keys of restaurant_balances
    AccountOf,    \* the account an order credits
    Subtotal, DeliveryFee, ServiceFee,  \* columns of each order
    Cod,          \* the orders paid in cash
    BpsValues,    \* commissionBps a branch fetch may return
    ShareBps,     \* AGENT_EARNING_SHARE_BPS
    Keys,         \* Idempotency-Key values of payouts
    Amounts,      \* amounts an admin may pay out
    MaxInt,       \* largest value of the INT column balance
    Deliveries,   \* slots: delivery requests in flight
    NoOrder, NoRow

(* A rate in basis points; 10000 is the whole.  That the commission rate   *)
(* core returns and the configured share are such rates is assumed: the    *)
(* service checks neither.                                                 *)
Bps == 0..10000

ASSUME SettlementAssumption ==
    /\ AccountOf \in [Orders -> Accounts]
    /\ Subtotal \in [Orders -> Nat] /\ DeliveryFee \in [Orders -> Nat]
    /\ ServiceFee \in [Orders -> Nat]
    /\ Cod \subseteq Orders
    /\ BpsValues \subseteq Bps /\ ShareBps \in Bps
    /\ Amounts \subseteq Nat \ {0}
    /\ MaxInt \in Nat
    /\ NoOrder \notin Orders /\ NoRow \notin Nat
    /\ NoRow \notin [account : Accounts, amount : Amounts]

TxTypes == {"cod_collection", "commission", "service_fee", "delivery_fee"}

VARIABLES
    status,      \* "picked" or "delivered"
    commission,  \* orders.commission
    orderTx,     \* transactions of an order, by type: amount or NoRow
    payoutTx,    \* payout transactions by idempotency key, or NoRow
    balance,     \* restaurant_balances
    earning,     \* agent_earnings by order: amount or NoRow
    delivered,   \* how many order.delivered rows the outbox has per order
    dlv,         \* the delivery requests in flight
    overlapped   \* history: orders delivered by two requests at once

tables == <<status, commission, orderTx, payoutTx, balance, earning, delivered>>
vars == <<tables, dlv, overlapped>>

(* Math.floor(amount * bps / 10000) *)
Share(amount, bps) == (amount * bps) \div 10000

Idle == [step |-> "idle", order |-> NoOrder, commission |-> 0]

InFlight(d) == dlv[d].step # "idle"

Init ==
    /\ status = [o \in Orders |-> "picked"]
    /\ commission = [o \in Orders |-> 0]
    /\ orderTx = [o \in Orders |-> [t \in TxTypes |-> NoRow]]
    /\ payoutTx = [k \in Keys |-> NoRow]
    /\ balance = [acc \in Accounts |-> 0]
    /\ earning = [o \in Orders |-> NoRow]
    /\ delivered = [o \in Orders |-> 0]
    /\ dlv = [d \in Deliveries |-> Idle]
    /\ overlapped = {}

-----------------------------------------------------------------------------
StartDelivery(d, o) ==
    /\ ~InFlight(d)
    /\ dlv' = [dlv EXCEPT ![d] = [step |-> "fetch", order |-> o, commission |-> 0]]
    /\ overlapped' = IF \E e \in Deliveries : dlv[e].order = o
                     THEN overlapped \cup {o} ELSE overlapped
    /\ UNCHANGED tables

(* Mutant of ReadPicked: the guard on the status is lost. *)
ReadAnyStatus(d, o) == StartDelivery(d, o)

(* The read before the transaction: the caller is the order's agent and    *)
(* the order is picked.                                                    *)
ReadPicked(d, o) == status[o] = "picked" /\ StartDelivery(d, o)

(* The branch fetch; a failed one leaves the commission at 0. *)
FetchBranch(d, bps) ==
    /\ dlv[d].step = "fetch"
    /\ dlv' = [dlv EXCEPT ![d].step = "trx",
                          ![d].commission = Share(Subtotal[dlv[d].order], bps)]
    /\ UNCHANGED <<tables, overlapped>>

(* Mutant of InsertIgnore: ON CONFLICT DO UPDATE. *)
InsertOverwrite(row, amount) == amount

(* INSERT ... ON CONFLICT DO NOTHING *)
InsertIgnore(row, amount) == IF row = NoRow THEN amount ELSE row

(* The transaction rows of a settled order; each has its own unique key.   *)
TxRows(o, fee) ==
    [t \in TxTypes |->
        CASE t = "cod_collection" /\ o \in Cod ->
                InsertIgnore(orderTx[o][t], Subtotal[o] + DeliveryFee[o] + ServiceFee[o])
          [] t = "commission" /\ fee > 0 -> InsertIgnore(orderTx[o][t], fee)
          [] t = "service_fee" /\ ServiceFee[o] > 0 -> InsertIgnore(orderTx[o][t], ServiceFee[o])
          [] t = "delivery_fee" /\ DeliveryFee[o] > 0 -> InsertIgnore(orderTx[o][t], DeliveryFee[o])
          [] OTHER -> orderTx[o][t]]

(* The balance, within what its INT column holds. *)
UpsertIncrement(acc, delta) ==
    /\ balance[acc] + delta <= MaxInt
    /\ balance' = [balance EXCEPT ![acc] = @ + delta]

InsertEarning(o) ==
    earning' = [earning EXCEPT ![o] = InsertIgnore(@, Share(DeliveryFee[o], ShareBps))]

CommitSettlement(d) ==
    LET o == dlv[d].order
        fee == dlv[d].commission
    IN  /\ dlv[d].step = "trx"
        /\ commission' = [commission EXCEPT ![o] = fee]
        /\ orderTx' = [orderTx EXCEPT ![o] = TxRows(o, fee)]
        /\ UpsertIncrement(AccountOf[o], Subtotal[o] - fee)
        /\ InsertEarning(o)
        /\ status' = [status EXCEPT ![o] = "delivered"]
        /\ delivered' = [delivered EXCEPT ![o] = @ + 1]
        /\ dlv' = [dlv EXCEPT ![d] = Idle]
        /\ UNCHANGED <<payoutTx, overlapped>>

(* The request dies, or its transaction is rolled back: a lost connection, *)
(* or an increment the balance column cannot hold.                         *)
AbortSettlement(d) ==
    /\ InFlight(d)
    /\ dlv' = [dlv EXCEPT ![d] = Idle]
    /\ UNCHANGED <<tables, overlapped>>

-----------------------------------------------------------------------------
(* Mutant of DecrementIfSufficient: no floor in the WHERE clause. *)
DecrementAlways(acc, amount) ==
    balance' = [balance EXCEPT ![acc] = @ - amount]

(* recordPayout, one transaction: the conditional decrement, then the      *)
(* insert under the payout's key; a duplicate key rolls both back.         *)
DecrementIfSufficient(acc, amount) ==
    /\ balance[acc] >= amount
    /\ balance' = [balance EXCEPT ![acc] = @ - amount]

(* Mutant of RecordPayout: the key is not unique. *)
RecordPayoutAgain(k, acc, amount) ==
    /\ DecrementIfSufficient(acc, amount)
    /\ payoutTx' = [payoutTx EXCEPT ![k] = [account |-> acc, amount |-> amount]]
    /\ UNCHANGED <<status, commission, orderTx, earning, delivered, dlv, overlapped>>

RecordPayout(k, acc, amount) ==
    /\ DecrementIfSufficient(acc, amount)
    /\ payoutTx[k] = NoRow
    /\ payoutTx' = [payoutTx EXCEPT ![k] = [account |-> acc, amount |-> amount]]
    /\ UNCHANGED <<status, commission, orderTx, earning, delivered, dlv, overlapped>>

Next ==
    \/ \E d \in Deliveries :
          \/ \E o \in Orders : ReadPicked(d, o)
          \/ \E bps \in BpsValues \cup {0} : FetchBranch(d, bps)
          \/ CommitSettlement(d)
          \/ AbortSettlement(d)
    \/ \E k \in Keys, acc \in Accounts, amount \in Amounts : RecordPayout(k, acc, amount)

Spec == Init /\ [][Next]_vars

-----------------------------------------------------------------------------
(* Properties                                                              *)

Settlements ==
    [step : {"fetch", "trx"}, order : Orders, commission : Nat]

TypeOK ==
    /\ status \in [Orders -> {"picked", "delivered"}]
    /\ commission \in [Orders -> Nat]
    /\ orderTx \in [Orders -> [TxTypes -> Nat \cup {NoRow}]]
    /\ payoutTx \in [Keys -> [account : Accounts, amount : Amounts] \cup {NoRow}]
    /\ balance \in [Accounts -> Int]
    /\ earning \in [Orders -> Nat \cup {NoRow}]
    /\ delivered \in [Orders -> Nat]
    /\ dlv \in [Deliveries -> {Idle} \cup Settlements]
    /\ overlapped \subseteq Orders

(* Whatever overlaps: docs/business-logic/restaurant-finance.md:91, the    *)
(* balance never goes negative, whichever payouts and deliveries race; nor *)
(* does it leave the range of its INT column.                              *)
BalanceInRange == \A acc \in Accounts : balance[acc] \in 0..MaxInt

(* Whatever overlaps: no commission exceeds the subtotal it is taken from, *)
(* neither on the order nor in the ledger (orders.md:182).                 *)
CommissionWithinSubtotal ==
    \A o \in Orders :
        /\ commission[o] <= Subtotal[o]
        /\ orderTx[o]["commission"] # NoRow => orderTx[o]["commission"] <= Subtotal[o]

(* Whatever overlaps, settling twice included: once an order is delivered  *)
(* its customer's cash, the fees and the agent's earning are booked, and   *)
(* no later step changes or repeats any of them.                           *)
BookedForGood ==
    [][\A o \in Orders : status[o] = "delivered" =>
          /\ status'[o] = "delivered"
          /\ earning[o] = Share(DeliveryFee[o], ShareBps) /\ earning'[o] = earning[o]
          /\ o \in Cod => orderTx[o]["cod_collection"] = Subtotal[o] + DeliveryFee[o] + ServiceFee[o]
          /\ \A t \in TxTypes : orderTx[o][t] # NoRow => orderTx'[o][t] = orderTx[o][t]]_vars

(* restaurant-finance.md:92: the settled deliveries minus the payouts      *)
(* equal the balance.  It holds of an account none of whose orders were    *)
(* delivered by overlapping requests, whatever happens to the others.      *)
Audited(acc) ==
    LET settled == {o \in Orders : AccountOf[o] = acc /\ status[o] = "delivered"}
        paid == {k \in Keys : payoutTx[k] # NoRow /\ payoutTx[k].account = acc}
        Fee(o) == IF orderTx[o]["commission"] = NoRow THEN 0 ELSE orderTx[o]["commission"]
    IN  MapThenSumSet(LAMBDA o : Subtotal[o] - Fee(o), settled)
          - MapThenSumSet(LAMBDA k : payoutTx[k].amount, paid)

BalanceIsAuditable ==
    \A acc \in Accounts :
        (\A o \in overlapped : AccountOf[o] # acc) => balance[acc] = Audited(acc)

(* An order whose deliveries did not overlap: the commission shown on the  *)
(* order is the commission booked in the ledger.                           *)
CommissionAgrees ==
    \A o \in Orders \ overlapped : status[o] = "delivered" =>
        IF commission[o] = 0 THEN orderTx[o]["commission"] = NoRow
                             ELSE orderTx[o]["commission"] = commission[o]

(* An order whose deliveries did not overlap: the analytics service is     *)
(* told of its delivery once.                                              *)
AnnouncedOnce == \A o \in Orders \ overlapped : delivered[o] <= 1

(* As long as no deliveries of one order have overlapped, the tables       *)
(* implement the ledger: one credit per order, one debit per key.          *)
Ledger == INSTANCE RestaurantLedger
    WITH net <- [o \in Orders |-> IF status[o] = "delivered"
                                  THEN Subtotal[o] - commission[o] ELSE NoRow],
         payout <- payoutTx
ImplementsLedger == Ledger!Init /\ [][overlapped = {} => Ledger!Next]_(Ledger!vars)

-----------------------------------------------------------------------------
(* What the repository's text says and the code does not do.               *)

(* restaurant-finance.md:92 as it stands: every balance equals its deltas. *)
AlwaysAuditable == \A acc \in Accounts : balance[acc] = Audited(acc)
=============================================================================
