-------------------------- MODULE SettlementProofs --------------------------
(***************************************************************************)
(* Proofs about Settlement, for every set of orders, accounts, amounts and *)
(* delivery slots.  The inductive invariant adds to the properties what a  *)
(* delivery in flight has computed (its commission is within the subtotal) *)
(* and what a delivered order has booked; for orders whose deliveries did  *)
(* not overlap, also that the order of a delivery in flight is picked.     *)
(***************************************************************************)
EXTENDS Settlement, FiniteSetTheorems, WellFoundedInduction, TLAPS

(* Math.floor(amount * bps / 10000) is an amount between 0 and the amount. *)
LEMMA ShareBounds ==
    ASSUME NEW amount \in Nat, NEW bps \in Bps
    PROVE  Share(amount, bps) \in 0..amount
<1>1. amount * bps \in Nat /\ amount * bps <= amount * 10000
  <2>1. bps \in Nat /\ bps <= 10000
    BY DEF Bps
  <2> QED
    BY <2>1
<1> DEFINE p == amount * bps
<1>2. p \in Nat /\ p <= amount * 10000
  BY <1>1
<1> HIDE DEF p
<1>3. p \div 10000 \in 0..amount
  BY <1>2
<1> QED
  BY <1>3 DEF Share, p

(* Inserting over a conflict keeps the row, and is typed.                  *)
LEMMA InsertKeeps ==
    ASSUME NEW row \in Nat \cup {NoRow}, NEW amount \in Nat
    PROVE  /\ InsertIgnore(row, amount) \in Nat
           /\ row # NoRow => InsertIgnore(row, amount) = row
           /\ row = NoRow => InsertIgnore(row, amount) = amount
BY DEF InsertIgnore

(* What a delivery in flight carries never exceeds its order's subtotal.   *)
FeeWithin == \A d \in Deliveries : InFlight(d) => dlv[d].commission <= Subtotal[dlv[d].order]

(* What is on record for a delivered order. *)
Booked ==
    \A o \in Orders : status[o] = "delivered" =>
        /\ earning[o] = Share(DeliveryFee[o], ShareBps)
        /\ o \in Cod => orderTx[o]["cod_collection"] = Subtotal[o] + DeliveryFee[o] + ServiceFee[o]

(* An order that is not delivered has no row that could hold other amounts. *)
NothingEarly ==
    \A o \in Orders : status[o] = "picked" =>
        earning[o] = NoRow /\ \A t \in TxTypes : orderTx[o][t] = NoRow

IInv == TypeOK /\ BalanceInRange /\ CommissionWithinSubtotal /\ FeeWithin /\ Booked /\ NothingEarly

(* The rows a settlement writes: typed, and none of the old ones changed.  *)
LEMMA TxRowsKeep ==
    ASSUME TypeOK, NEW o \in Orders, NEW fee \in Nat
    PROVE  /\ TxRows(o, fee) \in [TxTypes -> Nat \cup {NoRow}]
           /\ \A t \in TxTypes : orderTx[o][t] # NoRow => TxRows(o, fee)[t] = orderTx[o][t]
           /\ orderTx[o]["commission"] = NoRow => TxRows(o, fee)["commission"] \in {fee, NoRow}
           /\ o \in Cod /\ orderTx[o]["cod_collection"] = NoRow =>
                 TxRows(o, fee)["cod_collection"] = Subtotal[o] + DeliveryFee[o] + ServiceFee[o]
<1>1. /\ Subtotal[o] \in Nat /\ DeliveryFee[o] \in Nat /\ ServiceFee[o] \in Nat
      /\ Subtotal[o] + DeliveryFee[o] + ServiceFee[o] \in Nat
  <2>1. Subtotal[o] \in Nat /\ DeliveryFee[o] \in Nat /\ ServiceFee[o] \in Nat
    BY SettlementAssumption
  <2> QED
    BY <2>1
<1>2. \A t \in TxTypes : orderTx[o][t] \in Nat \cup {NoRow}
  BY DEF TypeOK
<1>3. \A t \in TxTypes :
        /\ TxRows(o, fee)[t] \in Nat \cup {NoRow}
        /\ orderTx[o][t] # NoRow => TxRows(o, fee)[t] = orderTx[o][t]
  BY <1>1, <1>2 DEF TxRows, InsertIgnore, TxTypes
<1>4. orderTx[o]["commission"] = NoRow => TxRows(o, fee)["commission"] \in {fee, NoRow}
  BY DEF TxRows, InsertIgnore, TxTypes
<1>5. o \in Cod /\ orderTx[o]["cod_collection"] = NoRow =>
        TxRows(o, fee)["cod_collection"] = Subtotal[o] + DeliveryFee[o] + ServiceFee[o]
  BY DEF TxRows, InsertIgnore, TxTypes
<1>6. TxRows(o, fee) = [t \in TxTypes |-> TxRows(o, fee)[t]]
  BY DEF TxRows
<1> QED
  BY <1>3, <1>4, <1>5, <1>6

LEMMA Initial == Init => IInv
<1> SUFFICES ASSUME Init PROVE IInv
  OBVIOUS
<1>1. TypeOK
  BY SettlementAssumption DEF Init, TypeOK, Settlements, TxTypes
<1>2. BalanceInRange /\ CommissionWithinSubtotal /\ FeeWithin /\ Booked /\ NothingEarly
  BY SettlementAssumption DEF Init, BalanceInRange, CommissionWithinSubtotal, FeeWithin,
     Booked, NothingEarly, InFlight, Idle, TxTypes
<1> QED
  BY <1>1, <1>2 DEF IInv

(* Steps that leave the tables alone. *)
LEMMA ReadKeeps ==
    ASSUME IInv, NEW d \in Deliveries, NEW o \in Orders, ReadPicked(d, o)
    PROVE  IInv'
<1>1. /\ dlv' = [dlv EXCEPT ![d] = [step |-> "fetch", order |-> o, commission |-> 0]]
      /\ UNCHANGED tables /\ overlapped' \in {overlapped, overlapped \cup {o}}
  BY DEF ReadPicked, StartDelivery
<1>2. TypeOK'
  BY <1>1 DEF IInv, TypeOK, Settlements, tables
<1>3. FeeWithin'
  <2>1. Subtotal[o] >= 0
    BY SettlementAssumption
  <2> QED
    BY <1>1, <2>1 DEF IInv, TypeOK, FeeWithin, InFlight
<1> QED
  BY <1>1, <1>2, <1>3 DEF IInv, tables, BalanceInRange, CommissionWithinSubtotal, Booked, NothingEarly

LEMMA FetchKeeps ==
    ASSUME IInv, NEW d \in Deliveries, NEW bps \in BpsValues \cup {0}, FetchBranch(d, bps)
    PROVE  IInv'
<1> DEFINE fee == Share(Subtotal[dlv[d].order], bps)
<1>1. /\ dlv[d].step = "fetch"
      /\ dlv' = [dlv EXCEPT ![d].step = "trx", ![d].commission = fee]
      /\ UNCHANGED <<tables, overlapped>>
  BY DEF FetchBranch
<1>2. dlv[d] \in Settlements /\ dlv[d].order \in Orders
  BY <1>1 DEF IInv, TypeOK, Idle, Settlements
<1>3. fee \in 0..Subtotal[dlv[d].order]
  <2>1. bps \in Bps /\ Subtotal[dlv[d].order] \in Nat
    BY <1>2, SettlementAssumption DEF Bps
  <2> QED
    BY <2>1, ShareBounds, Zenon
<1>4. fee \in Nat
  BY <1>2, <1>3, SettlementAssumption
<1> HIDE DEF fee
<1>5. dlv'[d] = [step |-> "trx", order |-> dlv[d].order, commission |-> fee]
  BY <1>1, <1>2 DEF IInv, TypeOK, Settlements
<1>6. \A e \in Deliveries : e # d => dlv'[e] = dlv[e]
  BY <1>1 DEF IInv, TypeOK
<1>7. dlv' \in [Deliveries -> {Idle} \cup Settlements]
  BY <1>1, <1>2, <1>4 DEF IInv, TypeOK, Settlements
<1>8. TypeOK'
  BY <1>1, <1>7 DEF IInv, TypeOK, tables
<1>9. FeeWithin'
  BY <1>2, <1>3, <1>5, <1>6, SettlementAssumption DEF IInv, FeeWithin, InFlight
<1> QED
  BY <1>1, <1>8, <1>9 DEF IInv, tables, BalanceInRange, CommissionWithinSubtotal, Booked, NothingEarly

LEMMA AbortKeeps ==
    ASSUME IInv, NEW d \in Deliveries, AbortSettlement(d)
    PROVE  IInv'
<1>1. dlv' = [dlv EXCEPT ![d] = Idle] /\ UNCHANGED <<tables, overlapped>>
  BY DEF AbortSettlement
<1>2. TypeOK'
  BY <1>1 DEF IInv, TypeOK, tables
<1>3. FeeWithin'
  BY <1>1 DEF IInv, TypeOK, FeeWithin, InFlight, Idle
<1> QED
  BY <1>1, <1>2, <1>3 DEF IInv, tables, BalanceInRange, CommissionWithinSubtotal, Booked, NothingEarly

(* What a settlement changes: the rows of its order and one balance.       *)
LEMMA SettlementWrites ==
    ASSUME IInv, NEW d \in Deliveries, CommitSettlement(d)
    PROVE  LET o == dlv[d].order
               fee == dlv[d].commission
               acc == AccountOf[o]
           IN  /\ o \in Orders /\ acc \in Accounts /\ fee \in 0..Subtotal[o]
               /\ Subtotal[o] \in Nat /\ Share(DeliveryFee[o], ShareBps) \in Nat
               /\ balance'[acc] = balance[acc] + (Subtotal[o] - fee)
               /\ balance'[acc] <= MaxInt
               /\ \A b \in Accounts : b # acc => balance'[b] = balance[b]
               /\ \A p \in Orders : p # o => /\ status'[p] = status[p]
                                             /\ commission'[p] = commission[p]
                                             /\ orderTx'[p] = orderTx[p]
                                             /\ earning'[p] = earning[p]
               /\ status'[o] = "delivered" /\ commission'[o] = fee
               /\ orderTx'[o] = TxRows(o, fee)
               /\ earning'[o] = InsertIgnore(earning[o], Share(DeliveryFee[o], ShareBps))
<1> DEFINE o == dlv[d].order
           fee == dlv[d].commission
           acc == AccountOf[o]
<1>1. dlv[d] \in Settlements /\ InFlight(d)
  BY DEF IInv, TypeOK, CommitSettlement, UpsertIncrement, InsertEarning, Idle, InFlight
<1>2. o \in Orders /\ fee \in Nat /\ fee <= Subtotal[o] /\ acc \in Accounts /\ Subtotal[o] \in Nat
  BY <1>1, SettlementAssumption DEF IInv, FeeWithin, Settlements
<1>3. Share(DeliveryFee[o], ShareBps) \in Nat
  <2>1. DeliveryFee[o] \in Nat /\ ShareBps \in Bps
    BY <1>2, SettlementAssumption
  <2>2. Share(DeliveryFee[o], ShareBps) \in 0..DeliveryFee[o]
    BY <2>1, ShareBounds, Zenon
  <2> QED
    BY <2>1, <2>2
<1>4. balance[acc] \in Int
  BY <1>2 DEF IInv, TypeOK
<1> QED
  BY <1>2, <1>3, <1>4 DEF CommitSettlement, UpsertIncrement, InsertEarning, IInv, TypeOK

LEMMA CommitKeeps ==
    ASSUME IInv, NEW d \in Deliveries, CommitSettlement(d)
    PROVE  IInv'
<1> DEFINE o == dlv[d].order
           fee == dlv[d].commission
           acc == AccountOf[o]
<1>1. /\ o \in Orders /\ acc \in Accounts /\ fee \in 0..Subtotal[o]
      /\ Subtotal[o] \in Nat /\ Share(DeliveryFee[o], ShareBps) \in Nat
      /\ balance'[acc] = balance[acc] + (Subtotal[o] - fee)
      /\ balance'[acc] <= MaxInt
      /\ \A b \in Accounts : b # acc => balance'[b] = balance[b]
  BY SettlementWrites
<1>2. /\ \A p \in Orders : p # o => /\ status'[p] = status[p]
                                    /\ commission'[p] = commission[p]
                                    /\ orderTx'[p] = orderTx[p]
                                    /\ earning'[p] = earning[p]
      /\ status'[o] = "delivered" /\ commission'[o] = fee
      /\ orderTx'[o] = TxRows(o, fee)
      /\ earning'[o] = InsertIgnore(earning[o], Share(DeliveryFee[o], ShareBps))
  BY SettlementWrites
<1> HIDE DEF o, fee, acc
<1>3. IInv
  OBVIOUS
<1>4. TypeOK
  BY <1>3 DEF IInv
<1>5. fee \in Nat
  BY <1>1
<1>6. /\ TxRows(o, fee) \in [TxTypes -> Nat \cup {NoRow}]
      /\ \A t \in TxTypes : orderTx[o][t] # NoRow => TxRows(o, fee)[t] = orderTx[o][t]
      /\ orderTx[o]["commission"] = NoRow => TxRows(o, fee)["commission"] \in {fee, NoRow}
      /\ o \in Cod /\ orderTx[o]["cod_collection"] = NoRow =>
            TxRows(o, fee)["cod_collection"] = Subtotal[o] + DeliveryFee[o] + ServiceFee[o]
  BY <1>1, <1>4, <1>5, TxRowsKeep
<1>7. earning[o] \in Nat \cup {NoRow}
  BY <1>1, <1>4 DEF TypeOK
<1>8. /\ earning'[o] \in Nat
      /\ earning[o] # NoRow => earning'[o] = earning[o]
      /\ earning[o] = NoRow => earning'[o] = Share(DeliveryFee[o], ShareBps)
  BY <1>1, <1>2, <1>7, InsertKeeps
<1>9. dlv' = [dlv EXCEPT ![d] = Idle] /\ payoutTx' = payoutTx
  BY DEF CommitSettlement, UpsertIncrement, InsertEarning
<1>10. TypeOK'
  <2>1. status' \in [Orders -> {"picked", "delivered"}]
    BY <1>4 DEF CommitSettlement, UpsertIncrement, InsertEarning, TypeOK
  <2>2. commission' \in [Orders -> Nat]
    BY <1>4, <1>5 DEF CommitSettlement, UpsertIncrement, InsertEarning, TypeOK, fee
  <2>3. orderTx' \in [Orders -> [TxTypes -> Nat \cup {NoRow}]]
    BY <1>4, <1>6 DEF CommitSettlement, UpsertIncrement, InsertEarning, TypeOK, fee, o
  <2>4. balance' \in [Accounts -> Int]
    <3>1. balance[acc] \in Int /\ Subtotal[o] - fee \in Int
      BY <1>1, <1>4, <1>5 DEF TypeOK
    <3>2. balance[acc] + (Subtotal[o] - fee) \in Int
      BY <3>1
    <3> QED
      BY <1>4, <3>2 DEF CommitSettlement, UpsertIncrement, InsertEarning, TypeOK, fee, o, acc
  <2>5. earning' \in [Orders -> Nat \cup {NoRow}]
    <3>1. InsertIgnore(earning[o], Share(DeliveryFee[o], ShareBps)) \in Nat
      BY <1>2, <1>8
    <3> QED
      BY <1>4, <3>1 DEF CommitSettlement, UpsertIncrement, InsertEarning, TypeOK, o
  <2>6. delivered' \in [Orders -> Nat]
    <3>1. delivered' = [delivered EXCEPT ![o] = delivered[o] + 1]
      BY DEF CommitSettlement, UpsertIncrement, InsertEarning, o
    <3>2. delivered[o] + 1 \in Nat
      BY <1>1, <1>4 DEF TypeOK
    <3> QED
      BY <1>4, <3>1, <3>2 DEF TypeOK
  <2>7. dlv' \in [Deliveries -> {Idle} \cup Settlements]
    BY <1>4, <1>9 DEF TypeOK
  <2>8. overlapped' \subseteq Orders
    BY <1>4 DEF CommitSettlement, UpsertIncrement, InsertEarning, TypeOK
  <2> QED
    BY <1>4, <1>9, <2>1, <2>2, <2>3, <2>4, <2>5, <2>6, <2>7, <2>8 DEF TypeOK
<1>11. BalanceInRange'
  <2>1. \A b \in Accounts : balance[b] \in 0..MaxInt
    BY <1>3 DEF IInv, BalanceInRange
  <2>2. balance'[acc] \in 0..MaxInt
    BY <1>1, <2>1, SettlementAssumption
  <2> QED
    BY <1>1, <2>1, <2>2 DEF BalanceInRange
<1>12. CommissionWithinSubtotal'
  <2>1. /\ \A p \in Orders : /\ commission[p] <= Subtotal[p]
                             /\ orderTx[p]["commission"] # NoRow
                                   => orderTx[p]["commission"] <= Subtotal[p]
    BY <1>3 DEF IInv, CommissionWithinSubtotal
  <2>2. commission'[o] <= Subtotal[o]
    BY <1>1, <1>2
  <2>3. orderTx'[o]["commission"] # NoRow => orderTx'[o]["commission"] <= Subtotal[o]
    BY <1>1, <1>2, <1>6, <2>1 DEF TxTypes
  <2> QED
    BY <1>2, <2>1, <2>2, <2>3 DEF CommissionWithinSubtotal
<1>13. FeeWithin'
  BY <1>3, <1>9 DEF IInv, TypeOK, FeeWithin, InFlight, Idle
<1>14. Booked'
  <2>1. status[o] \in {"picked", "delivered"}
    BY <1>1, <1>4 DEF TypeOK
  <2>2. /\ earning'[o] = Share(DeliveryFee[o], ShareBps)
        /\ o \in Cod => orderTx'[o]["cod_collection"]
                           = Subtotal[o] + DeliveryFee[o] + ServiceFee[o]
    <3>1. CASE status[o] = "picked"
      BY <1>1, <1>2, <1>3, <1>6, <1>8, <3>1 DEF IInv, NothingEarly, TxTypes
    <3>2. CASE status[o] = "delivered"
      <4>1. /\ earning[o] = Share(DeliveryFee[o], ShareBps)
            /\ o \in Cod => orderTx[o]["cod_collection"]
                               = Subtotal[o] + DeliveryFee[o] + ServiceFee[o]
        BY <1>1, <1>3, <3>2 DEF IInv, Booked
      <4> QED
        BY <1>2, <1>6, <1>8, <4>1 DEF TxTypes
    <3> QED
      BY <2>1, <3>1, <3>2
  <2> QED
    BY <1>2, <1>3, <2>2 DEF IInv, Booked
<1>15. NothingEarly'
  BY <1>2, <1>3 DEF IInv, NothingEarly
<1> QED
  BY <1>10, <1>11, <1>12, <1>13, <1>14, <1>15 DEF IInv

LEMMA PayoutKeeps ==
    ASSUME IInv, NEW k \in Keys, NEW acc \in Accounts, NEW amount \in Amounts,
           RecordPayout(k, acc, amount)
    PROVE  IInv'
<1>1. /\ balance[acc] >= amount
      /\ balance' = [balance EXCEPT ![acc] = @ - amount]
      /\ payoutTx' = [payoutTx EXCEPT ![k] = [account |-> acc, amount |-> amount]]
      /\ UNCHANGED <<status, commission, orderTx, earning, delivered, dlv, overlapped>>
  BY DEF RecordPayout, DecrementIfSufficient
<1>2. amount \in Nat
  BY SettlementAssumption
<1>3. balance[acc] \in Int /\ balance[acc] \in 0..MaxInt
  BY DEF IInv, TypeOK, BalanceInRange
<1>4. TypeOK'
  BY <1>1, <1>2, <1>3 DEF IInv, TypeOK
<1>5. BalanceInRange'
  <2>1. \A b \in Accounts : b # acc => balance'[b] = balance[b]
    BY <1>1 DEF IInv, TypeOK
  <2>2. balance'[acc] = balance[acc] - amount
    BY <1>1 DEF IInv, TypeOK
  <2>3. balance'[acc] \in 0..MaxInt
    BY <1>1, <1>2, <1>3, <2>2, SettlementAssumption
  <2> QED
    BY <2>1, <2>3 DEF IInv, BalanceInRange
<1> QED
  BY <1>1, <1>4, <1>5 DEF IInv, CommissionWithinSubtotal, FeeWithin, InFlight, Booked, NothingEarly

LEMMA StepKeeps == IInv /\ [Next]_vars => IInv'
<1> SUFFICES ASSUME IInv, [Next]_vars PROVE IInv'
  OBVIOUS
<1>1. ASSUME NEW d \in Deliveries, NEW o \in Orders, ReadPicked(d, o) PROVE IInv'
  BY <1>1, ReadKeeps
<1>2. ASSUME NEW d \in Deliveries, NEW bps \in BpsValues \cup {0}, FetchBranch(d, bps) PROVE IInv'
  BY <1>2, FetchKeeps
<1>3. ASSUME NEW d \in Deliveries, CommitSettlement(d) PROVE IInv'
  BY <1>3, CommitKeeps
<1>4. ASSUME NEW d \in Deliveries, AbortSettlement(d) PROVE IInv'
  BY <1>4, AbortKeeps
<1>5. ASSUME NEW k \in Keys, NEW acc \in Accounts, NEW amount \in Amounts,
             RecordPayout(k, acc, amount)
      PROVE IInv'
  BY <1>5, PayoutKeeps
<1>6. CASE UNCHANGED vars
  BY <1>6 DEF vars, tables, IInv, TypeOK, BalanceInRange, CommissionWithinSubtotal,
     FeeWithin, InFlight, Booked, NothingEarly
<1> QED
  BY <1>1, <1>2, <1>3, <1>4, <1>5, <1>6 DEF Next

(* The invariant is inductive.                                             *)
THEOREM Invariant == Spec => []IInv
BY Initial, StepKeeps, PTL DEF Spec

(* The columns and the requests in flight keep their types.                *)
THEOREM TypeCorrect == Spec => []TypeOK
<1>1. IInv => TypeOK
  BY DEF IInv
<1> QED
  BY <1>1, Invariant, PTL

(* No interleaving of deliveries and payouts drives a balance below zero   *)
(* or out of its column.                                                   *)
THEOREM BalanceAlwaysInRange == Spec => []BalanceInRange
<1>1. IInv => BalanceInRange
  BY DEF IInv
<1> QED
  BY <1>1, Invariant, PTL

(* No interleaving books a commission larger than the subtotal.            *)
THEOREM CommissionAlwaysWithin == Spec => []CommissionWithinSubtotal
<1>1. IInv => CommissionWithinSubtotal
  BY DEF IInv
<1> QED
  BY <1>1, Invariant, PTL

(* Whatever is booked for a delivered order stays as it is, a second       *)
(* settlement of the same order included.                                  *)
THEOREM AlwaysBookedForGood == Spec => BookedForGood
<1> DEFINE Final(o) ==
        status[o] = "delivered" =>
          /\ status'[o] = "delivered"
          /\ earning[o] = Share(DeliveryFee[o], ShareBps) /\ earning'[o] = earning[o]
          /\ o \in Cod => orderTx[o]["cod_collection"] = Subtotal[o] + DeliveryFee[o] + ServiceFee[o]
          /\ \A t \in TxTypes : orderTx[o][t] # NoRow => orderTx'[o][t] = orderTx[o][t]
<1>1. ASSUME IInv, Next, NEW o \in Orders, status[o] = "delivered" PROVE Final(o)
  <2>1. /\ earning[o] = Share(DeliveryFee[o], ShareBps)
        /\ o \in Cod => orderTx[o]["cod_collection"] = Subtotal[o] + DeliveryFee[o] + ServiceFee[o]
    BY <1>1 DEF IInv, Booked
  <2>2. /\ status'[o] = "delivered" /\ earning'[o] = earning[o]
        /\ \A t \in TxTypes : orderTx[o][t] # NoRow => orderTx'[o][t] = orderTx[o][t]
    <3>1. CASE UNCHANGED <<status, earning, orderTx>>
      BY <1>1, <3>1
    <3>2. ASSUME NEW d \in Deliveries, CommitSettlement(d) PROVE <2>2
      <4>1. CASE dlv[d].order # o
        BY <1>1, <3>2, <4>1, SettlementWrites
      <4>2. CASE dlv[d].order = o
        <5> DEFINE fee == dlv[d].commission
        <5>1. /\ fee \in 0..Subtotal[o] /\ Subtotal[o] \in Nat
              /\ Share(DeliveryFee[o], ShareBps) \in Nat
              /\ status'[o] = "delivered" /\ orderTx'[o] = TxRows(o, fee)
              /\ earning'[o] = InsertIgnore(earning[o], Share(DeliveryFee[o], ShareBps))
          BY <1>1, <3>2, <4>2, SettlementWrites
        <5> HIDE DEF fee
        <5>2. fee \in Nat /\ TypeOK /\ earning[o] \in Nat
          BY <1>1, <2>1, <5>1 DEF IInv
        <5>3. \A t \in TxTypes : orderTx[o][t] # NoRow => TxRows(o, fee)[t] = orderTx[o][t]
          BY <1>1, <5>2, TxRowsKeep
        <5>4. earning[o] # NoRow
          BY <5>2, SettlementAssumption
        <5>5. earning'[o] = earning[o]
          BY <5>1, <5>4 DEF InsertIgnore
        <5> QED
          BY <5>1, <5>3, <5>5
      <4> QED
        BY <4>1, <4>2
    <3>3. ASSUME NEW d \in Deliveries, NEW p \in Orders, ReadPicked(d, p)
          PROVE  UNCHANGED <<status, earning, orderTx>>
      BY <3>3 DEF ReadPicked, StartDelivery, tables
    <3>4. ASSUME NEW d \in Deliveries, NEW bps \in BpsValues \cup {0}, FetchBranch(d, bps)
          PROVE  UNCHANGED <<status, earning, orderTx>>
      BY <3>4 DEF FetchBranch, tables
    <3>5. ASSUME NEW d \in Deliveries, AbortSettlement(d)
          PROVE  UNCHANGED <<status, earning, orderTx>>
      BY <3>5 DEF AbortSettlement, tables
    <3>6. ASSUME NEW k \in Keys, NEW acc \in Accounts, NEW amount \in Amounts,
                 RecordPayout(k, acc, amount)
          PROVE  UNCHANGED <<status, earning, orderTx>>
      BY <3>6 DEF RecordPayout
    <3> QED
      BY <1>1, <3>1, <3>2, <3>3, <3>4, <3>5, <3>6 DEF Next
  <2> QED
    BY <2>1, <2>2
<1>2. IInv /\ [Next]_vars => [\A o \in Orders : Final(o)]_vars
  BY <1>1
<1> QED
  BY <1>2, Invariant, PTL DEF Spec, BookedForGood

-----------------------------------------------------------------------------
(* Orders whose deliveries never overlapped: what a delivery read is still *)
(* true when it commits, and the tables implement the ledger.              *)

StillPicked ==
    \A d \in Deliveries : InFlight(d) /\ dlv[d].order \notin overlapped =>
        /\ status[dlv[d].order] = "picked"
        /\ \A e \in Deliveries : e # d /\ InFlight(e) => dlv[e].order # dlv[d].order

LEMMA StillPickedKeeps ==
    ASSUME IInv, StillPicked, [Next]_vars
    PROVE  StillPicked'
<1>1. ASSUME NEW d \in Deliveries, NEW o \in Orders, ReadPicked(d, o) PROVE StillPicked'
  BY <1>1 DEF IInv, TypeOK, StillPicked, InFlight, ReadPicked, StartDelivery, tables
<1>2. ASSUME NEW d \in Deliveries, NEW bps \in BpsValues \cup {0}, FetchBranch(d, bps)
      PROVE  StillPicked'
  <2>1. InFlight(d) /\ status' = status /\ overlapped' = overlapped
    BY <1>2 DEF FetchBranch, InFlight, tables
  <2>2. \A e \in Deliveries : dlv'[e].order = dlv[e].order /\ (InFlight(e)' <=> InFlight(e))
    <3>1. dlv[d] \in Settlements
      BY <1>2 DEF IInv, TypeOK, FetchBranch, Idle
    <3> QED
      BY <1>2, <2>1, <3>1 DEF IInv, TypeOK, FetchBranch, InFlight, Settlements
  <2> QED
    BY <2>1, <2>2 DEF StillPicked
<1>3. ASSUME NEW d \in Deliveries, CommitSettlement(d) PROVE StillPicked'
  <2>1. InFlight(d) /\ dlv' = [dlv EXCEPT ![d] = Idle] /\ overlapped' = overlapped
    BY <1>3 DEF CommitSettlement, UpsertIncrement, InsertEarning, InFlight
  <2>2. \A p \in Orders : p # dlv[d].order => status'[p] = status[p]
    BY <1>3, SettlementWrites
  <2>3. \A e \in Deliveries : InFlight(e)' => e # d /\ InFlight(e) /\ dlv'[e] = dlv[e]
    BY <2>1 DEF IInv, TypeOK, InFlight, Idle
  <2>4. \A e \in Deliveries : InFlight(e) => dlv[e].order \in Orders
    BY DEF IInv, TypeOK, InFlight, Idle, Settlements
  <2> QED
    BY <2>1, <2>2, <2>3, <2>4 DEF StillPicked
<1>4. ASSUME NEW d \in Deliveries, AbortSettlement(d) PROVE StillPicked'
  BY <1>4 DEF IInv, TypeOK, StillPicked, InFlight, Idle, AbortSettlement, tables
<1>5. ASSUME NEW k \in Keys, NEW acc \in Accounts, NEW amount \in Amounts,
             RecordPayout(k, acc, amount)
      PROVE StillPicked'
  BY <1>5 DEF StillPicked, InFlight, RecordPayout
<1>6. CASE UNCHANGED vars
  BY <1>6 DEF vars, tables, StillPicked, InFlight
<1> QED
  BY <1>1, <1>2, <1>3, <1>4, <1>5, <1>6 DEF Next

(* What a settled order has on record when it was settled once. *)
SettledOnce ==
    \A o \in Orders \ overlapped :
        /\ status[o] = "picked" => delivered[o] = 0
        /\ status[o] = "delivered" =>
              /\ delivered[o] = 1
              /\ orderTx[o]["commission"] = IF commission[o] = 0 THEN NoRow ELSE commission[o]

LEMMA SettledOnceKeeps ==
    ASSUME IInv, StillPicked, SettledOnce, [Next]_vars
    PROVE  SettledOnce'
<1>1. ASSUME UNCHANGED <<status, delivered, orderTx, commission>>,
             overlapped \subseteq overlapped'
      PROVE  SettledOnce'
  BY <1>1 DEF SettledOnce
<1>2. ASSUME NEW d \in Deliveries, CommitSettlement(d) PROVE SettledOnce'
  <2> DEFINE o == dlv[d].order
             fee == dlv[d].commission
  <2>1. /\ o \in Orders /\ fee \in 0..Subtotal[o] /\ Subtotal[o] \in Nat
        /\ \A p \in Orders : p # o => /\ status'[p] = status[p]
                                      /\ commission'[p] = commission[p]
                                      /\ orderTx'[p] = orderTx[p]
        /\ status'[o] = "delivered" /\ commission'[o] = fee
        /\ orderTx'[o] = TxRows(o, fee)
    BY <1>2, SettlementWrites
  <2>2. InFlight(d) /\ overlapped' = overlapped
    BY <1>2 DEF CommitSettlement, UpsertIncrement, InsertEarning, InFlight
  <2>3. delivered' = [delivered EXCEPT ![o] = delivered[o] + 1]
    BY <1>2 DEF CommitSettlement, UpsertIncrement, InsertEarning
  <2>4. o \notin overlapped => status[o] = "picked"
    BY <2>2 DEF StillPicked
  <2> HIDE DEF o, fee
  <2>5. \A p \in Orders \ overlapped : p # o =>
          delivered'[p] = delivered[p]
    BY <2>3 DEF IInv, TypeOK
  <2>6. ASSUME o \notin overlapped
        PROVE  /\ delivered'[o] = 1
               /\ orderTx'[o]["commission"] = IF commission'[o] = 0 THEN NoRow ELSE commission'[o]
    <3>1. delivered[o] = 0 /\ orderTx[o]["commission"] = NoRow
      BY <2>1, <2>4, <2>6 DEF SettledOnce, IInv, NothingEarly, TxTypes
    <3>2. delivered'[o] = 1
      BY <2>1, <2>3, <3>1 DEF IInv, TypeOK
    <3>3. TxRows(o, fee)["commission"] = IF fee = 0 THEN NoRow ELSE fee
      BY <2>1, <3>1 DEF TxRows, InsertIgnore, TxTypes
    <3> QED
      BY <2>1, <3>2, <3>3
  <2> QED
    BY <2>1, <2>2, <2>5, <2>6 DEF SettledOnce
<1>3. ASSUME NEW d \in Deliveries, NEW o \in Orders, ReadPicked(d, o) PROVE SettledOnce'
  BY <1>1, <1>3 DEF ReadPicked, StartDelivery, tables
<1>4. ASSUME NEW d \in Deliveries, NEW bps \in BpsValues \cup {0}, FetchBranch(d, bps)
      PROVE  SettledOnce'
  BY <1>1, <1>4 DEF FetchBranch, tables
<1>5. ASSUME NEW d \in Deliveries, AbortSettlement(d) PROVE SettledOnce'
  BY <1>1, <1>5 DEF AbortSettlement, tables
<1>6. ASSUME NEW k \in Keys, NEW acc \in Accounts, NEW amount \in Amounts,
             RecordPayout(k, acc, amount)
      PROVE SettledOnce'
  BY <1>1, <1>6 DEF RecordPayout
<1>7. CASE UNCHANGED vars
  BY <1>1, <1>7 DEF vars, tables
<1> QED
  BY <1>2, <1>3, <1>4, <1>5, <1>6, <1>7 DEF Next

THEOREM InvariantOnce == Spec => [](StillPicked /\ SettledOnce)
<1>1. Init => StillPicked /\ SettledOnce
  BY DEF Init, StillPicked, SettledOnce, InFlight, Idle
<1>2. IInv /\ StillPicked /\ SettledOnce /\ [Next]_vars => StillPicked' /\ SettledOnce'
  BY StillPickedKeeps, SettledOnceKeeps
<1> QED
  BY <1>1, <1>2, Invariant, PTL DEF Spec

(* An order whose deliveries never overlapped is announced once, however   *)
(* many requests, failures and retries it took to deliver it.              *)
THEOREM AlwaysAnnouncedOnce == Spec => []AnnouncedOnce
<1>1. IInv /\ SettledOnce => AnnouncedOnce
  <2> SUFFICES ASSUME IInv, SettledOnce, NEW o \in Orders \ overlapped
               PROVE  delivered[o] <= 1
    BY DEF AnnouncedOnce
  <2>1. status[o] \in {"picked", "delivered"}
    BY DEF IInv, TypeOK
  <2> QED
    BY <2>1 DEF SettledOnce
<1> QED
  BY <1>1, Invariant, InvariantOnce, PTL

(* An order whose deliveries never overlapped shows the commission that    *)
(* the ledger holds, whatever its branch fetches returned.                 *)
THEOREM CommissionAlwaysAgrees == Spec => []CommissionAgrees
<1>1. SettledOnce => CommissionAgrees
  BY DEF SettledOnce, CommissionAgrees
<1> QED
  BY <1>1, InvariantOnce, PTL

-----------------------------------------------------------------------------
Net == [o \in Orders |-> IF status[o] = "delivered" THEN Subtotal[o] - commission[o] ELSE NoRow]

LEMMA LedgerStep ==
    ASSUME IInv, StillPicked, overlapped = {}, [Next]_vars
    PROVE  Ledger!Next \/ UNCHANGED <<balance, Net, payoutTx>>
<1>1. ASSUME UNCHANGED <<status, commission, balance, payoutTx>>
      PROVE  UNCHANGED <<balance, Net, payoutTx>>
  BY <1>1 DEF Net
<1>2. ASSUME NEW d \in Deliveries, CommitSettlement(d) PROVE Ledger!Next
  <2> DEFINE o == dlv[d].order
             fee == dlv[d].commission
             acc == AccountOf[o]
  <2>1. /\ o \in Orders /\ acc \in Accounts /\ fee \in 0..Subtotal[o] /\ Subtotal[o] \in Nat
        /\ balance'[acc] = balance[acc] + (Subtotal[o] - fee)
        /\ \A p \in Orders : p # o => status'[p] = status[p] /\ commission'[p] = commission[p]
        /\ status'[o] = "delivered" /\ commission'[o] = fee
    BY <1>2, SettlementWrites
  <2>2. /\ balance' = [balance EXCEPT ![acc] = balance[acc] + (Subtotal[o] - fee)]
        /\ payoutTx' = payoutTx /\ InFlight(d)
    BY <1>2 DEF CommitSettlement, UpsertIncrement, InsertEarning, InFlight
  <2>3. status[o] = "picked"
    BY <2>2 DEF StillPicked
  <2> HIDE DEF o, fee, acc
  <2>4. Net[o] = NoRow /\ Net'[o] = Subtotal[o] - fee /\ Subtotal[o] - fee \in Nat
    BY <2>1, <2>3 DEF Net
  <2>5. Net' = [Net EXCEPT ![o] = Net'[o]]
    BY <2>1 DEF Net
  <2>6. balance' = [balance EXCEPT ![AccountOf[o]] = balance[AccountOf[o]] + Net'[o]]
    BY <2>2, <2>4 DEF acc
  <2>7. PICK p \in Orders : p = o
    BY <2>1
  <2>8. Ledger!Credit(p)
    <3>1. /\ Net[p] = NoRow /\ Net'[p] \in Nat /\ Net' = [Net EXCEPT ![p] = Net'[p]]
          /\ payoutTx' = payoutTx
          /\ balance' = [balance EXCEPT ![AccountOf[p]] = balance[AccountOf[p]] + Net'[p]]
      BY <2>2, <2>4, <2>5, <2>6, <2>7
    <3> QED
      BY <3>1, Zenon DEF Ledger!Credit, Net
  <2> QED
    BY <2>8, Zenon DEF Ledger!Next
<1>3. ASSUME NEW k \in Keys, NEW acc \in Accounts, NEW amount \in Amounts,
             RecordPayout(k, acc, amount)
      PROVE  Ledger!Next
  <2> DEFINE row == [account |-> acc, amount |-> amount]
  <2>1. /\ payoutTx[k] = NoRow /\ payoutTx' = [payoutTx EXCEPT ![k] = row]
        /\ balance[acc] >= amount /\ balance' = [balance EXCEPT ![acc] = balance[acc] - amount]
        /\ status' = status /\ commission' = commission
    BY <1>3 DEF RecordPayout, DecrementIfSufficient
  <2>2. payoutTx'[k] = row /\ row # NoRow
    BY <2>1, SettlementAssumption DEF IInv, TypeOK
  <2>3. payoutTx' = [payoutTx EXCEPT ![k] = payoutTx'[k]]
    BY <2>1, <2>2
  <2>4. balance[acc] \in Int /\ amount \in Nat
    BY SettlementAssumption DEF IInv, TypeOK
  <2>5. /\ payoutTx'[k].amount <= balance[payoutTx'[k].account]
        /\ balance' = [balance EXCEPT ![payoutTx'[k].account]
                          = balance[payoutTx'[k].account] - payoutTx'[k].amount]
    <3>1. payoutTx'[k].amount = amount /\ payoutTx'[k].account = acc
      BY <2>2
    <3> QED
      BY <2>1, <2>4, <3>1
  <2>6. Net' = Net
    BY <2>1 DEF Net
  <2>7. Ledger!Debit(k)
    BY <2>1, <2>2, <2>3, <2>5, <2>6, Zenon DEF Ledger!Debit, Net
  <2> QED
    BY <2>7, Zenon DEF Ledger!Next
<1>4. ASSUME NEW d \in Deliveries, NEW o \in Orders, ReadPicked(d, o)
      PROVE  UNCHANGED <<balance, Net, payoutTx>>
  BY <1>1, <1>4 DEF ReadPicked, StartDelivery, tables
<1>5. ASSUME NEW d \in Deliveries, NEW bps \in BpsValues \cup {0}, FetchBranch(d, bps)
      PROVE  UNCHANGED <<balance, Net, payoutTx>>
  BY <1>1, <1>5 DEF FetchBranch, tables
<1>6. ASSUME NEW d \in Deliveries, AbortSettlement(d)
      PROVE  UNCHANGED <<balance, Net, payoutTx>>
  BY <1>1, <1>6 DEF AbortSettlement, tables
<1>7. CASE UNCHANGED vars
  BY <1>1, <1>7 DEF vars, tables
<1> QED
  BY <1>2, <1>3, <1>4, <1>5, <1>6, <1>7 DEF Next

(* As long as no deliveries of one order have overlapped, the four tables  *)
(* are one ledger: each order credited once, each payout key debited once, *)
(* and never more than the balance.                                        *)
THEOREM LedgerImplemented == Spec => ImplementsLedger
<1>1. Init => Ledger!Init
  BY DEF Init, Ledger!Init
<1>2. Init => StillPicked
  BY DEF Init, StillPicked, InFlight, Idle
<1>3. IInv /\ StillPicked /\ [Next]_vars => StillPicked'
  BY StillPickedKeeps
<1>4. IInv /\ StillPicked /\ [Next]_vars => [overlapped = {} => Ledger!Next]_(Ledger!vars)
  BY LedgerStep DEF Ledger!vars, Net
<1> QED
  BY <1>1, <1>2, <1>3, <1>4, Invariant, PTL DEF Spec, ImplementsLedger

-----------------------------------------------------------------------------
(* Sums over finite sets.  The library's induction theorems take a         *)
(* predicate as a parameter; here it is a set of sets.                     *)

(* A set of sets that holds every subset of a finite set whose own proper  *)
(* subsets it holds, holds them all: no smallest one can be missing.       *)
LEMMA SetInduction ==
  ASSUME NEW S, IsFiniteSet(S), NEW G,
         \A T \in SUBSET S : (\A U \in SUBSET T : U # T => U \in G) => T \in G
  PROVE  SUBSET S \subseteq G
<1> DEFINE R == StrictSubsetOrdering(S)
           Bad == (SUBSET S) \ G
<1> SUFFICES ASSUME Bad # {} PROVE FALSE
  OBVIOUS
<1>1. IsWellFoundedOn(R, SUBSET S)
  <2>1. FiniteSubsetsOf(S) = SUBSET S
    BY FS_FiniteSubsetsOfFinite
  <2>2. IsWellFoundedOn(StrictSubsetOrdering(S), FiniteSubsetsOf(S))
    BY FS_StrictSubsetOrderingWellFounded
  <2> QED BY <2>1, <2>2
<1>2. PICK T \in Bad : \A U \in Bad : <<U, T>> \notin R
  <2>1. Bad \subseteq SUBSET S /\ Bad # {}
    OBVIOUS
  <2> HIDE DEF R, Bad
  <2> QED BY <1>1, <2>1, WFMin
<1>3. ASSUME NEW U \in SUBSET T, U # T PROVE U \in G
  <2>1. <<U, T>> \in R
    BY <1>3 DEF StrictSubsetOrdering
  <2> QED BY <1>2, <1>3, <2>1
<1> QED BY <1>2, <1>3

(* The element a fold over a set takes first. *)
Pick(s) == CHOOSE x \in s : TRUE

LEMMA PickIn == \A s : s # {} => Pick(s) \in s
BY DEF Pick

(* The function that sums f over the subsets of S, as the library's fold   *)
(* defines it, and its value at S.                                         *)
Recurs(g, f, S) ==
    g = [s \in SUBSET S |-> IF s = {} THEN 0 ELSE f[Pick(s)] + g[s \ {Pick(s)}]]

Total(f, S) == (CHOOSE g : Recurs(g, f, S))[S]

(* Total is the library's sum. *)
LEMMA TotalIsSum ==
  ASSUME NEW f, NEW S
  PROVE  MapThenSumSet(LAMBDA x : f[x], S) = Total(f, S)
BY Zenon DEF MapThenSumSet, MapThenFoldSet, Total, Recurs, Pick

LEMMA RecursAt ==
  ASSUME NEW g, NEW f, NEW S, Recurs(g, f, S), NEW T \in SUBSET S
  PROVE  g[T] = IF T = {} THEN 0 ELSE f[Pick(T)] + g[T \ {Pick(T)}]
<1> DEFINE F == [s \in SUBSET S |-> IF s = {} THEN 0 ELSE f[Pick(s)] + g[s \ {Pick(s)}]]
<1>1. g = F
  BY Zenon DEF Recurs
<1>2. F[T] = IF T = {} THEN 0 ELSE f[Pick(T)] + g[T \ {Pick(T)}]
  OBVIOUS
<1> HIDE DEF F
<1> QED BY <1>1, <1>2

(* Two such functions agree on the finite sets that both reach. *)
LEMMA RecursAgree ==
  ASSUME NEW g, NEW h, NEW f, NEW A, NEW B, NEW S, IsFiniteSet(S), S \subseteq A, S \subseteq B,
         Recurs(g, f, A), Recurs(h, f, B)
  PROVE  g[S] = h[S]
<1> DEFINE G == {T \in SUBSET S : g[T] = h[T]}
<1>1. ASSUME NEW T \in SUBSET S, \A U \in SUBSET T : U # T => U \in G
      PROVE  T \in G
  <2>1. /\ g[T] = IF T = {} THEN 0 ELSE f[Pick(T)] + g[T \ {Pick(T)}]
        /\ h[T] = IF T = {} THEN 0 ELSE f[Pick(T)] + h[T \ {Pick(T)}]
    <3>1. T \in SUBSET A /\ T \in SUBSET B
      OBVIOUS
    <3> QED BY <3>1, RecursAt, Zenon
  <2>2. T # {} => g[T \ {Pick(T)}] = h[T \ {Pick(T)}]
    BY <1>1, PickIn
  <2> QED BY <2>1, <2>2
<1>2. SUBSET S \subseteq G
  <2> HIDE DEF G
  <2> QED BY <1>1, SetInduction
<1> QED BY <1>2

(* Over a finite set there is one. *)
LEMMA RecursExists ==
  ASSUME NEW f, NEW S, IsFiniteSet(S)
  PROVE  Recurs(CHOOSE g : Recurs(g, f, S), f, S)
<1> DEFINE Fold(T) == CHOOSE g : Recurs(g, f, T)
           G == {T \in SUBSET S : Recurs(Fold(T), f, T)}
<1>1. ASSUME NEW T \in SUBSET S, \A U \in SUBSET T : U # T => U \in G
      PROVE  T \in G
  <2> DEFINE h == [s \in SUBSET T |->
                     IF s = {} THEN 0 ELSE f[Pick(s)] + Total(f, s \ {Pick(s)})]
  <2>1. ASSUME NEW U \in SUBSET T, U # T PROVE Total(f, U) = h[U]
    <3>1. IsFiniteSet(U) /\ U \in G
      BY <1>1, <2>1, FS_Subset
    <3>2. /\ Total(f, U) = Fold(U)[U]
          /\ Fold(U)[U] = IF U = {} THEN 0 ELSE f[Pick(U)] + Fold(U)[U \ {Pick(U)}]
      <4>1. Recurs(Fold(U), f, U) /\ U \in SUBSET U
        BY <3>1
      <4> HIDE DEF Fold
      <4>2. Fold(U)[U] = IF U = {} THEN 0 ELSE f[Pick(U)] + Fold(U)[U \ {Pick(U)}]
        BY <4>1, RecursAt, Zenon
      <4> QED BY <4>2 DEF Total, Fold
    <3>3. ASSUME U # {} PROVE Fold(U)[U \ {Pick(U)}] = Total(f, U \ {Pick(U)})
      <4> DEFINE W == U \ {Pick(U)}
      <4>1. W \in SUBSET T /\ W # T /\ W \subseteq U /\ W \subseteq W
        BY <2>1, <3>3, PickIn
      <4>2. IsFiniteSet(W) /\ Recurs(Fold(W), f, W) /\ Recurs(Fold(U), f, U)
        BY <1>1, <3>1, <4>1, FS_Subset
      <4> HIDE DEF W, Fold
      <4>3. Fold(U)[W] = Fold(W)[W]
        BY <4>1, <4>2, RecursAgree
      <4> QED BY <4>3 DEF W, Fold, Total
    <3>4. h[U] = IF U = {} THEN 0 ELSE f[Pick(U)] + Total(f, U \ {Pick(U)})
      OBVIOUS
    <3> HIDE DEF h, Fold
    <3> QED BY <3>2, <3>3, <3>4
  <2>2. \A s \in SUBSET T : s # {} => Total(f, s \ {Pick(s)}) = h[s \ {Pick(s)}]
    <3> HIDE DEF h
    <3> QED BY <2>1, PickIn
  <2>3. h = [s \in SUBSET T |-> IF s = {} THEN 0 ELSE f[Pick(s)] + h[s \ {Pick(s)}]]
    <3> DEFINE k == h
    <3>1. k = h
      OBVIOUS
    <3> HIDE DEF k
    <3> SUFFICES h = [s \in SUBSET T |-> IF s = {} THEN 0 ELSE f[Pick(s)] + k[s \ {Pick(s)}]]
      BY <3>1
    <3> QED BY <2>2, <3>1
  <2>4. Recurs(h, f, T)
    <3> HIDE DEF h
    <3> QED BY <2>3 DEF Recurs
  <2> HIDE DEF h
  <2> QED BY <2>4
<1>2. SUBSET S \subseteq G
  <2> HIDE DEF G
  <2> QED BY <1>1, SetInduction
<1> QED BY <1>2

(* So a sum is its first element's value plus the sum of the rest ... *)
LEMMA TotalUnfolds ==
  ASSUME NEW f, NEW S, IsFiniteSet(S)
  PROVE  Total(f, S) = IF S = {} THEN 0 ELSE f[Pick(S)] + Total(f, S \ {Pick(S)})
<1> DEFINE Fold(T) == CHOOSE g : Recurs(g, f, T)
           U == S \ {Pick(S)}
<1>1. IsFiniteSet(U) /\ U \subseteq S /\ U \subseteq U
  BY FS_Subset
<1>2. Recurs(Fold(S), f, S) /\ Recurs(Fold(U), f, U)
  BY <1>1, RecursExists, Zenon
<1> HIDE DEF Fold, U
<1>3. Fold(S)[S] = IF S = {} THEN 0 ELSE f[Pick(S)] + Fold(S)[S \ {Pick(S)}]
  BY <1>2, RecursAt, S \in SUBSET S, Zenon
<1>4. Fold(S)[U] = Fold(U)[U]
  BY <1>1, <1>2, RecursAgree
<1> QED BY <1>3, <1>4 DEF Total, Fold, U

LEMMA TotalInt ==
  ASSUME NEW f, NEW S, IsFiniteSet(S), \A x \in S : f[x] \in Int
  PROVE  Total(f, S) \in Int
<1> DEFINE G == {T \in SUBSET S : Total(f, T) \in Int}
<1>1. ASSUME NEW T \in SUBSET S, \A U \in SUBSET T : U # T => U \in G
      PROVE  T \in G
  <2>1. Total(f, T) = IF T = {} THEN 0 ELSE f[Pick(T)] + Total(f, T \ {Pick(T)})
    BY FS_Subset, TotalUnfolds
  <2>2. T # {} => Pick(T) \in T /\ T \ {Pick(T)} \in G
    BY <1>1, PickIn
  <2> QED BY <2>1, <2>2
<1>2. SUBSET S \subseteq G
  <2> HIDE DEF G
  <2> QED BY <1>1, SetInduction
<1> QED BY <1>2

(* ... and any element may be the first. *)
LEMMA TotalRemove ==
  ASSUME NEW f, NEW S, IsFiniteSet(S), \A x \in S : f[x] \in Int, NEW x \in S
  PROVE  Total(f, S) = f[x] + Total(f, S \ {x})
<1> DEFINE G == {T \in SUBSET S : \A y \in T : Total(f, T) = f[y] + Total(f, T \ {y})}
<1>1. ASSUME NEW T \in SUBSET S, \A U \in SUBSET T : U # T => U \in G
      PROVE  T \in G
  <2> SUFFICES ASSUME NEW y \in T PROVE Total(f, T) = f[y] + Total(f, T \ {y})
    OBVIOUS
  <2> DEFINE c == Pick(T)
  <2>1. c \in T /\ Total(f, T) = f[c] + Total(f, T \ {c})
    BY FS_Subset, TotalUnfolds, PickIn
  <2> HIDE DEF c
  <2>2. CASE y = c
    BY <2>1, <2>2
  <2>3. CASE y # c
    <3> DEFINE W == (T \ {c}) \ {y}
    <3>1. T \ {c} \in G /\ y \in T \ {c} /\ T \ {y} \in G /\ c \in T \ {y}
      BY <1>1, <2>1, <2>3
    <3>2. Total(f, T \ {c}) = f[y] + Total(f, W)
      BY <3>1
    <3>3. Total(f, T \ {y}) = f[c] + Total(f, W)
      <4>1. (T \ {y}) \ {c} = W
        OBVIOUS
      <4>2. Total(f, T \ {y}) = f[c] + Total(f, (T \ {y}) \ {c})
        BY <3>1
      <4> HIDE DEF W, G
      <4> QED BY <4>1, <4>2
    <3>4. Total(f, W) \in Int /\ f[c] \in Int /\ f[y] \in Int
      <4>1. W \subseteq S /\ c \in S /\ y \in S
        BY <2>1
      <4> QED BY <4>1, FS_Subset, TotalInt
    <3> HIDE DEF W, G
    <3> QED BY <2>1, <3>2, <3>3, <3>4
  <2> QED BY <2>2, <2>3
<1>2. SUBSET S \subseteq G
  <2> HIDE DEF G
  <2> QED BY <1>1, SetInduction
<1> QED BY <1>2

(* Only the values on the set count. *)
LEMMA TotalSame ==
  ASSUME NEW f, NEW g, NEW S, IsFiniteSet(S), \A x \in S : f[x] = g[x]
  PROVE  Total(f, S) = Total(g, S)
<1> DEFINE G == {T \in SUBSET S : Total(f, T) = Total(g, T)}
<1>1. ASSUME NEW T \in SUBSET S, \A U \in SUBSET T : U # T => U \in G
      PROVE  T \in G
  <2>1. /\ Total(f, T) = IF T = {} THEN 0 ELSE f[Pick(T)] + Total(f, T \ {Pick(T)})
        /\ Total(g, T) = IF T = {} THEN 0 ELSE g[Pick(T)] + Total(g, T \ {Pick(T)})
    BY FS_Subset, TotalUnfolds
  <2>2. T # {} => f[Pick(T)] = g[Pick(T)] /\ T \ {Pick(T)} \in G
    BY <1>1, PickIn
  <2> QED BY <2>1, <2>2
<1>2. SUBSET S \subseteq G
  <2> HIDE DEF G
  <2> QED BY <1>1, SetInduction
<1> QED BY <1>2

-----------------------------------------------------------------------------
(* The balance is what the ledger's rows add up to.                        *)

Settled(acc) == {o \in Orders : AccountOf[o] = acc /\ status[o] = "delivered"}
Paid(acc) == {k \in Keys : payoutTx[k] # NoRow /\ payoutTx[k].account = acc}

Credits ==
    [o \in Orders |-> Subtotal[o] - (IF orderTx[o]["commission"] = NoRow THEN 0
                                     ELSE orderTx[o]["commission"])]
Debits == [k \in Keys |-> payoutTx[k].amount]

LEMMA AuditedIsTotals ==
    ASSUME NEW acc
    PROVE  Audited(acc) = Total(Credits, Settled(acc)) - Total(Debits, Paid(acc))
<1> DEFINE Fee(o) == IF orderTx[o]["commission"] = NoRow THEN 0 ELSE orderTx[o]["commission"]
           S == Settled(acc)
           K == Paid(acc)
           OfOrders(g) == [s \in SUBSET S |-> IF s = {} THEN 0
                             ELSE Subtotal[Pick(s)] - Fee(Pick(s)) + g[s \ {Pick(s)}]]
           OfKeys(g) == [s \in SUBSET K |-> IF s = {} THEN 0
                             ELSE payoutTx[Pick(s)].amount + g[s \ {Pick(s)}]]
           Sum1(g) == [s \in SUBSET S |-> IF s = {} THEN 0 ELSE Credits[Pick(s)] + g[s \ {Pick(s)}]]
           Sum2(g) == [s \in SUBSET K |-> IF s = {} THEN 0 ELSE Debits[Pick(s)] + g[s \ {Pick(s)}]]
<1>1. Audited(acc) = (CHOOSE g : g = OfOrders(g))[S] - (CHOOSE g : g = OfKeys(g))[K]
  BY Zenon DEF Audited, MapThenSumSet, MapThenFoldSet, Pick, Settled, Paid
<1>2. \A g : OfOrders(g) = Sum1(g)
  <2>1. \A s \in SUBSET S : s # {} =>
           Subtotal[Pick(s)] - Fee(Pick(s)) = Credits[Pick(s)]
    BY PickIn DEF Credits, Settled
  <2> HIDE DEF S, Fee
  <2> QED BY <2>1
<1>3. \A g : OfKeys(g) = Sum2(g)
  <2>1. \A s \in SUBSET K : s # {} => payoutTx[Pick(s)].amount = Debits[Pick(s)]
    BY PickIn DEF Debits, Paid
  <2> HIDE DEF K
  <2> QED BY <2>1
<1>4. /\ Total(Credits, S) = (CHOOSE g : g = Sum1(g))[S]
      /\ Total(Debits, K) = (CHOOSE g : g = Sum2(g))[K]
  BY Zenon DEF Total, Recurs
<1> HIDE DEF OfOrders, OfKeys, Sum1, Sum2, S, K
<1>5. /\ (CHOOSE g : g = OfOrders(g)) = (CHOOSE g : g = Sum1(g))
      /\ (CHOOSE g : g = OfKeys(g)) = (CHOOSE g : g = Sum2(g))
  BY <1>2, <1>3
<1> QED
  BY <1>1, <1>4, <1>5 DEF S, K

(* The books of an account: finitely many orders settled, finitely many    *)
(* payouts, and the balance they make if none of its orders overlapped.    *)
BooksOf(acc) ==
    /\ IsFiniteSet(Settled(acc)) /\ IsFiniteSet(Paid(acc))
    /\ (\A o \in overlapped : AccountOf[o] # acc) =>
          balance[acc] = Total(Credits, Settled(acc)) - Total(Debits, Paid(acc))

Books == \A acc \in Accounts : BooksOf(acc)

RowsAreInts ==
    /\ \A o \in Orders : Credits[o] \in Int
    /\ \A acc \in Accounts : \A k \in Paid(acc) : Debits[k] \in Int

LEMMA RowsTyped == IInv => RowsAreInts
<1> SUFFICES ASSUME IInv PROVE RowsAreInts
  OBVIOUS
<1>1. \A o \in Orders : Credits[o] \in Int
  BY SettlementAssumption DEF IInv, TypeOK, TxTypes, Credits
<1>2. ASSUME NEW acc \in Accounts, NEW k \in Paid(acc) PROVE Debits[k] \in Int
  <2>1. k \in Keys /\ payoutTx[k] \in [account : Accounts, amount : Amounts]
    BY DEF IInv, TypeOK, Paid
  <2>2. Debits[k] = payoutTx[k].amount /\ payoutTx[k].amount \in Amounts
    BY <2>1 DEF Debits
  <2>3. \A n \in Amounts : n \in Int
    BY SettlementAssumption
  <2> QED
    BY <2>2, <2>3, Zenon
<1> QED
  BY <1>1, <1>2 DEF RowsAreInts

(* A settlement of another account's order leaves the books as they are;   *)
(* one of its own adds an order that was not settled, at what it credits.  *)
LEMMA SettlementBooks ==
    ASSUME IInv, IInv', StillPicked, SettledOnce, SettledOnce',
           NEW acc \in Accounts, BooksOf(acc),
           NEW d \in Deliveries, CommitSettlement(d)
    PROVE  BooksOf(acc)'
<1> DEFINE o == dlv[d].order
           fee == dlv[d].commission
<1>1. /\ o \in Orders /\ fee \in 0..Subtotal[o] /\ Subtotal[o] \in Nat
      /\ \A p \in Orders : p # o => /\ status'[p] = status[p]
                                    /\ commission'[p] = commission[p]
                                    /\ orderTx'[p] = orderTx[p]
      /\ status'[o] = "delivered" /\ commission'[o] = fee
  BY SettlementWrites
<1>2. /\ InFlight(d) /\ overlapped' = overlapped /\ payoutTx' = payoutTx
      /\ balance' = [balance EXCEPT ![AccountOf[o]] = @ + (Subtotal[o] - fee)]
  BY DEF CommitSettlement, UpsertIncrement, InFlight
<1>3. o \notin overlapped => status[o] = "picked"
  BY <1>2 DEF StillPicked
<1> HIDE DEF o, fee
<1>4. Debits' = Debits /\ Paid(acc)' = Paid(acc)
  BY <1>2 DEF Debits, Paid
<1>5. \A p \in Orders : p # o => Credits'[p] = Credits[p]
  BY <1>1 DEF Credits
<1>6. CASE AccountOf[o] # acc
  <2>1. Settled(acc)' = Settled(acc) /\ o \notin Settled(acc)
    BY <1>1, <1>6 DEF Settled
  <2>2. balance'[acc] = balance[acc]
    BY <1>2, <1>6 DEF IInv, TypeOK
  <2>3. IsFiniteSet(Settled(acc)) /\ \A p \in Settled(acc) : p \in Orders /\ p # o
    BY <2>1 DEF Settled, BooksOf
  <2>4. Total(Credits', Settled(acc)) = Total(Credits, Settled(acc))
    BY <1>5, <2>3, TotalSame
  <2> QED
    BY <1>2, <1>4, <2>1, <2>2, <2>4 DEF BooksOf
<1>7. CASE AccountOf[o] = acc /\ o \in overlapped
  <2>1. Settled(acc)' = Settled(acc) \cup {o}
    BY <1>1, <1>7 DEF Settled
  <2>2. IsFiniteSet(Settled(acc)')
    BY <2>1, FS_AddElement DEF BooksOf
  <2> QED
    BY <1>2, <1>4, <1>7, <2>2 DEF BooksOf
<1>8. CASE AccountOf[o] = acc /\ o \notin overlapped
  <2>1. Settled(acc)' = Settled(acc) \cup {o} /\ o \notin Settled(acc)
    BY <1>1, <1>3, <1>8 DEF Settled
  <2>2. IsFiniteSet(Settled(acc)) /\ IsFiniteSet(Settled(acc)') /\ o \in Settled(acc)'
    BY <2>1, FS_AddElement DEF BooksOf
  <2>3. Credits'[o] = Subtotal[o] - fee
    <3>1. orderTx'[o]["commission"] = IF fee = 0 THEN NoRow ELSE fee
      BY <1>1, <1>2, <1>8 DEF SettledOnce
    <3>2. fee # NoRow
      BY <1>1, SettlementAssumption
    <3> QED
      BY <1>1, <3>1, <3>2 DEF Credits
  <2>4. Total(Credits', Settled(acc)') = Credits'[o] + Total(Credits', Settled(acc)' \ {o})
    <3>1. RowsAreInts'
      BY RowsTyped, PTL
    <3>2. \A p \in Settled(acc)' : Credits'[p] \in Int
      BY <3>1 DEF RowsAreInts, Settled
    <3> QED
      BY <2>2, <3>2, TotalRemove
  <2>5. Total(Credits', Settled(acc)) = Total(Credits, Settled(acc))
    <3>1. \A p \in Settled(acc) : Credits'[p] = Credits[p]
      BY <1>5, <2>1 DEF Settled
    <3> QED
      BY <2>2, <3>1, TotalSame
  <2>6. Settled(acc)' \ {o} = Settled(acc)
    BY <2>1
  <2>7. balance'[acc] = balance[acc] + (Subtotal[o] - fee)
    BY <1>2, <1>8 DEF IInv, TypeOK
  <2>8. Total(Credits, Settled(acc)) \in Int /\ Total(Debits, Paid(acc)) \in Int
    <3>1. \A p \in Settled(acc) : Credits[p] \in Int
      BY RowsTyped DEF RowsAreInts, Settled
    <3>2. \A k \in Paid(acc) : Debits[k] \in Int
      BY RowsTyped DEF RowsAreInts
    <3> QED
      BY <3>1, <3>2, TotalInt DEF BooksOf
  <2>9. (\A p \in overlapped : AccountOf[p] # acc) =>
           balance[acc] = Total(Credits, Settled(acc)) - Total(Debits, Paid(acc))
    BY DEF BooksOf
  <2>10. (\A p \in overlapped' : AccountOf[p] # acc) =>
           balance'[acc] = Total(Credits', Settled(acc)') - Total(Debits', Paid(acc)')
    <3> DEFINE earned == Total(Credits, Settled(acc))
               paid == Total(Debits, Paid(acc))
    <3>1. Total(Credits', Settled(acc)') = (Subtotal[o] - fee) + earned
      BY <2>3, <2>4, <2>5, <2>6, Zenon
    <3>2. Total(Debits', Paid(acc)') = paid
      BY <1>4, Zenon
    <3>3. earned \in Int /\ paid \in Int /\ Subtotal[o] - fee \in Int
      BY <1>1, <2>8
    <3> HIDE DEF earned, paid
    <3>4. balance[acc] = earned - paid => balance'[acc] = ((Subtotal[o] - fee) + earned) - paid
      BY <2>7, <3>3
    <3> QED
      BY <1>2, <2>9, <3>1, <3>2, <3>4, Zenon DEF earned, paid
  <2> QED
    BY <1>4, <2>2, <2>10 DEF BooksOf
<1> QED
  BY <1>6, <1>7, <1>8

(* A payout adds a key that paid nothing, at what it debits. *)
LEMMA PayoutBooks ==
    ASSUME IInv, IInv', NEW acc \in Accounts, BooksOf(acc),
           NEW k \in Keys, NEW by \in Accounts, NEW amount \in Amounts,
           RecordPayout(k, by, amount)
    PROVE  BooksOf(acc)'
<1>1. /\ balance' = [balance EXCEPT ![by] = @ - amount]
      /\ payoutTx[k] = NoRow
      /\ payoutTx' = [payoutTx EXCEPT ![k] = [account |-> by, amount |-> amount]]
      /\ status' = status /\ orderTx' = orderTx /\ overlapped' = overlapped
  BY DEF RecordPayout, DecrementIfSufficient
<1>2. /\ payoutTx'[k] = [account |-> by, amount |-> amount] /\ payoutTx'[k] # NoRow
      /\ \A m \in Keys : m # k => payoutTx'[m] = payoutTx[m]
  BY <1>1, SettlementAssumption DEF IInv, TypeOK
<1>3. Credits' = Credits /\ Settled(acc)' = Settled(acc)
  BY <1>1 DEF Credits, Settled
<1>4. \A m \in Keys : m # k => Debits'[m] = Debits[m]
  BY <1>2 DEF Debits
<1>5. k \notin Paid(acc)
  BY <1>1 DEF Paid
<1>6. IsFiniteSet(Paid(acc)) /\ \A m \in Paid(acc) : m \in Keys /\ m # k
  BY <1>5 DEF Paid, BooksOf
<1>7. Total(Debits', Paid(acc)) = Total(Debits, Paid(acc))
  BY <1>4, <1>6, TotalSame
<1>8. CASE by # acc
  <2>1. Paid(acc)' = Paid(acc)
    BY <1>1, <1>2, <1>8 DEF Paid
  <2>2. balance'[acc] = balance[acc]
    BY <1>1, <1>8 DEF IInv, TypeOK
  <2> QED
    BY <1>1, <1>3, <1>7, <2>1, <2>2 DEF BooksOf
<1>9. CASE by = acc
  <2>1. Paid(acc)' = Paid(acc) \cup {k}
    BY <1>2, <1>9 DEF Paid
  <2>2. IsFiniteSet(Paid(acc)') /\ k \in Paid(acc)' /\ Paid(acc)' \ {k} = Paid(acc)
    BY <1>5, <1>6, <2>1, FS_AddElement
  <2>3. Debits'[k] = amount /\ amount \in Nat
    BY <1>2, SettlementAssumption DEF Debits
  <2>4. Total(Debits', Paid(acc)') = amount + Total(Debits', Paid(acc)' \ {k})
    <3>1. RowsAreInts'
      BY RowsTyped, PTL
    <3>2. \A m \in Paid(acc)' : Debits'[m] \in Int
      BY <3>1 DEF RowsAreInts
    <3> QED
      BY <2>2, <2>3, <3>2, TotalRemove
  <2>5. balance'[acc] = balance[acc] - amount
    BY <1>1, <1>9 DEF IInv, TypeOK
  <2>6. Total(Credits, Settled(acc)) \in Int /\ Total(Debits, Paid(acc)) \in Int
    <3>1. \A p \in Settled(acc) : Credits[p] \in Int
      BY RowsTyped DEF RowsAreInts, Settled
    <3>2. \A m \in Paid(acc) : Debits[m] \in Int
      BY RowsTyped DEF RowsAreInts
    <3> QED
      BY <3>1, <3>2, TotalInt DEF BooksOf
  <2>7. (\A p \in overlapped : AccountOf[p] # acc) =>
           balance[acc] = Total(Credits, Settled(acc)) - Total(Debits, Paid(acc))
    BY DEF BooksOf
  <2>8. (\A p \in overlapped' : AccountOf[p] # acc) =>
           balance'[acc] = Total(Credits', Settled(acc)') - Total(Debits', Paid(acc)')
    <3> DEFINE earned == Total(Credits, Settled(acc))
               paid == Total(Debits, Paid(acc))
    <3>1. Total(Debits', Paid(acc)') = amount + paid
      BY <1>7, <2>2, <2>4, Zenon
    <3>2. Total(Credits', Settled(acc)') = earned
      BY <1>3, Zenon
    <3>3. earned \in Int /\ paid \in Int /\ amount \in Int
      BY <2>3, <2>6
    <3> HIDE DEF earned, paid
    <3>4. balance[acc] = earned - paid => balance'[acc] = earned - (amount + paid)
      BY <2>5, <3>3
    <3> QED
      BY <1>1, <2>7, <3>1, <3>2, <3>4, Zenon DEF earned, paid
  <2>9. IsFiniteSet(Settled(acc)')
    BY <1>3 DEF BooksOf
  <2> QED
    BY <2>2, <2>8, <2>9 DEF BooksOf
<1> QED
  BY <1>8, <1>9

LEMMA BooksKeep ==
    ASSUME IInv, StillPicked, SettledOnce, Books, [Next]_vars
    PROVE  Books'
<1>1. IInv' /\ SettledOnce'
  BY StepKeeps, SettledOnceKeeps
<1>2. ASSUME NEW acc \in Accounts PROVE BooksOf(acc)'
  <2>1. BooksOf(acc)
    BY DEF Books
  <2>2. ASSUME UNCHANGED tables, overlapped \subseteq overlapped' PROVE BooksOf(acc)'
    <3>1. /\ Credits' = Credits /\ Debits' = Debits /\ balance' = balance
          /\ Settled(acc)' = Settled(acc) /\ Paid(acc)' = Paid(acc)
      BY <2>2 DEF tables, Credits, Debits, Settled, Paid
    <3> QED
      BY <2>1, <2>2, <3>1 DEF BooksOf
  <2>3. ASSUME NEW d \in Deliveries, CommitSettlement(d) PROVE BooksOf(acc)'
    BY <1>1, <2>1, <2>3, SettlementBooks
  <2>4. ASSUME NEW k \in Keys, NEW by \in Accounts, NEW amount \in Amounts,
               RecordPayout(k, by, amount)
        PROVE  BooksOf(acc)'
    BY <1>1, <2>1, <2>4, PayoutBooks
  <2>5. ASSUME NEW d \in Deliveries, NEW o \in Orders, ReadPicked(d, o) PROVE BooksOf(acc)'
    BY <2>2, <2>5 DEF ReadPicked, StartDelivery
  <2>6. ASSUME NEW d \in Deliveries, NEW bps \in BpsValues \cup {0}, FetchBranch(d, bps)
        PROVE  BooksOf(acc)'
    BY <2>2, <2>6 DEF FetchBranch
  <2>7. ASSUME NEW d \in Deliveries, AbortSettlement(d) PROVE BooksOf(acc)'
    BY <2>2, <2>7 DEF AbortSettlement
  <2>8. CASE UNCHANGED vars
    BY <2>2, <2>8 DEF vars
  <2> QED
    BY <2>3, <2>4, <2>5, <2>6, <2>7, <2>8 DEF Next
<1> QED
  BY <1>2 DEF Books

(* The balance of an account none of whose orders were delivered by        *)
(* overlapping requests is what the orders settled earned less what was    *)
(* paid out, whatever happened to the other accounts' orders.              *)
THEOREM BalanceAlwaysAuditable == Spec => []BalanceIsAuditable
<1>1. Init => Books
  <2> SUFFICES ASSUME Init, NEW acc \in Accounts PROVE BooksOf(acc)
    BY DEF Books
  <2>1. Settled(acc) = {} /\ Paid(acc) = {} /\ balance[acc] = 0
    BY DEF Init, Settled, Paid
  <2>2. IsFiniteSet({})
    BY FS_EmptySet
  <2>3. Total(Credits, {}) = 0 /\ Total(Debits, {}) = 0
    BY <2>2, TotalUnfolds
  <2> QED
    BY <2>1, <2>2, <2>3 DEF BooksOf
<1>2. IInv /\ StillPicked /\ SettledOnce /\ Books /\ [Next]_vars => Books'
  BY BooksKeep
<1>3. Books => BalanceIsAuditable
  BY AuditedIsTotals DEF Books, BooksOf, BalanceIsAuditable
<1> QED
  BY <1>1, <1>2, <1>3, Invariant, InvariantOnce, PTL DEF Spec
=============================================================================
