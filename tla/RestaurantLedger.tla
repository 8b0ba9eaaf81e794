-------------------------- MODULE RestaurantLedger --------------------------
(***************************************************************************)
(* What the ledger of the restaurants promises: every delivered order is   *)
(* credited once, at a net amount fixed when it is delivered, and every    *)
(* payout key debits once, never more than is there.                       *)
(***************************************************************************)
EXTENDS Integers

CONSTANTS Orders, Accounts, AccountOf, Keys, NoRow

VARIABLES balance,   \* of each account
          net,       \* what each order was credited, NoRow before
          payout     \* what each payout key debited, NoRow before

vars == <<balance, net, payout>>

Init ==
    /\ balance = [acc \in Accounts |-> 0]
    /\ net = [o \in Orders |-> NoRow]
    /\ payout = [k \in Keys |-> NoRow]

Credit(o) ==
    /\ net[o] = NoRow /\ net'[o] \in Nat
    /\ net' = [net EXCEPT ![o] = net'[o]]
    /\ balance' = [balance EXCEPT ![AccountOf[o]] = @ + net'[o]]
    /\ UNCHANGED payout

Debit(k) ==
    LET row == payout'[k]
    IN  /\ payout[k] = NoRow /\ row # NoRow
        /\ payout' = [payout EXCEPT ![k] = row]
        /\ row.amount <= balance[row.account]
        /\ balance' = [balance EXCEPT ![row.account] = @ - row.amount]
        /\ UNCHANGED net

Next == \/ \E o \in Orders : Credit(o)
        \/ \E k \in Keys : Debit(k)

Spec == Init /\ [][Next]_vars
=============================================================================
