---------------------------- MODULE OrderMachine ----------------------------
(***************************************************************************)
(* What the order service promises of an order, seen from outside: its     *)
(* status moves only along the table, an agent is attached exactly when    *)
(* the order becomes assigned and detached only when the agent goes        *)
(* offline before picking it up, and money is credited only by the step    *)
(* that delivers the order.  OrderLifecycle implements it when the         *)
(* requests of one order or one agent do not overlap.                      *)
(***************************************************************************)
EXTENDS OrderStatus

CONSTANTS Orders, Agents, NoAgent

VARIABLES status, agent, credited

vars == <<status, agent, credited>>

Init ==
    /\ status \in [Orders -> {"pending_payment", "placed"}]
    /\ agent = [o \in Orders |-> NoAgent]
    /\ credited = {}

(* One step along the table; "assigned" has its own action. *)
Move(o, to) ==
    /\ <<status[o], to>> \in Edges
    /\ to # "assigned"
    /\ status' = [status EXCEPT ![o] = to]
    /\ UNCHANGED <<agent, credited>>

(* A ready order without agent gets one. *)
Assign(o, a) ==
    /\ status[o] = "ready" /\ agent[o] = NoAgent
    /\ status' = [status EXCEPT ![o] = "assigned"]
    /\ agent' = [agent EXCEPT ![o] = a]
    /\ UNCHANGED credited

(* An agent gives back every order it has not picked up. *)
Withdraw(a) ==
    LET given == {o \in Orders : status[o] = "assigned" /\ agent[o] = a}
    IN  /\ given # {}
        /\ status' = [o \in Orders |-> IF o \in given THEN "ready" ELSE status[o]]
        /\ agent' = [o \in Orders |-> IF o \in given THEN NoAgent ELSE agent[o]]
        /\ UNCHANGED credited

(* The order is delivered and its money credited, once and together. *)
Settle(o) ==
    /\ status[o] = "picked" /\ agent[o] # NoAgent /\ o \notin credited
    /\ status' = [status EXCEPT ![o] = "delivered"]
    /\ credited' = credited \cup {o}
    /\ UNCHANGED agent

Next ==
    \/ \E o \in Orders, to \in Statuses : Move(o, to)
    \/ \E o \in Orders, a \in Agents : Assign(o, a)
    \/ \E a \in Agents : Withdraw(a)
    \/ \E o \in Orders : Settle(o)

Spec == Init /\ [][Next]_vars
=============================================================================
