---------------------------- MODULE OrderStatus ----------------------------
(***************************************************************************)
(* The status machine of an order: the TRANSITIONS table and               *)
(* assertTransition of order-status.service.ts, as pure operators.  The    *)
(* stamp column of a rule is left out: the only stamp any guard reads is   *)
(* accepted_at, and every rule whose target is "accepted" sets it.         *)
(***************************************************************************)

Statuses == {"pending_payment", "placed", "accepted", "rejected", "preparing",
             "ready", "assigned", "picked", "delivered", "cancelled"}

StatusActors == {"customer", "restaurant", "agent", "admin", "system"}

Rule(from, to, actors, requiresReason) ==
    [from |-> from, to |-> to, actors |-> actors, requiresReason |-> requiresReason]

Transitions ==
    { Rule("pending_payment", "placed",    {"system"}, FALSE),
      Rule("pending_payment", "cancelled", {"customer", "system"}, FALSE),
      Rule("placed",          "accepted",  {"restaurant"}, FALSE),
      Rule("placed",          "rejected",  {"restaurant"}, TRUE),
      Rule("placed",          "cancelled", {"customer", "restaurant", "system", "admin"}, TRUE),
      Rule("accepted",        "preparing", {"restaurant"}, FALSE),
      Rule("accepted",        "cancelled", {"restaurant", "admin"}, TRUE),
      Rule("preparing",       "ready",     {"restaurant"}, FALSE),
      Rule("preparing",       "cancelled", {"restaurant", "admin"}, TRUE),
      Rule("ready",           "assigned",  {"system"}, FALSE),
      Rule("ready",           "cancelled", {"restaurant", "admin"}, TRUE),
      Rule("assigned",        "picked",    {"agent"}, FALSE),
      Rule("assigned",        "cancelled", {"admin"}, TRUE),
      Rule("picked",          "delivered", {"agent"}, FALSE) }

(***************************************************************************)
(* The customer's cancellation window of a placed order is over once the   *)
(* restaurant accepted it, or 60 s after it was created.                   *)
(***************************************************************************)
CancelWindowExpired(from, to, ctx) ==
    /\ ctx.actor = "customer" /\ from = "placed" /\ to = "cancelled"
    /\ ctx.acceptedAt \/ ~ctx.inWindow

AssertTransition(from, to, ctx) ==
    /\ \E rule \in Transitions :
          /\ rule.from = from /\ rule.to = to
          /\ ctx.actor \in rule.actors
          /\ rule.requiresReason => ctx.reason
    /\ ~CancelWindowExpired(from, to, ctx)

Edges == {<<rule.from, rule.to>> : rule \in Transitions}

Terminal == {"rejected", "delivered", "cancelled"}

(***************************************************************************)
(* Statuses whose cancellation gives the reserved stock back: the kitchen  *)
(* has not started.                                                        *)
(***************************************************************************)
StockReleaseEligible == {"pending_payment", "placed", "accepted"}
=============================================================================
