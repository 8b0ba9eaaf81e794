--------------------------- MODULE OrderLifecycle ---------------------------
(***************************************************************************)
(* The life of an order row under concurrent HTTP requests: updateStatus   *)
(* of order.service.ts, claim and adminAssign of assignment.service.ts,    *)
(* transition of agent.service.ts, settleDelivered of                      *)
(* settlement.service.ts, goOffline of presence.service.ts, and the write  *)
(* of the payment webhook.                                                 *)
(*                                                                         *)
(* Every one of these handlers reads the order outside a transaction,      *)
(* checks the copy it read, and writes later: each is modelled as the step *)
(* that reads and checks, the transaction that writes (one step: its first *)
(* statement locks the row), and the Redis calls after the commit.  Between *)
(* two steps of a request the other requests run, and a request may die    *)
(* (Crash: the process stops, or the database refuses the transaction).    *)
(*                                                                         *)
(* Isolated = TRUE restricts the ENVIRONMENT, not the code: requests of    *)
(* one order, or of one agent, do not overlap.  With FALSE nothing is      *)
(* assumed, which is how the service runs.                                 *)
(*                                                                         *)
(* Left to other modules: the amounts of the settlement (Settlement), the  *)
(* placement and the payment (Checkout), the offers an agent claims from   *)
(* (here any agent may try to claim any order at any time).                *)
(***************************************************************************)
EXTENDS OrderStatus, Naturals

CONSTANTS
    Orders,      \* public ids
    Agents,      \* delivery agents
    NoAgent,     \* delivery_agent_id IS NULL
    NoOrder,     \* the order field of an idle request slot
    Requests,    \* request slots: how many requests are in flight at once
    Isolated,    \* see above
    MaxCredits   \* bound: settlements committed per order

ASSUME LifecycleAssumption ==
    /\ NoAgent \notin Agents
    /\ NoOrder \notin Orders
    /\ Isolated \in BOOLEAN
    /\ MaxCredits \in Nat \ {0}

VARIABLES
    status, agent, acceptedAt,  \* columns of the orders row
    credits,     \* settlements that credited the restaurant for the order
    events,      \* outbox rows, as <<order, event type>>
    released,    \* orders whose reserved stock was given back
    claimKey,    \* Redis claim:order:<id>, its holder
    busy,        \* Redis set presence:busy
    req,         \* the requests in flight
    offline      \* step of each agent's goOffline call

dbVars == <<status, agent, acceptedAt, credits, events, released>>
vars == <<dbVars, claimKey, busy, req, offline>>

(***************************************************************************)
(* A request in flight: its next step, the order it is about, the agent    *)
(* who sent it or whom it assigns, the status it read and the status it    *)
(* will write.  Those of the webhook and of updateStatus carry a snapshot  *)
(* of the status; those of an agent's delivery carry the agent.            *)
(***************************************************************************)
StatusSteps == {"commit", "release"}
DeliverySteps == {"claimTrx", "unclaim", "markBusy", "pick", "settle", "clearBusy", "dropKey"}

StatusRequests ==
    [step : StatusSteps, order : Orders, agent : Agents \cup {NoAgent},
     from : Statuses, to : Statuses \ {"assigned"}]
DeliveryRequests ==
    [step : DeliverySteps, order : Orders, agent : Agents,
     from : Statuses, to : {"assigned", "picked", "delivered"}]

Request(step, o, a, from, to) ==
    [step |-> step, order |-> o, agent |-> a, from |-> from, to |-> to]

Idle == Request("idle", NoOrder, NoAgent, "placed", "placed")

InFlight(r) == req[r].step # "idle"

At(r, step) == req[r].step = step

Goto(r, step) == req' = [req EXCEPT ![r].step = step]

Finish(r) == req' = [req EXCEPT ![r] = Idle]

(* A new request about order o, sent by agent a or not by an agent. *)
Admit(r, o, a) ==
    /\ ~InFlight(r)
    /\ Isolated =>
          /\ \A q \in Requests : InFlight(q) =>
                req[q].order # o /\ (a = NoAgent \/ req[q].agent # a)
          /\ \A b \in Agents : b \in {a, agent[o]} => offline[b] = "idle"

AdmitOffline(a) ==
    /\ offline[a] = "idle"
    /\ Isolated => \A q \in Requests : InFlight(q) =>
          req[q].agent # a /\ agent[req[q].order] # a

-----------------------------------------------------------------------------
Init ==
    /\ status \in [Orders -> {"pending_payment", "placed"}]
    /\ agent = [o \in Orders |-> NoAgent]
    /\ acceptedAt = [o \in Orders |-> FALSE]
    /\ credits = [o \in Orders |-> 0]
    /\ events = {<<o, "placed">> : o \in {p \in Orders : status[p] = "placed"}}
    /\ released = {}
    /\ claimKey = [o \in Orders |-> NoAgent]
    /\ busy = {}
    /\ req = [r \in Requests |-> Idle]
    /\ offline = [a \in Agents |-> "idle"]

-----------------------------------------------------------------------------
(* updateStatus: one PATCH by a customer, a restaurant member, an admin or *)
(* the order's own agent.                                                  *)

(* The agent behind a caller of this actor class: only the order's own     *)
(* agent is resolved to AGENT.                                             *)
ResolvedAgent(o, actor) == IF actor = "agent" THEN agent[o] ELSE NoAgent

ResolveStatusActor(o, actor) ==
    /\ actor \in {"customer", "restaurant", "admin", "agent"}
    /\ actor = "agent" => agent[o] # NoAgent

(* inWindow: whether less than 60 s have passed since created_at.          *)
ReadForUpdate(r, o, actor, to, reason, inWindow) ==
    /\ Admit(r, o, ResolvedAgent(o, actor))
    /\ ResolveStatusActor(o, actor)
    /\ AssertTransition(status[o], to,
                        [actor |-> actor, reason |-> reason,
                         acceptedAt |-> acceptedAt[o], inWindow |-> inWindow])
    /\ req' = [req EXCEPT ![r] =
                  Request("commit", o, ResolvedAgent(o, actor), status[o], to)]
    /\ UNCHANGED <<dbVars, claimKey, busy, offline>>

(* The statuses whose writers also insert an outbox row. *)
EventStatuses == {"placed", "accepted", "rejected", "cancelled", "delivered"}

(* updateOrderStatus: WHERE public_id = ? and nothing else. *)
WriteStatus(o, to) ==
    /\ status' = [status EXCEPT ![o] = to]
    /\ acceptedAt' = [acceptedAt EXCEPT ![o] = @ \/ to = "accepted"]

(* Mutants of CommitStatus: every event status is announced, a delivery    *)
(* without settlement included; stock goes back whatever the new status.   *)
CommitStatusAnnouncing(r) ==
    LET o == req[r].order
        to == req[r].to
    IN  /\ At(r, "commit")
        /\ WriteStatus(o, to)
        /\ events' = IF to \in EventStatuses THEN events \cup {<<o, to>>} ELSE events
        /\ IF to \in {"cancelled", "rejected"} /\ req[r].from \in StockReleaseEligible
           THEN Goto(r, "release") ELSE Finish(r)
        /\ UNCHANGED <<agent, credits, released, claimKey, busy, offline>>

CommitStatusReleasing(r) ==
    LET o == req[r].order
        to == req[r].to
    IN  /\ At(r, "commit")
        /\ WriteStatus(o, to)
        /\ events' = IF to \in EventStatuses \ {"delivered"}
                     THEN events \cup {<<o, to>>} ELSE events
        /\ IF req[r].from \in StockReleaseEligible
           THEN Goto(r, "release") ELSE Finish(r)
        /\ UNCHANGED <<agent, credits, released, claimKey, busy, offline>>

(* One transaction: the unconditional status write and the outbox row. *)
CommitStatus(r) ==
    LET o == req[r].order
        to == req[r].to
    IN  /\ At(r, "commit")
        /\ WriteStatus(o, to)
        /\ events' = IF to \in EventStatuses \ {"delivered"}
                     THEN events \cup {<<o, to>>} ELSE events
        /\ IF to \in {"cancelled", "rejected"} /\ req[r].from \in StockReleaseEligible
           THEN Goto(r, "release") ELSE Finish(r)
        /\ UNCHANGED <<agent, credits, released, claimKey, busy, offline>>

(* Best effort: the call to core may fail, and the failure is swallowed. *)
ReleaseStock(r) ==
    /\ At(r, "release")
    /\ released' \in {released, released \cup {req[r].order}}
    /\ Finish(r)
    /\ UNCHANGED <<status, agent, acceptedAt, credits, events, claimKey, busy, offline>>

(* The webhook's SUCCESS branch: the order it read was pending_payment. *)
ReadForCapture(r, o) ==
    /\ Admit(r, o, NoAgent)
    /\ status[o] = "pending_payment"
    /\ req' = [req EXCEPT ![r] = Request("commit", o, NoAgent, status[o], "placed")]
    /\ UNCHANGED <<dbVars, claimKey, busy, offline>>

-----------------------------------------------------------------------------
(* claim and adminAssign: SET NX on the claim key, then the conditional    *)
(* update.  claim also needs a live offer; see the head of the module.     *)
TrySetClaimKey(r, o, a) ==
    /\ Admit(r, o, a)
    /\ claimKey[o] = NoAgent
    /\ claimKey' = [claimKey EXCEPT ![o] = a]
    /\ req' = [req EXCEPT ![r] = Request("claimTrx", o, a, "ready", "assigned")]
    /\ UNCHANGED <<dbVars, busy, offline>>

(* Mutant of ClaimReadyOrder: the update has no condition. *)
ClaimAnyOrder(r) ==
    LET o == req[r].order
    IN  /\ At(r, "claimTrx")
        /\ status' = [status EXCEPT ![o] = "assigned"]
        /\ agent' = [agent EXCEPT ![o] = req[r].agent]
        /\ Goto(r, "markBusy")
        /\ UNCHANGED <<acceptedAt, credits, events, released, claimKey, busy, offline>>

(* UPDATE ... WHERE status = 'ready' AND delivery_agent_id IS NULL *)
ClaimReadyOrder(r) ==
    LET o == req[r].order
    IN  /\ At(r, "claimTrx")
        /\ status[o] = "ready" /\ agent[o] = NoAgent
        /\ status' = [status EXCEPT ![o] = "assigned"]
        /\ agent' = [agent EXCEPT ![o] = req[r].agent]
        /\ Goto(r, "markBusy")
        /\ UNCHANGED <<acceptedAt, credits, events, released, claimKey, busy, offline>>

(* No row matched: the key is deleted here, and again in the catch block. *)
ClaimRefused(r) ==
    LET o == req[r].order
    IN  /\ At(r, "claimTrx")
        /\ ~(status[o] = "ready" /\ agent[o] = NoAgent)
        /\ claimKey' = [claimKey EXCEPT ![o] = NoAgent]
        /\ Goto(r, "unclaim")
        /\ UNCHANGED <<dbVars, busy, offline>>

UnclaimAgain(r) ==
    /\ At(r, "unclaim")
    /\ claimKey' = [claimKey EXCEPT ![req[r].order] = NoAgent]
    /\ Finish(r)
    /\ UNCHANGED <<dbVars, busy, offline>>

MarkBusy(r) ==
    /\ At(r, "markBusy")
    /\ busy' = busy \cup {req[r].agent}
    /\ Finish(r)
    /\ UNCHANGED <<dbVars, claimKey, offline>>

(* The claim key's TTL. *)
ClaimKeyExpires(o) ==
    /\ claimKey[o] # NoAgent
    /\ claimKey' = [claimKey EXCEPT ![o] = NoAgent]
    /\ UNCHANGED <<dbVars, busy, req, offline>>

-----------------------------------------------------------------------------
(* Mutants of ReadForPick and ReadForSettle: only the agent is checked.    *)
ReadForPickAny(r, o, a) ==
    /\ Admit(r, o, a)
    /\ agent[o] = a
    /\ req' = [req EXCEPT ![r] = Request("pick", o, a, "assigned", "picked")]
    /\ UNCHANGED <<dbVars, claimKey, busy, offline>>

ReadForSettleAny(r, o, a) ==
    /\ Admit(r, o, a)
    /\ agent[o] = a
    /\ req' = [req EXCEPT ![r] = Request("settle", o, a, "picked", "delivered")]
    /\ UNCHANGED <<dbVars, claimKey, busy, offline>>

(* The agent's own PATCH: picked, then delivered with its settlement.      *)
ReadForPick(r, o, a) ==
    /\ Admit(r, o, a)
    /\ agent[o] = a /\ status[o] = "assigned"
    /\ req' = [req EXCEPT ![r] = Request("pick", o, a, "assigned", "picked")]
    /\ UNCHANGED <<dbVars, claimKey, busy, offline>>

CommitPick(r) ==
    /\ At(r, "pick")
    /\ WriteStatus(req[r].order, "picked")
    /\ Finish(r)
    /\ UNCHANGED <<agent, credits, events, released, claimKey, busy, offline>>

ReadForSettle(r, o, a) ==
    /\ Admit(r, o, a)
    /\ agent[o] = a /\ status[o] = "picked"
    /\ req' = [req EXCEPT ![r] = Request("settle", o, a, "picked", "delivered")]
    /\ UNCHANGED <<dbVars, claimKey, busy, offline>>

(* The settlement transaction: balance credited, status and outbox written. *)
CommitSettle(r) ==
    LET o == req[r].order
    IN  /\ At(r, "settle")
        /\ credits[o] < MaxCredits
        /\ credits' = [credits EXCEPT ![o] = @ + 1]
        /\ WriteStatus(o, "delivered")
        /\ events' = events \cup {<<o, "delivered">>}
        /\ Goto(r, "clearBusy")
        /\ UNCHANGED <<agent, released, claimKey, busy, offline>>

ClearBusy(r) ==
    /\ At(r, "clearBusy")
    /\ busy' = busy \ {req[r].agent}
    /\ Goto(r, "dropKey")
    /\ UNCHANGED <<dbVars, claimKey, offline>>

DropClaimKey(r) ==
    /\ At(r, "dropKey")
    /\ claimKey' = [claimKey EXCEPT ![req[r].order] = NoAgent]
    /\ Finish(r)
    /\ UNCHANGED <<dbVars, busy, offline>>

-----------------------------------------------------------------------------
(* goOffline: refuse while an order is picked, give the assigned ones      *)
(* back, then forget the presence.  The claim keys stay.                   *)
Holds(a, statuses) == \E o \in Orders : agent[o] = a /\ status[o] \in statuses

(* Mutant of CheckNothingPicked: an agent carrying an order may go offline. *)
CheckNothing(a) ==
    /\ AdmitOffline(a)
    /\ offline' = [offline EXCEPT ![a] = "reset"]
    /\ UNCHANGED <<dbVars, claimKey, busy, req>>

CheckNothingPicked(a) ==
    /\ AdmitOffline(a)
    /\ ~Holds(a, {"picked"})
    /\ offline' = [offline EXCEPT ![a] = "reset"]
    /\ UNCHANGED <<dbVars, claimKey, busy, req>>

ResetAssigned(a) ==
    LET given == {o \in Orders : agent[o] = a /\ status[o] = "assigned"}
    IN  /\ offline[a] = "reset"
        /\ status' = [o \in Orders |-> IF o \in given THEN "ready" ELSE status[o]]
        /\ agent' = [o \in Orders |-> IF o \in given THEN NoAgent ELSE agent[o]]
        /\ offline' = [offline EXCEPT ![a] = "clear"]
        /\ UNCHANGED <<acceptedAt, credits, events, released, claimKey, busy, req>>

ForgetPresence(a) ==
    /\ offline[a] = "clear"
    /\ busy' = busy \ {a}
    /\ offline' = [offline EXCEPT ![a] = "idle"]
    /\ UNCHANGED <<dbVars, claimKey, req>>

(* The process dies between two steps of goOffline. *)
OfflineCrash(a) ==
    /\ offline[a] # "idle"
    /\ offline' = [offline EXCEPT ![a] = "idle"]
    /\ UNCHANGED <<dbVars, claimKey, busy, req>>

-----------------------------------------------------------------------------
(* The process dies, or the transaction fails and is rolled back. *)
Crash(r) ==
    /\ InFlight(r)
    /\ Finish(r)
    /\ UNCHANGED <<dbVars, claimKey, busy, offline>>

StartRequest(r) ==
    \E o \in Orders :
        \/ ReadForCapture(r, o)
        \/ \E actor \in StatusActors, to \in Statuses, reason, inWindow \in BOOLEAN :
              ReadForUpdate(r, o, actor, to, reason, inWindow)
        \/ \E a \in Agents : \/ TrySetClaimKey(r, o, a)
                             \/ ReadForPick(r, o, a)
                             \/ ReadForSettle(r, o, a)

ContinueRequest(r) ==
    \/ CommitStatus(r) \/ ReleaseStock(r)
    \/ ClaimReadyOrder(r) \/ ClaimRefused(r) \/ UnclaimAgain(r) \/ MarkBusy(r)
    \/ CommitPick(r) \/ CommitSettle(r) \/ ClearBusy(r) \/ DropClaimKey(r)
    \/ Crash(r)

GoOffline(a) ==
    CheckNothingPicked(a) \/ ResetAssigned(a) \/ ForgetPresence(a) \/ OfflineCrash(a)

Next ==
    \/ \E r \in Requests : StartRequest(r) \/ ContinueRequest(r)
    \/ \E a \in Agents : GoOffline(a)
    \/ \E o \in Orders : ClaimKeyExpires(o)

Spec == Init /\ [][Next]_vars

-----------------------------------------------------------------------------
(* Properties                                                              *)

TypeOK ==
    /\ status \in [Orders -> Statuses]
    /\ agent \in [Orders -> Agents \cup {NoAgent}]
    /\ acceptedAt \in [Orders -> BOOLEAN]
    /\ credits \in [Orders -> 0..MaxCredits]
    /\ events \subseteq Orders \X EventStatuses
    /\ released \subseteq Orders
    /\ claimKey \in [Orders -> Agents \cup {NoAgent}]
    /\ busy \subseteq Agents
    /\ req \in [Requests -> {Idle} \cup StatusRequests \cup DeliveryRequests]
    /\ offline \in [Agents -> {"idle", "reset", "clear"}]

-----------------------------------------------------------------------------
(* Whatever overlaps.                                                      *)

(* An order in "assigned" has its agent, however the requests interleave:  *)
(* claim, adminAssign and goOffline write the two columns in one           *)
(* statement, and no other handler writes "assigned" or clears the agent.  *)
AssignedHasAgent == \A o \in Orders : status[o] = "assigned" => agent[o] # NoAgent

(* An order never passes directly from one agent to another: two claims,   *)
(* or a claim and an admin assignment, cannot both win, even when the      *)
(* claim key of one was deleted or expired under it.                       *)
NoHandover ==
    [][\A o \in Orders : agent[o] # NoAgent /\ agent'[o] # agent[o]
          => agent'[o] = NoAgent /\ status[o] = "assigned"]_vars

(* Money and its announcement are one transaction: an order.delivered row  *)
(* exists exactly for the orders whose settlement was credited.            *)
DeliveredEventIffCredited ==
    \A o \in Orders : <<o, "delivered">> \in events <=> credits[o] > 0

-----------------------------------------------------------------------------
(* When requests of one order or one agent do not overlap.                 *)

(* The lifecycle implements the abstract machine. *)
Machine == INSTANCE OrderMachine
               WITH credited <- {o \in Orders : credits[o] > 0}
ImplementsOrderMachine == Machine!Spec

(* An order is in the hands of an agent exactly from its assignment on: a  *)
(* ready order is free to be offered and claimed, a picked one belongs to  *)
(* somebody who can deliver it.                                            *)
AgentMatchesStatus ==
    \A o \in Orders :
        /\ status[o] \in {"assigned", "picked", "delivered"} => agent[o] # NoAgent
        /\ status[o] \in {"pending_payment", "placed", "accepted", "rejected",
                          "preparing", "ready"} => agent[o] = NoAgent

(* The restaurant is credited at most once, and only for a delivery. *)
CreditedOnce ==
    \A o \in Orders : credits[o] > 0 => credits[o] = 1 /\ status[o] = "delivered"

(* Stock is given back only for an order that is dead: nothing that will   *)
(* be cooked or delivered has lost its reservation.                        *)
ReleasedIsDead == \A o \in released : status[o] \in {"rejected", "cancelled"}

(* The consumers of the outbox hear of at most one ending of an order. *)
OneEnding ==
    \A o \in Orders : \A x, y \in Terminal :
        <<o, x>> \in events /\ <<o, y>> \in events => x = y

(* Once goOffline gave the orders back, the agent holds none in delivery. *)
OfflineHoldsNothing ==
    \A a \in Agents : offline[a] = "clear" => ~Holds(a, {"assigned", "picked"})

(***************************************************************************)
(* Why these hold, as an inductive invariant: with Isolated, no two        *)
(* requests are about the same order, no request is about an agent who is  *)
(* going offline, and so what a request read is still true when it writes. *)
(***************************************************************************)
Apart ==
    \A q, r \in Requests :
        q # r /\ InFlight(q) /\ InFlight(r) => req[q].order # req[r].order

OfflineApart ==
    \A a \in Agents, r \in Requests :
        offline[a] # "idle" /\ InFlight(r) => req[r].agent # a /\ agent[req[r].order] # a

SnapshotFresh ==
    \A r \in Requests :
        LET o == req[r].order
        IN  /\ At(r, "commit") =>
                  /\ status[o] = req[r].from
                  /\ <<req[r].from, req[r].to>> \in Edges
                  /\ req[r].to \in {"picked", "delivered"} => agent[o] # NoAgent
            /\ At(r, "release") => status[o] \in {"rejected", "cancelled"}
            /\ At(r, "pick") => status[o] = "assigned" /\ agent[o] # NoAgent
            /\ At(r, "settle") => status[o] = "picked" /\ agent[o] # NoAgent

EndingIsStatus ==
    \A o \in Orders, x \in Terminal : <<o, x>> \in events => status[o] = x

OfflineProgress ==
    \A a \in Agents :
        /\ offline[a] # "idle" => ~Holds(a, {"picked"})
        /\ offline[a] = "clear" => ~Holds(a, {"assigned"})

IsolatedInv ==
    /\ Apart /\ OfflineApart /\ SnapshotFresh
    /\ AgentMatchesStatus /\ CreditedOnce /\ ReleasedIsDead
    /\ EndingIsStatus /\ OfflineProgress
=============================================================================
