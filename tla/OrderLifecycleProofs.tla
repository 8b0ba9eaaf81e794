------------------------ MODULE OrderLifecycleProofs ------------------------
(* Theorems about OrderLifecycle, for every value of its constants.        *)
EXTENDS OrderLifecycle, TLAPS

ReqType == [Requests -> {Idle} \cup StatusRequests \cup DeliveryRequests]

(* No caller of updateStatus is the system: the two targets only the       *)
(* system may write are out of its reach.                                  *)
LEMMA CallerTargets ==
    ASSUME NEW from \in Statuses, NEW to \in Statuses, NEW ctx,
           ctx.actor \in {"customer", "restaurant", "admin", "agent"},
           AssertTransition(from, to, ctx)
    PROVE  to \notin {"assigned", "placed"}
BY DEF AssertTransition, Transitions, Rule

(* How the request table changes its type: one lemma per way to write it.  *)
LEMMA FinishType ==
    ASSUME req \in ReqType, NEW r \in Requests, Finish(r)
    PROVE  req' \in ReqType
BY DEF ReqType, Finish

LEMMA GotoStatusType ==
    ASSUME req \in ReqType, NEW r \in Requests, req[r].step \in StatusSteps,
           NEW step \in StatusSteps, Goto(r, step)
    PROVE  req' \in ReqType
BY DEF ReqType, Goto, Idle, Request, StatusRequests, DeliveryRequests, StatusSteps, DeliverySteps

LEMMA GotoDeliveryType ==
    ASSUME req \in ReqType, NEW r \in Requests, req[r].step \in DeliverySteps,
           NEW step \in DeliverySteps, Goto(r, step)
    PROVE  req' \in ReqType
BY DEF ReqType, Goto, Idle, Request, StatusRequests, DeliveryRequests, StatusSteps, DeliverySteps

LEMMA RequestFields ==
    ASSUME req \in ReqType, NEW r \in Requests
    PROVE  /\ req[r].step \in StatusSteps => req[r] \in StatusRequests
           /\ req[r].step \in DeliverySteps => req[r] \in DeliveryRequests
           /\ InFlight(r) <=> req[r].step \in StatusSteps \cup DeliverySteps
BY DEF ReqType, InFlight, Idle, Request, StatusRequests, DeliveryRequests, StatusSteps, DeliverySteps

-----------------------------------------------------------------------------
(* Type correctness. *)
LEMMA TypeInit == Init => TypeOK
BY LifecycleAssumption DEF Init, TypeOK, Statuses, EventStatuses

LEMMA TypeStart ==
    ASSUME TypeOK, NEW r \in Requests, StartRequest(r)
    PROVE  TypeOK'
<1> USE DEF TypeOK, dbVars, Request, StatusRequests, DeliveryRequests, StatusSteps, DeliverySteps
<1> PICK o \in Orders :
        \/ ReadForCapture(r, o)
        \/ \E actor \in StatusActors, to \in Statuses, reason, inWindow \in BOOLEAN :
              ReadForUpdate(r, o, actor, to, reason, inWindow)
        \/ \E a \in Agents : \/ TrySetClaimKey(r, o, a)
                             \/ ReadForPick(r, o, a)
                             \/ ReadForSettle(r, o, a)
    BY DEF StartRequest
<1>1. CASE ReadForCapture(r, o)
    BY <1>1 DEF ReadForCapture, Statuses
<1>2. ASSUME NEW actor \in StatusActors, NEW to \in Statuses, NEW reason \in BOOLEAN,
             NEW inWindow \in BOOLEAN, ReadForUpdate(r, o, actor, to, reason, inWindow)
      PROVE  TypeOK'
    <2>1. to # "assigned"
        BY <1>2, CallerTargets DEF ReadForUpdate, ResolveStatusActor
    <2> QED
        BY <1>2, <2>1 DEF ReadForUpdate, ResolvedAgent
<1>3. ASSUME NEW a \in Agents, TrySetClaimKey(r, o, a)
      PROVE  TypeOK'
    BY <1>3 DEF TrySetClaimKey, Statuses
<1>4. ASSUME NEW a \in Agents, ReadForPick(r, o, a)
      PROVE  TypeOK'
    BY <1>4 DEF ReadForPick, Statuses
<1>5. ASSUME NEW a \in Agents, ReadForSettle(r, o, a)
      PROVE  TypeOK'
    BY <1>5 DEF ReadForSettle, Statuses
<1>6. QED BY <1>1, <1>2, <1>3, <1>4, <1>5

LEMMA TypeContinue ==
    ASSUME TypeOK, NEW r \in Requests, ContinueRequest(r)
    PROVE  TypeOK'
<1>0. req \in ReqType
    BY DEF TypeOK, ReqType
<1>1. SUFFICES ASSUME req' \in ReqType PROVE TypeOK'
    <2>1. \/ Finish(r)
          \/ \E step \in StatusSteps : req[r].step \in StatusSteps /\ Goto(r, step)
          \/ \E step \in DeliverySteps : req[r].step \in DeliverySteps /\ Goto(r, step)
        BY DEF ContinueRequest, CommitStatus, ReleaseStock, ClaimReadyOrder, ClaimRefused,
               UnclaimAgain, MarkBusy, CommitPick, CommitSettle, ClearBusy, DropClaimKey,
               Crash, At, StatusSteps, DeliverySteps
    <2> QED BY <1>0, <2>1, FinishType, GotoStatusType, GotoDeliveryType
<1> USE <1>0, <1>1, RequestFields DEF At, StatusSteps, DeliverySteps, StatusRequests,
        DeliveryRequests, ReqType, TypeOK, dbVars
<1>2. CASE CommitStatus(r)
    BY <1>2 DEF CommitStatus, WriteStatus, EventStatuses
<1>3. CASE ReleaseStock(r)
    BY <1>3 DEF ReleaseStock
<1>4. CASE ClaimReadyOrder(r)
    BY <1>4 DEF ClaimReadyOrder, Statuses
<1>5. CASE ClaimRefused(r) \/ UnclaimAgain(r)
    BY <1>5 DEF ClaimRefused, UnclaimAgain
<1>6. CASE MarkBusy(r) \/ ClearBusy(r)
    BY <1>6 DEF MarkBusy, ClearBusy
<1>7. CASE CommitPick(r)
    BY <1>7 DEF CommitPick, WriteStatus, Statuses
<1>8. CASE CommitSettle(r)
    BY <1>8, LifecycleAssumption DEF CommitSettle, WriteStatus, Statuses, EventStatuses
<1>9. CASE DropClaimKey(r)
    BY <1>9 DEF DropClaimKey
<1>10. CASE Crash(r)
    BY <1>10 DEF Crash
<1>11. QED
    BY <1>2, <1>3, <1>4, <1>5, <1>6, <1>7, <1>8, <1>9, <1>10 DEF ContinueRequest

LEMMA TypeOther ==
    ASSUME TypeOK,
           \/ \E a \in Agents : GoOffline(a)
           \/ \E o \in Orders : ClaimKeyExpires(o)
           \/ UNCHANGED vars
    PROVE  TypeOK'
<1>1. CASE \E a \in Agents : GoOffline(a)
    BY <1>1 DEF GoOffline, CheckNothingPicked, ResetAssigned, ForgetPresence, OfflineCrash,
                TypeOK, dbVars, Statuses
<1>2. CASE \E o \in Orders : ClaimKeyExpires(o)
    BY <1>2 DEF ClaimKeyExpires, TypeOK, dbVars
<1>3. CASE UNCHANGED vars
    BY <1>3 DEF vars, dbVars, TypeOK
<1>4. QED BY <1>1, <1>2, <1>3

THEOREM TypeCorrect == Spec => []TypeOK
<1>1. TypeOK /\ [Next]_vars => TypeOK'
    BY TypeStart, TypeContinue, TypeOther DEF Next
<1>2. QED BY TypeInit, <1>1, PTL DEF Spec

-----------------------------------------------------------------------------
(* What the steps may do to an order's agent: the three facts the          *)
(* unconditional theorems need, read off the actions once.                 *)
LEMMA AgentWrites ==
    ASSUME TypeOK, [Next]_vars, NEW o \in Orders
    PROVE  \/ /\ agent'[o] = agent[o]
              /\ status'[o] = "assigned" => status[o] = "assigned"
           \/ /\ agent[o] = NoAgent /\ agent'[o] \in Agents
              /\ status[o] = "ready" /\ status'[o] = "assigned"
           \/ /\ agent'[o] = NoAgent
              /\ status[o] = "assigned" /\ status'[o] = "ready"
<1> DEFINE Goal ==
           \/ /\ agent'[o] = agent[o]
              /\ status'[o] = "assigned" => status[o] = "assigned"
           \/ /\ agent[o] = NoAgent /\ agent'[o] \in Agents
              /\ status[o] = "ready" /\ status'[o] = "assigned"
           \/ /\ agent'[o] = NoAgent
              /\ status[o] = "assigned" /\ status'[o] = "ready"
<1> USE DEF TypeOK, dbVars
<1>1. ASSUME NEW r \in Requests, StartRequest(r) PROVE Goal
    BY <1>1 DEF StartRequest, ReadForCapture, ReadForUpdate, TrySetClaimKey,
                ReadForPick, ReadForSettle
<1>2. ASSUME NEW r \in Requests, ContinueRequest(r) PROVE Goal
    <2> USE RequestFields DEF ReqType, At, StatusSteps, DeliverySteps, StatusRequests, DeliveryRequests
    <2>1. CASE CommitStatus(r)
        BY <2>1 DEF CommitStatus, WriteStatus
    <2>2. CASE ClaimReadyOrder(r)
        BY <2>2 DEF ClaimReadyOrder
    <2>3. CASE CommitPick(r) \/ CommitSettle(r)
        BY <2>3 DEF CommitPick, CommitSettle, WriteStatus
    <2>4. CASE \/ ReleaseStock(r) \/ ClaimRefused(r) \/ UnclaimAgain(r) \/ MarkBusy(r)
               \/ ClearBusy(r) \/ DropClaimKey(r) \/ Crash(r)
        BY <2>4 DEF ReleaseStock, ClaimRefused, UnclaimAgain, MarkBusy, ClearBusy,
                    DropClaimKey, Crash
    <2>5. QED BY <1>2, <2>1, <2>2, <2>3, <2>4 DEF ContinueRequest
<1>3. ASSUME NEW a \in Agents, GoOffline(a) PROVE Goal
    BY <1>3 DEF GoOffline, CheckNothingPicked, ResetAssigned, ForgetPresence, OfflineCrash
<1>4. ASSUME NEW p \in Orders, ClaimKeyExpires(p) PROVE Goal
    BY <1>4 DEF ClaimKeyExpires
<1>5. CASE UNCHANGED vars
    BY <1>5 DEF vars
<1>6. QED BY <1>1, <1>2, <1>3, <1>4, <1>5 DEF Next

(* An order in "assigned" has its agent, whatever the interleaving.        *)
THEOREM AssignedAlwaysHasAgent == Spec => []AssignedHasAgent
<1>1. Init => AssignedHasAgent
    BY DEF Init, AssignedHasAgent
<1>2. TypeOK /\ AssignedHasAgent /\ [Next]_vars => AssignedHasAgent'
    BY AgentWrites, LifecycleAssumption DEF AssignedHasAgent
<1>3. QED BY <1>1, <1>2, TypeCorrect, PTL DEF Spec

(* An order never passes directly from one agent to another.               *)
THEOREM NeverHandedOver == Spec => NoHandover
<1>1. TypeOK /\ [Next]_vars =>
        [\A o \in Orders : agent[o] # NoAgent /\ agent'[o] # agent[o]
            => agent'[o] = NoAgent /\ status[o] = "assigned"]_vars
    BY AgentWrites
<1>2. QED BY <1>1, TypeCorrect, PTL DEF Spec, NoHandover

(* The credit and the order.delivered row stand or fall together.          *)
THEOREM CreditAndEventTogether == Spec => []DeliveredEventIffCredited
<1>1. Init => DeliveredEventIffCredited
    BY DEF Init, DeliveredEventIffCredited
<1>2. TypeOK /\ DeliveredEventIffCredited /\ [Next]_vars => DeliveredEventIffCredited'
    <2> SUFFICES ASSUME TypeOK, DeliveredEventIffCredited, [Next]_vars
                 PROVE  DeliveredEventIffCredited'
        OBVIOUS
    <2> USE DEF TypeOK, dbVars, DeliveredEventIffCredited
    <2>1. ASSUME NEW r \in Requests, StartRequest(r) PROVE UNCHANGED <<credits, events>>
        BY <2>1 DEF StartRequest, ReadForCapture, ReadForUpdate, TrySetClaimKey,
                    ReadForPick, ReadForSettle
    <2>2. ASSUME NEW r \in Requests, CommitStatus(r) PROVE DeliveredEventIffCredited'
        BY <2>2 DEF CommitStatus
    <2>3. ASSUME NEW r \in Requests, CommitSettle(r) PROVE DeliveredEventIffCredited'
        <3>1. req[r].order \in Orders
            BY <2>3, RequestFields
               DEF CommitSettle, At, ReqType, DeliverySteps, DeliveryRequests
        <3>2. \A o \in Orders : credits[o] \in Nat
            BY LifecycleAssumption
        <3>3. \A o \in Orders : credits'[o] =
                 IF o = req[r].order THEN credits[o] + 1 ELSE credits[o]
            BY <2>3, <3>1 DEF CommitSettle
        <3>4. events' = events \cup {<<req[r].order, "delivered">>}
            BY <2>3 DEF CommitSettle
        <3>5. ASSUME NEW o \in Orders
              PROVE  <<o, "delivered">> \in events' <=> credits'[o] > 0
            <4>1. CASE o = req[r].order
                <5>1. <<o, "delivered">> \in events'
                    BY <3>4, <4>1
                <5>2. credits'[o] > 0
                    BY <3>2, <3>3, <4>1
                <5> QED BY <5>1, <5>2
            <4>2. CASE o # req[r].order
                <5>1. <<o, "delivered">> \in events' <=> <<o, "delivered">> \in events
                    BY <3>4, <4>2
                <5>2. credits'[o] = credits[o]
                    BY <3>3, <4>2
                <5> QED BY <5>1, <5>2
            <4> QED BY <4>1, <4>2
        <3>6. QED BY <3>5
    <2>4. ASSUME NEW r \in Requests, ContinueRequest(r), ~CommitStatus(r), ~CommitSettle(r)
          PROVE UNCHANGED <<credits, events>>
        BY <2>4 DEF ContinueRequest, ReleaseStock, ClaimReadyOrder, ClaimRefused, UnclaimAgain,
                    MarkBusy, CommitPick, ClearBusy, DropClaimKey, Crash
    <2>5. ASSUME \/ \E a \in Agents : GoOffline(a)
                 \/ \E o \in Orders : ClaimKeyExpires(o)
                 \/ UNCHANGED vars
          PROVE UNCHANGED <<credits, events>>
        BY <2>5 DEF GoOffline, CheckNothingPicked, ResetAssigned, ForgetPresence, OfflineCrash,
                    ClaimKeyExpires, vars
    <2>6. QED BY <2>1, <2>2, <2>3, <2>4, <2>5 DEF Next
<1>3. QED BY <1>1, <1>2, TypeCorrect, PTL DEF Spec

-----------------------------------------------------------------------------
(***************************************************************************)
(* What OrderLifecycle guarantees when the requests of one order, or of    *)
(* one agent, do not overlap: IsolatedInv is inductive, the isolated       *)
(* invariants follow, and the lifecycle implements OrderMachine.           *)
(***************************************************************************)

(* What the table says of the two ends of an edge.                         *)
LEMMA EdgeFacts ==
    ASSUME NEW from, NEW to, <<from, to>> \in Edges
    PROVE  /\ from \notin Terminal /\ from # to
           /\ from \in Statuses /\ to \in Statuses
           /\ to = "ready" => from = "preparing"
           /\ to = "assigned" => from = "ready"
           /\ to = "picked" => from = "assigned"
           /\ to = "delivered" => from = "picked"
           /\ to \in {"placed", "accepted", "rejected", "preparing"} =>
                 from \in {"pending_payment", "placed", "accepted"}
           /\ to # "pending_payment"
BY DEF Edges, Transitions, Rule, Terminal, Statuses

(* What assertTransition lets through is an edge, and only the agent picks *)
(* up and delivers.                                                        *)
LEMMA AssertedIsEdge ==
    ASSUME NEW from \in Statuses, NEW to \in Statuses, NEW ctx, AssertTransition(from, to, ctx)
    PROVE  /\ <<from, to>> \in Edges
           /\ to \in {"picked", "delivered"} => ctx.actor = "agent"
<1>1. PICK rule \in Transitions : /\ rule.from = from /\ rule.to = to
                                  /\ ctx.actor \in rule.actors
    BY DEF AssertTransition
<1>2. <<from, to>> \in Edges
    BY <1>1 DEF Edges
<1>3. to \in {"picked", "delivered"} => ctx.actor = "agent"
    BY <1>1 DEF Transitions, Rule
<1>4. QED BY <1>2, <1>3

LEMMA IsolatedInit == Init => IsolatedInv
BY LifecycleAssumption
   DEF Init, IsolatedInv, Apart, OfflineApart, SnapshotFresh, AgentMatchesStatus, CreditedOnce,
       ReleasedIsDead, EndingIsStatus, OfflineProgress, InFlight, At, Idle, Request, Holds, Terminal

(* The eight parts by what they read: those over the requests and those    *)
(* over the order rows.                                                    *)
RequestPart == Apart /\ OfflineApart /\ SnapshotFresh
OrderPart == AgentMatchesStatus /\ CreditedOnce /\ ReleasedIsDead /\ EndingIsStatus /\ OfflineProgress

(* A request starts: the rows stay, and the new request is apart from the  *)
(* others and has just read the order.                                     *)
LEMMA StartKeeps ==
    ASSUME TypeOK, IsolatedInv, Isolated, NEW r \in Requests, NEW o \in Orders,
           NEW a \in Agents \cup {NoAgent}, Admit(r, o, a),
           UNCHANGED <<dbVars, offline>>,
           NEW step \in {"commit", "claimTrx", "pick", "settle"},
           NEW from \in Statuses, NEW to \in Statuses,
           req' = [req EXCEPT ![r] = Request(step, o, a, from, to)],
           step = "commit" => /\ status[o] = from /\ <<from, to>> \in Edges
                              /\ to \in {"picked", "delivered"} => agent[o] # NoAgent,
           step = "pick" => status[o] = "assigned" /\ agent[o] # NoAgent,
           step = "settle" => status[o] = "picked" /\ agent[o] # NoAgent
    PROVE  IsolatedInv'
<1> USE DEF TypeOK, dbVars
<1>1. req'[r] = Request(step, o, a, from, to) /\ \A q \in Requests : q # r => req'[q] = req[q]
    OBVIOUS
<1>2. Apart'
    BY <1>1 DEF IsolatedInv, Apart, Admit, InFlight, Request
<1>3. OfflineApart'
    BY <1>1 DEF IsolatedInv, OfflineApart, Admit, InFlight, Request
<1>4. SnapshotFresh'
    BY <1>1 DEF IsolatedInv, SnapshotFresh, At, Request
<1>5. OrderPart'
    BY DEF IsolatedInv, OrderPart, AgentMatchesStatus, CreditedOnce, ReleasedIsDead,
           EndingIsStatus, OfflineProgress, Holds
<1>6. QED BY <1>2, <1>3, <1>4, <1>5 DEF IsolatedInv, OrderPart

LEMMA IsolatedStart ==
    ASSUME TypeOK, IsolatedInv, Isolated, NEW r \in Requests, StartRequest(r)
    PROVE  IsolatedInv'
<1> USE DEF TypeOK, dbVars
<1> PICK o \in Orders :
        \/ ReadForCapture(r, o)
        \/ \E actor \in StatusActors, to \in Statuses, reason, inWindow \in BOOLEAN :
              ReadForUpdate(r, o, actor, to, reason, inWindow)
        \/ \E a \in Agents : \/ TrySetClaimKey(r, o, a)
                             \/ ReadForPick(r, o, a)
                             \/ ReadForSettle(r, o, a)
    BY DEF StartRequest
<1>1. CASE ReadForCapture(r, o)
    <2>1. <<"pending_payment", "placed">> \in Edges
        BY DEF Edges, Transitions, Rule
    <2> QED
        BY <1>1, <2>1, StartKeeps DEF ReadForCapture, Statuses
<1>2. ASSUME NEW actor \in StatusActors, NEW to \in Statuses, NEW reason \in BOOLEAN,
             NEW inWindow \in BOOLEAN, ReadForUpdate(r, o, actor, to, reason, inWindow)
      PROVE  IsolatedInv'
    <2> DEFINE ctx == [actor |-> actor, reason |-> reason,
                       acceptedAt |-> acceptedAt[o], inWindow |-> inWindow]
               a == ResolvedAgent(o, actor)
    <2>1. AssertTransition(status[o], to, ctx)
        BY <1>2 DEF ReadForUpdate
    <2>2. status[o] \in Statuses
        OBVIOUS
    <2>3. <<status[o], to>> \in Edges /\ (to \in {"picked", "delivered"} => actor = "agent")
        BY <2>1, <2>2, AssertedIsEdge
    <2>4. a \in Agents \cup {NoAgent}
        BY DEF ResolvedAgent
    <2>5. to \in {"picked", "delivered"} => agent[o] # NoAgent
        BY <1>2, <2>3 DEF ReadForUpdate, ResolveStatusActor
    <2>6. /\ Admit(r, o, a) /\ UNCHANGED <<dbVars, offline>>
          /\ req' = [req EXCEPT ![r] = Request("commit", o, a, status[o], to)]
        BY <1>2 DEF ReadForUpdate
    <2> QED
        BY <2>2, <2>3, <2>4, <2>5, <2>6, StartKeeps
<1>3. ASSUME NEW a \in Agents, TrySetClaimKey(r, o, a) PROVE IsolatedInv'
    BY <1>3, StartKeeps DEF TrySetClaimKey, Statuses
<1>4. ASSUME NEW a \in Agents, ReadForPick(r, o, a) PROVE IsolatedInv'
    BY <1>4, StartKeeps, LifecycleAssumption DEF ReadForPick, Statuses
<1>5. ASSUME NEW a \in Agents, ReadForSettle(r, o, a) PROVE IsolatedInv'
    BY <1>5, StartKeeps, LifecycleAssumption DEF ReadForSettle, Statuses
<1>6. QED BY <1>1, <1>2, <1>3, <1>4, <1>5

-----------------------------------------------------------------------------
(* A request in flight goes on.  Its own order is the only row it writes,  *)
(* and no other request is about that order.                               *)

(* The request part survives a step of r that leaves the other requests    *)
(* alone, keeps r's order and agent or ends r, and whose new snapshot is   *)
(* fresh.                                                                  *)
LEMMA ContinueKeepsRequests ==
    ASSUME TypeOK, IsolatedInv, NEW r \in Requests, InFlight(r), UNCHANGED offline,
           req' \in [Requests -> {Idle} \cup StatusRequests \cup DeliveryRequests],
           \A q \in Requests : q # r => req'[q] = req[q],
           \/ req'[r] = Idle
           \/ /\ req'[r].order = req[r].order /\ req'[r].agent = req[r].agent
              /\ req'[r].step \in {"release", "unclaim", "markBusy", "clearBusy", "dropKey"}
              /\ At(r, "release")' => status'[req[r].order] \in {"rejected", "cancelled"},
           \A o \in Orders : o # req[r].order => status'[o] = status[o] /\ agent'[o] = agent[o],
           agent'[req[r].order] \in {agent[req[r].order], req[r].agent}
    PROVE  RequestPart'
<1> USE DEF TypeOK
<1>1. Apart'
    BY DEF IsolatedInv, Apart, InFlight, Idle, Request
<1>2. OfflineApart'
    <2> SUFFICES ASSUME NEW a \in Agents, NEW q \in Requests, offline[a] # "idle", InFlight(q)'
                 PROVE  req'[q].agent # a /\ agent'[req'[q].order] # a
        BY DEF OfflineApart
    <2>1. CASE q = r
        BY <2>1 DEF IsolatedInv, OfflineApart, InFlight, Idle, Request
    <2>2. CASE q # r
        <3>1. InFlight(q) /\ req'[q] = req[q] /\ req[q].order # req[r].order
            BY <2>2 DEF IsolatedInv, Apart, InFlight
        <3>2. req[q].order \in Orders
            BY <3>1, RequestFields DEF ReqType, StatusRequests, DeliveryRequests
        <3> QED
            BY <3>1, <3>2 DEF IsolatedInv, OfflineApart
    <2> QED BY <2>1, <2>2
<1>3. SnapshotFresh'
    <2> SUFFICES ASSUME NEW q \in Requests
                 PROVE  LET o == req'[q].order
                        IN  /\ At(q, "commit")' =>
                                  /\ status'[o] = req'[q].from
                                  /\ <<req'[q].from, req'[q].to>> \in Edges
                                  /\ req'[q].to \in {"picked", "delivered"} => agent'[o] # NoAgent
                            /\ At(q, "release")' => status'[o] \in {"rejected", "cancelled"}
                            /\ At(q, "pick")' => status'[o] = "assigned" /\ agent'[o] # NoAgent
                            /\ At(q, "settle")' => status'[o] = "picked" /\ agent'[o] # NoAgent
        BY DEF SnapshotFresh, At
    <2>1. CASE q = r
        BY <2>1 DEF At, Idle, Request
    <2>2. CASE q # r /\ InFlight(q)
        <3>1. req'[q] = req[q] /\ req[q].order # req[r].order
            BY <2>2 DEF IsolatedInv, Apart
        <3>2. req[q].order \in Orders
            BY <2>2, RequestFields DEF ReqType, StatusRequests, DeliveryRequests
        <3> QED
            BY <3>1, <3>2 DEF IsolatedInv, SnapshotFresh, At
    <2>3. CASE q # r /\ ~InFlight(q)
        BY <2>3 DEF InFlight, At
    <2> QED BY <2>1, <2>2, <2>3
<1>4. QED BY <1>1, <1>2, <1>3 DEF RequestPart

LEMMA IsolatedContinue ==
    ASSUME TypeOK, TypeOK', IsolatedInv, NEW r \in Requests, ContinueRequest(r)
    PROVE  IsolatedInv'
<1> DEFINE o == req[r].order
<1>1. InFlight(r) /\ UNCHANGED offline
    BY DEF ContinueRequest, CommitStatus, ReleaseStock, ClaimReadyOrder, ClaimRefused,
           UnclaimAgain, MarkBusy, CommitPick, CommitSettle, ClearBusy, DropClaimKey,
           Crash, At, InFlight
<1>2. /\ o \in Orders /\ req \in ReqType
      /\ req[r].step \in DeliverySteps => req[r].agent \in Agents
    BY <1>1, RequestFields DEF TypeOK, ReqType, StatusRequests, DeliveryRequests
<1>3. \A q \in Requests : q # r => req'[q] = req[q]
    BY <1>2 DEF ContinueRequest, CommitStatus, ReleaseStock, ClaimReadyOrder, ClaimRefused,
           UnclaimAgain, MarkBusy, CommitPick, CommitSettle, ClearBusy, DropClaimKey,
           Crash, Finish, Goto, ReqType
<1>4. SUFFICES ASSUME
             \/ req'[r] = Idle
             \/ /\ req'[r].order = o /\ req'[r].agent = req[r].agent
                /\ req'[r].step \in {"release", "unclaim", "markBusy", "clearBusy", "dropKey"}
      PROVE  IsolatedInv'
    <2>1. \/ Finish(r)
          \/ \E step \in {"release", "unclaim", "markBusy", "clearBusy", "dropKey"} : Goto(r, step)
        BY DEF ContinueRequest, CommitStatus, ReleaseStock, ClaimReadyOrder, ClaimRefused,
               UnclaimAgain, MarkBusy, CommitPick, CommitSettle, ClearBusy, DropClaimKey, Crash
    <2>2. CASE Finish(r)
        BY <1>2, <1>4, <2>2 DEF Finish, ReqType
    <2>3. ASSUME NEW step \in {"release", "unclaim", "markBusy", "clearBusy", "dropKey"},
                 Goto(r, step)
          PROVE  /\ req'[r].order = o /\ req'[r].agent = req[r].agent
                 /\ req'[r].step = step
        BY <1>1, <1>2, <2>3, RequestFields
           DEF Goto, ReqType, StatusRequests, DeliveryRequests
    <2> QED BY <1>4, <2>1, <2>2, <2>3
<1> USE <1>1, <1>2, <1>3, <1>4
<1>5. CASE CommitStatus(r)
    <2>1. /\ status[o] = req[r].from
          /\ <<req[r].from, req[r].to>> \in Edges
          /\ req[r].to \in {"picked", "delivered"} => agent[o] # NoAgent
          /\ req[r].to # "assigned"
        BY <1>5, RequestFields DEF CommitStatus, IsolatedInv, SnapshotFresh, At, StatusRequests, StatusSteps
    <2>2. /\ status' = [status EXCEPT ![o] = req[r].to]
          /\ UNCHANGED <<agent, credits, released, offline>>
          /\ events' = events \/ events' = events \cup {<<o, req[r].to>>}
        BY <1>5 DEF CommitStatus, WriteStatus
    <2>3. At(r, "release")' => req[r].to \in {"cancelled", "rejected"}
        BY <1>5 DEF CommitStatus, Finish, Goto, At, ReqType, Idle, Request
    <2>4. RequestPart'
        BY <2>2, <2>3, ContinueKeepsRequests DEF TypeOK
    <2>5. EndingIsStatus'
        <3>1. status[o] \notin Terminal
            BY <2>1, EdgeFacts
        <3> SUFFICES ASSUME NEW p \in Orders, NEW x \in Terminal, <<p, x>> \in events'
                     PROVE  status'[p] = x
            BY DEF EndingIsStatus
        <3>2. CASE p = o
            <4>1. <<p, x>> \notin events
                BY <3>1, <3>2 DEF IsolatedInv, EndingIsStatus
            <4>2. x = req[r].to
                BY <2>2, <4>1
            <4> QED BY <2>2, <3>2, <4>2 DEF TypeOK
        <3>3. CASE p # o
            <4>1. <<p, x>> \in events
                BY <2>2, <3>3
            <4> QED BY <2>2, <3>3, <4>1 DEF TypeOK, IsolatedInv, EndingIsStatus
        <3> QED BY <3>2, <3>3
    <2>6. AgentMatchesStatus' /\ CreditedOnce' /\ ReleasedIsDead'
        BY <2>1, <2>2, EdgeFacts
           DEF IsolatedInv, AgentMatchesStatus, CreditedOnce, ReleasedIsDead, TypeOK, Terminal
    <2>7. OfflineProgress'
        <3>1. \A a \in Agents : offline[a] # "idle" => agent[o] # a
            BY DEF IsolatedInv, OfflineApart
        <3> QED
            BY <2>2, <3>1 DEF IsolatedInv, OfflineProgress, Holds, TypeOK
    <2> QED BY <2>4, <2>5, <2>6, <2>7 DEF RequestPart, IsolatedInv
<1>6. CASE ReleaseStock(r)
    <2>1. status[o] \in {"rejected", "cancelled"}
        BY <1>6 DEF ReleaseStock, IsolatedInv, SnapshotFresh
    <2>2. /\ UNCHANGED <<status, agent, credits, events, offline>> /\ req'[r] = Idle
          /\ released' \subseteq released \cup {o}
        BY <1>6 DEF ReleaseStock, Finish, ReqType
    <2>3. RequestPart'
        BY <2>2, ContinueKeepsRequests DEF TypeOK, At, Idle, Request
    <2> QED
        BY <2>1, <2>2, <2>3 DEF RequestPart, IsolatedInv, AgentMatchesStatus, CreditedOnce,
               ReleasedIsDead, EndingIsStatus, OfflineProgress, Holds
<1>7. CASE ClaimReadyOrder(r)
    <2>1. /\ status[o] = "ready" /\ agent[o] = NoAgent /\ req[r].agent \in Agents
          /\ status' = [status EXCEPT ![o] = "assigned"]
          /\ agent' = [agent EXCEPT ![o] = req[r].agent]
          /\ UNCHANGED <<credits, released, events>>
          /\ ~At(r, "release")'
        BY <1>7 DEF ClaimReadyOrder, At, DeliverySteps, Goto, ReqType
    <2>2. RequestPart'
        BY <2>1, ContinueKeepsRequests DEF TypeOK
    <2>3. AgentMatchesStatus' /\ CreditedOnce' /\ ReleasedIsDead' /\ EndingIsStatus'
        BY <2>1, LifecycleAssumption
           DEF IsolatedInv, AgentMatchesStatus, CreditedOnce, ReleasedIsDead, EndingIsStatus,
               TypeOK, Terminal
    <2>4. OfflineProgress'
        <3>1. \A a \in Agents : offline[a] # "idle" => req[r].agent # a
            BY DEF IsolatedInv, OfflineApart
        <3> QED
            BY <2>1, <3>1 DEF IsolatedInv, OfflineProgress, Holds, TypeOK
    <2> QED BY <2>2, <2>3, <2>4 DEF RequestPart, IsolatedInv
<1>8. CASE CommitPick(r)
    <2>1. status[o] = "assigned" /\ agent[o] # NoAgent
        BY <1>8 DEF CommitPick, IsolatedInv, SnapshotFresh
    <2>2. /\ status' = [status EXCEPT ![o] = "picked"]
          /\ UNCHANGED <<agent, credits, released, events>> /\ req'[r] = Idle
        BY <1>8 DEF CommitPick, WriteStatus, Finish, ReqType
    <2>3. RequestPart'
        BY <2>2, ContinueKeepsRequests DEF TypeOK, At, Idle, Request
    <2>4. AgentMatchesStatus' /\ CreditedOnce' /\ ReleasedIsDead' /\ EndingIsStatus'
        BY <2>1, <2>2
           DEF IsolatedInv, AgentMatchesStatus, CreditedOnce, ReleasedIsDead, EndingIsStatus,
               TypeOK, Terminal
    <2>5. OfflineProgress'
        <3>1. \A a \in Agents : offline[a] # "idle" => agent[o] # a
            BY DEF IsolatedInv, OfflineApart
        <3> QED
            BY <2>2, <3>1 DEF IsolatedInv, OfflineProgress, Holds, TypeOK
    <2> QED BY <2>3, <2>4, <2>5 DEF RequestPart, IsolatedInv
<1>9. CASE CommitSettle(r)
    <2>1. status[o] = "picked" /\ agent[o] # NoAgent
        BY <1>9 DEF CommitSettle, IsolatedInv, SnapshotFresh
    <2>2. credits[o] = 0
        BY <2>1, LifecycleAssumption DEF IsolatedInv, CreditedOnce, TypeOK
    <2>3. /\ status' = [status EXCEPT ![o] = "delivered"]
          /\ credits' = [credits EXCEPT ![o] = @ + 1]
          /\ events' = events \cup {<<o, "delivered">>}
          /\ UNCHANGED <<agent, released>>
          /\ ~At(r, "release")'
        BY <1>9 DEF CommitSettle, WriteStatus, At, Goto, ReqType
    <2>4. RequestPart'
        BY <2>3, ContinueKeepsRequests DEF TypeOK
    <2>5. CreditedOnce'
        BY <2>2, <2>3 DEF IsolatedInv, CreditedOnce, TypeOK
    <2>6. AgentMatchesStatus' /\ ReleasedIsDead' /\ EndingIsStatus'
        BY <2>1, <2>3
           DEF IsolatedInv, AgentMatchesStatus, ReleasedIsDead, EndingIsStatus, TypeOK, Terminal
    <2>7. OfflineProgress'
        BY <2>3 DEF IsolatedInv, OfflineProgress, Holds, TypeOK
    <2> QED BY <2>4, <2>5, <2>6, <2>7 DEF RequestPart, IsolatedInv
<1>10. CASE \/ ClaimRefused(r) \/ UnclaimAgain(r) \/ MarkBusy(r)
            \/ ClearBusy(r) \/ DropClaimKey(r) \/ Crash(r)
    <2>1. UNCHANGED dbVars
        BY <1>10 DEF ClaimRefused, UnclaimAgain, MarkBusy, ClearBusy, DropClaimKey, Crash
    <2>2. ~At(r, "release")'
        <3>1. CASE Finish(r)
            BY <3>1 DEF Finish, At, ReqType, Idle, Request
        <3>2. ASSUME NEW step \in {"unclaim", "dropKey"}, Goto(r, step) PROVE ~At(r, "release")'
            BY <3>2, RequestFields DEF Goto, At, ReqType, StatusRequests, DeliveryRequests
        <3> QED
            BY <1>10, <3>1, <3>2
               DEF ClaimRefused, UnclaimAgain, MarkBusy, ClearBusy, DropClaimKey, Crash
    <2>3. RequestPart'
        BY <2>1, <2>2, ContinueKeepsRequests DEF TypeOK, dbVars
    <2> QED
        BY <2>1, <2>3 DEF dbVars, RequestPart, IsolatedInv, AgentMatchesStatus, CreditedOnce,
               ReleasedIsDead, EndingIsStatus, OfflineProgress, Holds
<1>11. QED
    BY <1>5, <1>6, <1>7, <1>8, <1>9, <1>10 DEF ContinueRequest

-----------------------------------------------------------------------------
(* An agent goes offline: no request is about the agent or its orders.     *)
LEMMA IsolatedOffline ==
    ASSUME TypeOK, IsolatedInv, Isolated, NEW a \in Agents, GoOffline(a)
    PROVE  IsolatedInv'
<1> USE DEF TypeOK
<1>1. CASE CheckNothingPicked(a)
    <2>1. UNCHANGED <<dbVars, req>> /\ offline' = [offline EXCEPT ![a] = "reset"]
        BY <1>1 DEF CheckNothingPicked
    <2>2. OfflineApart'
        BY <1>1, <2>1 DEF CheckNothingPicked, AdmitOffline, IsolatedInv, OfflineApart, InFlight, dbVars
    <2>3. OfflineProgress'
        BY <1>1, <2>1 DEF CheckNothingPicked, IsolatedInv, OfflineProgress, Holds, dbVars
    <2> QED
        BY <2>1, <2>2, <2>3 DEF IsolatedInv, dbVars, Apart, SnapshotFresh, InFlight, At,
               AgentMatchesStatus, CreditedOnce, ReleasedIsDead, EndingIsStatus
<1>2. CASE ResetAssigned(a)
    <2>1. /\ UNCHANGED <<req, credits, events, released>>
          /\ offline[a] = "reset" /\ offline' = [offline EXCEPT ![a] = "clear"]
          /\ \A o \in Orders :
                IF agent[o] = a /\ status[o] = "assigned"
                THEN status'[o] = "ready" /\ agent'[o] = NoAgent
                ELSE status'[o] = status[o] /\ agent'[o] = agent[o]
        BY <1>2 DEF ResetAssigned
    <2>2. \A r \in Requests : InFlight(r) => /\ req[r].order \in Orders
                                            /\ agent[req[r].order] # a
        BY <2>1, RequestFields
           DEF ReqType, StatusRequests, DeliveryRequests, IsolatedInv, OfflineApart
    <2>3. Apart'
        BY <2>1 DEF IsolatedInv, Apart, InFlight
    <2>4. OfflineApart'
        BY <2>1, <2>2 DEF IsolatedInv, OfflineApart, InFlight
    <2>5. SnapshotFresh'
        BY <2>1, <2>2 DEF IsolatedInv, SnapshotFresh, InFlight, At
    <2>6. AgentMatchesStatus' /\ CreditedOnce' /\ ReleasedIsDead' /\ EndingIsStatus'
        BY <2>1 DEF IsolatedInv, AgentMatchesStatus, CreditedOnce, ReleasedIsDead,
               EndingIsStatus, Terminal
    <2>7. OfflineProgress'
        BY <2>1, LifecycleAssumption DEF IsolatedInv, OfflineProgress, Holds
    <2> QED BY <2>3, <2>4, <2>5, <2>6, <2>7 DEF IsolatedInv
<1>3. CASE ForgetPresence(a) \/ OfflineCrash(a)
    <2>1. UNCHANGED <<dbVars, req>> /\ offline' = [offline EXCEPT ![a] = "idle"]
        BY <1>3 DEF ForgetPresence, OfflineCrash
    <2>2. OfflineApart' /\ OfflineProgress'
        BY <2>1 DEF IsolatedInv, OfflineApart, OfflineProgress, Holds, InFlight, dbVars
    <2> QED
        BY <2>1, <2>2 DEF IsolatedInv, dbVars, Apart, SnapshotFresh, InFlight, At,
               AgentMatchesStatus, CreditedOnce, ReleasedIsDead, EndingIsStatus
<1>4. QED BY <1>1, <1>2, <1>3 DEF GoOffline

LEMMA IsolatedStutter ==
    ASSUME IsolatedInv, UNCHANGED <<dbVars, req, offline>>
    PROVE  IsolatedInv'
BY DEF IsolatedInv, dbVars, Apart, OfflineApart, SnapshotFresh, InFlight, At, Holds,
       AgentMatchesStatus, CreditedOnce, ReleasedIsDead, EndingIsStatus, OfflineProgress

(* Isolated requests keep the rows, the money, the stock, the events and   *)
(* the agents of every order consistent.                                   *)
THEOREM IsolatedInvariant == Isolated /\ Spec => []IsolatedInv
<1>1. Isolated /\ TypeOK /\ TypeOK' /\ IsolatedInv /\ [Next]_vars => IsolatedInv'
    <2> SUFFICES ASSUME Isolated, TypeOK, TypeOK', IsolatedInv, [Next]_vars
                 PROVE  IsolatedInv'
        OBVIOUS
    <2>1. CASE \E o \in Orders : ClaimKeyExpires(o)
        BY <2>1, IsolatedStutter DEF ClaimKeyExpires
    <2>2. CASE UNCHANGED vars
        BY <2>2, IsolatedStutter DEF vars
    <2>3. QED
        BY <2>1, <2>2, IsolatedStart, IsolatedContinue, IsolatedOffline DEF Next
<1>2. ASSUME Isolated PROVE Spec => []IsolatedInv
    <2>1. TypeOK /\ TypeOK' /\ IsolatedInv /\ [Next]_vars => IsolatedInv'
        BY <1>1, <1>2
    <2> QED BY <2>1, IsolatedInit, TypeCorrect, PTL DEF Spec
<1>3. QED BY <1>2

(* The agent column agrees with the status, credits happen once, stock is  *)
(* released only for dead orders, and an order has one announced ending.   *)
THEOREM IsolatedSafety ==
    Isolated /\ Spec => [](AgentMatchesStatus /\ CreditedOnce /\ ReleasedIsDead
                          /\ OneEnding /\ OfflineHoldsNothing)
<1>1. IsolatedInv => /\ AgentMatchesStatus /\ CreditedOnce /\ ReleasedIsDead
                     /\ OneEnding /\ OfflineHoldsNothing
    <2> SUFFICES ASSUME IsolatedInv PROVE OneEnding /\ OfflineHoldsNothing
        BY DEF IsolatedInv
    <2>1. OneEnding
        BY DEF IsolatedInv, EndingIsStatus, OneEnding
    <2>2. OfflineHoldsNothing
        BY DEF IsolatedInv, OfflineProgress, OfflineHoldsNothing, Holds
    <2> QED BY <2>1, <2>2
<1>2. QED BY <1>1, IsolatedInvariant, PTL

(* The parts of it, each by its own name.  An order is credited once at    *)
(* most, and only when it is delivered.                                    *)
THEOREM AlwaysCreditedOnce == Isolated /\ Spec => []CreditedOnce
BY IsolatedSafety, PTL

(* Stock is given back for dead orders only.                               *)
THEOREM ReleasedAlwaysDead == Isolated /\ Spec => []ReleasedIsDead
BY IsolatedSafety, PTL

(* Once goOffline gave the orders back, the agent holds none in delivery.  *)
THEOREM OfflineAlwaysHoldsNothing == Isolated /\ Spec => []OfflineHoldsNothing
BY IsolatedSafety, PTL

-----------------------------------------------------------------------------
(* Refinement: what each step is in the abstract machine.                  *)
LEMMA RefineInit == Init => Machine!Init
BY DEF Init, Machine!Init

LEMMA RefineContinue ==
    ASSUME TypeOK, IsolatedInv, NEW r \in Requests, ContinueRequest(r)
    PROVE  Machine!Next \/ UNCHANGED Machine!vars
<1> DEFINE o == req[r].order
<1>1. /\ InFlight(r) => o \in Orders
      /\ req[r].step \in DeliverySteps => req[r].agent \in Agents
      /\ req \in ReqType
    BY RequestFields DEF TypeOK, ReqType, StatusRequests, DeliveryRequests
<1>2. CASE CommitStatus(r)
    <2>1. /\ o \in Orders /\ status[o] = req[r].from /\ <<req[r].from, req[r].to>> \in Edges
          /\ req[r].to # "assigned"
        BY <1>1, <1>2, RequestFields
           DEF CommitStatus, IsolatedInv, SnapshotFresh, At, InFlight, StatusRequests, StatusSteps
    <2>2. Machine!Move(o, req[r].to)
        BY <1>2, <2>1 DEF CommitStatus, WriteStatus, Machine!Move, Edges, Machine!Edges,
               Machine!Transitions, Transitions, Machine!Rule, Rule
    <2>3. req[r].to \in Statuses
        BY <2>1, EdgeFacts
    <2> QED BY <2>1, <2>2, <2>3 DEF Machine!Next, Machine!Statuses, Statuses
<1>3. CASE ClaimReadyOrder(r)
    <2>1. o \in Orders /\ req[r].agent \in Agents
        BY <1>1, <1>3 DEF ClaimReadyOrder, At, InFlight, DeliverySteps
    <2>2. Machine!Assign(o, req[r].agent)
        BY <1>3 DEF ClaimReadyOrder, Machine!Assign
    <2> QED BY <2>1, <2>2 DEF Machine!Next
<1>4. CASE CommitPick(r)
    <2>1. o \in Orders /\ status[o] = "assigned"
        BY <1>1, <1>4 DEF CommitPick, At, InFlight, IsolatedInv, SnapshotFresh
    <2>2. <<"assigned", "picked">> \in Machine!Edges
        BY DEF Machine!Edges, Machine!Transitions, Machine!Rule
    <2>3. Machine!Move(o, "picked")
        BY <1>4, <2>1, <2>2 DEF CommitPick, WriteStatus, Machine!Move
    <2> QED BY <2>1, <2>3 DEF Machine!Next, Machine!Statuses
<1>5. CASE CommitSettle(r)
    <2>1. o \in Orders /\ status[o] = "picked" /\ agent[o] # NoAgent
        BY <1>1, <1>5 DEF CommitSettle, At, InFlight, IsolatedInv, SnapshotFresh
    <2>2. credits[o] = 0 /\ \A p \in Orders : credits[p] \in Nat
        BY <2>1, LifecycleAssumption DEF IsolatedInv, CreditedOnce, TypeOK
    <2>3. credits' = [credits EXCEPT ![o] = 1] /\ credits \in [Orders -> 0..MaxCredits]
        BY <1>5, <2>2 DEF CommitSettle, TypeOK
    <2>4. {p \in Orders : credits'[p] > 0} = {p \in Orders : credits[p] > 0} \cup {o}
        BY <2>1, <2>2, <2>3
    <2>5. Machine!Settle(o)
        BY <1>5, <2>1, <2>2, <2>4 DEF CommitSettle, WriteStatus, Machine!Settle
    <2> QED BY <2>1, <2>5 DEF Machine!Next, Machine!Settle
<1>6. CASE \/ ReleaseStock(r) \/ ClaimRefused(r) \/ UnclaimAgain(r) \/ MarkBusy(r)
           \/ ClearBusy(r) \/ DropClaimKey(r) \/ Crash(r)
    BY <1>6 DEF ReleaseStock, ClaimRefused, UnclaimAgain, MarkBusy, ClearBusy, DropClaimKey,
                Crash, dbVars, Machine!vars
<1>7. QED BY <1>2, <1>3, <1>4, <1>5, <1>6 DEF ContinueRequest

(* With isolated requests the lifecycle implements the abstract machine.   *)
THEOREM IsolatedRefinement == Isolated /\ Spec => ImplementsOrderMachine
<1>1. TypeOK /\ IsolatedInv /\ [Next]_vars => [Machine!Next]_(Machine!vars)
    <2> SUFFICES ASSUME TypeOK, IsolatedInv, [Next]_vars
                 PROVE  Machine!Next \/ UNCHANGED Machine!vars
        OBVIOUS
    <2>1. ASSUME NEW r \in Requests, StartRequest(r) PROVE UNCHANGED Machine!vars
        BY <2>1 DEF StartRequest, ReadForCapture, ReadForUpdate, TrySetClaimKey, ReadForPick,
               ReadForSettle, dbVars, Machine!vars
    <2>2. ASSUME NEW a \in Agents, GoOffline(a) PROVE Machine!Next \/ UNCHANGED Machine!vars
        <3>1. CASE ResetAssigned(a) /\ \E o \in Orders : status[o] = "assigned" /\ agent[o] = a
            <4>1. Machine!Withdraw(a)
                BY <3>1 DEF ResetAssigned, Machine!Withdraw
            <4> QED BY <4>1 DEF Machine!Next
        <3>2. CASE ResetAssigned(a) /\ ~\E o \in Orders : status[o] = "assigned" /\ agent[o] = a
            <4>1. status' = status /\ agent' = agent
                BY <3>2 DEF ResetAssigned, TypeOK
            <4> QED BY <3>2, <4>1 DEF ResetAssigned, Machine!vars
        <3>3. CASE CheckNothingPicked(a) \/ ForgetPresence(a) \/ OfflineCrash(a)
            BY <3>3 DEF CheckNothingPicked, ForgetPresence, OfflineCrash, dbVars, Machine!vars
        <3> QED BY <2>2, <3>1, <3>2, <3>3 DEF GoOffline
    <2>3. ASSUME NEW o \in Orders, ClaimKeyExpires(o) PROVE UNCHANGED Machine!vars
        BY <2>3 DEF ClaimKeyExpires, dbVars, Machine!vars
    <2>4. CASE UNCHANGED vars
        BY <2>4 DEF vars, dbVars, Machine!vars
    <2>5. QED BY <2>1, <2>2, <2>3, <2>4, RefineContinue DEF Next
<1>2. Isolated /\ Spec => []IsolatedInv
    BY IsolatedInvariant
<1>3. QED
    BY <1>1, <1>2, RefineInit, TypeCorrect, PTL DEF Spec, ImplementsOrderMachine, Machine!Spec
=============================================================================
