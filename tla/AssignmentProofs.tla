-------------------------- MODULE AssignmentProofs --------------------------
(***************************************************************************)
(* The safety of Assignment, for any orders, agents, worker processes,     *)
(* requests and cap: the bound on the broadcasts whatever fails and        *)
(* overlaps, and who may win an order when its requests do not overlap.    *)
(***************************************************************************)
EXTENDS Assignment, FiniteSetTheorems, TLAPS

(* A worker between two orders, and one at an order; a request in flight.  *)
Waiting == [batch : SUBSET Orders, step : {"next"}, order : {NoOrder}, found : {{}}]

Trying == [batch : SUBSET Orders, step : {"attempts", "find", "offer", "count", "emit"},
           order : Orders, found : SUBSET Agents]

InFlight == [step : {"rewrite", "trySet", "commit", "unclaim", "busy", "drop"},
             order : Orders, agent : Agents, rest : SUBSET Agents]

LEMMA TypeShape ==
    ASSUME TypeOK
    PROVE  /\ worker \in [Workers -> Waiting \cup Trying]
           /\ request \in [Requests -> {IdleRequest} \cup InFlight]
BY DEF TypeOK, Waiting, Trying, InFlight

LEMMA AtOrder ==
    ASSUME TypeOK, NEW w \in Workers, worker[w].order # NoOrder
    PROVE  worker[w] \in Trying /\ worker[w].order \in Orders
BY TypeShape DEF Waiting, Trying

LEMMA BatchIsOrders ==
    ASSUME TypeOK, NEW w \in Workers
    PROVE  worker[w].batch \subseteq Orders
BY TypeShape DEF Waiting, Trying

LEMMA Handled ==
    ASSUME TypeOK, NEW r \in Requests, request[r].step # "idle"
    PROVE  request[r] \in InFlight /\ request[r].order \in Orders /\ request[r].agent \in Agents
BY TypeShape DEF InFlight, IdleRequest

-----------------------------------------------------------------------------
(* Typing.                                                                 *)

LEMMA InitTypes == Init => TypeOK
<1> SUFFICES ASSUME Init PROVE TypeOK
    OBVIOUS
<1>1. worker \in [Workers -> Waiting]
    BY DEF Init, IdleWorker, Waiting
<1>2. request \in [Requests -> {IdleRequest}]
    BY DEF Init
<1> QED BY <1>1, <1>2 DEF Init, TypeOK, Waiting

(* What a worker's step may leave behind. *)
LEMMA FinishTypes ==
    ASSUME TypeOK, NEW w \in Workers, Finish(w)
    PROVE  worker' \in [Workers -> Waiting \cup Trying]
<1>1. [IdleWorker EXCEPT !.batch = worker[w].batch] \in Waiting
    BY BatchIsOrders DEF IdleWorker, Waiting
<1> QED BY <1>1, TypeShape DEF Finish

LEMMA GotoTypes ==
    ASSUME TypeOK, NEW w \in Workers, worker[w] \in Trying,
           NEW step \in {"attempts", "find", "offer", "count", "emit"}, Goto(w, step)
    PROVE  worker' \in [Workers -> Waiting \cup Trying]
<1>1. [worker[w] EXCEPT !.step = step] \in Trying
    BY DEF Trying
<1> QED BY <1>1, TypeShape DEF Goto

LEMMA AtTries ==
    ASSUME TypeOK, NEW w \in Workers, NEW o \in Orders, NEW step, At(w, step, o)
    PROVE  worker[w] \in Trying /\ worker[w].order = o
<1>1. worker[w].order # NoOrder
    BY AssignmentAssumption DEF At
<1> QED BY <1>1, AtOrder DEF At

LEMMA TryAssignTypes ==
    ASSUME TypeOK, NEW w \in Workers, NEW o \in Orders,
           \/ CheckOffer(w, o) \/ CheckAttempts(w, o) \/ FindCandidates(w, o)
           \/ SetOffer(w, o) \/ CountAttempt(w, o) \/ Broadcast(w, o)
    PROVE  TypeOK'
<1> DEFINE Workable == worker' \in [Workers -> Waiting \cup Trying]
<1>0. Workable /\ UNCHANGED <<rowVars, claim, presenceVars, request>>
         /\ offer' \in [Orders -> SUBSET Agents] /\ attempts' \in [Orders -> Nat]
         /\ rounds' \in [Orders -> Nat] /\ entitled' \in [Orders -> SUBSET Agents]
         /\ alerted' \subseteq Orders
      => TypeOK'
    BY DEF TypeOK, rowVars, presenceVars, Waiting, Trying
<1>1. CASE CheckOffer(w, o)
    <2> DEFINE next == [worker[w] EXCEPT !.batch = @ \ {o},
                                         !.step = IF offer[o] # {} THEN "next" ELSE "attempts",
                                         !.order = IF offer[o] # {} THEN NoOrder ELSE o]
    <2>1. worker[w] \in Waiting
        BY <1>1, TypeShape DEF CheckOffer, Trying
    <2>2. next \in Waiting \cup Trying
        <3>1. CASE offer[o] # {}
            BY <2>1, <3>1 DEF Waiting
        <3>2. CASE offer[o] = {}
            BY <2>1, <3>2 DEF Waiting, Trying
        <3> QED BY <3>1, <3>2
    <2>3. worker' = [worker EXCEPT ![w] = next]
        BY <1>1 DEF CheckOffer
    <2>4. Workable
        BY <2>2, <2>3, TypeShape
    <2> HIDE DEF Workable
    <2> QED BY <1>0, <1>1, <2>4 DEF CheckOffer, TypeOK
<1>2. CASE CheckAttempts(w, o)
    <2>1. At(w, "attempts", o) /\ (Finish(w) \/ Goto(w, "find"))
        BY <1>2 DEF CheckAttempts, CheckAttemptsAgainst
    <2>2. Workable
        BY <2>1, AtTries, FinishTypes, GotoTypes
    <2> HIDE DEF Workable
    <2> QED BY <1>0, <1>2, <2>2 DEF CheckAttempts, CheckAttemptsAgainst, TypeOK
<1>3. CASE FindCandidates(w, o)
    <2>1. PICK found \in Found :
             IF found = {}
             THEN Finish(w) /\ attempts' = [attempts EXCEPT ![o] = @ + 1]
             ELSE /\ worker' = [worker EXCEPT ![w].step = "offer", ![w].found = found]
                  /\ UNCHANGED attempts
        BY <1>3 DEF FindCandidates
    <2>2. found \subseteq Agents
        BY DEF Found, TypeOK
    <2>3. worker[w] \in Trying
        BY <1>3, AtTries DEF FindCandidates
    <2>4. [worker[w] EXCEPT !.step = "offer", !.found = found] \in Trying
        BY <2>2, <2>3 DEF Trying
    <2>5. Workable
        BY <2>1, <2>4, FinishTypes, TypeShape
    <2>6. attempts' \in [Orders -> Nat]
        BY <2>1 DEF TypeOK
    <2> HIDE DEF Workable
    <2> QED BY <1>0, <1>3, <2>5, <2>6 DEF FindCandidates, TypeOK
<1>4. CASE SetOffer(w, o)
    <2>1. At(w, "offer", o) /\ (Finish(w) \/ Goto(w, "count"))
        BY <1>4 DEF SetOffer, WriteOffer
    <2>2. Workable
        BY <2>1, AtTries, FinishTypes, GotoTypes
    <2>3. worker[w].found \subseteq Agents
        BY <2>1, AtTries DEF Trying
    <2>4. offer' \in [Orders -> SUBSET Agents] /\ entitled' \in [Orders -> SUBSET Agents]
        BY <1>4, <2>3 DEF SetOffer, WriteOffer, TypeOK
    <2> HIDE DEF Workable
    <2> QED BY <1>0, <1>4, <2>2, <2>4 DEF SetOffer, TypeOK
<1>5. CASE CountAttempt(w, o)
    <2>1. Workable
        BY <1>5, AtTries, GotoTypes DEF CountAttempt
    <2> HIDE DEF Workable
    <2> QED BY <1>0, <1>5, <2>1 DEF CountAttempt, TypeOK
<1>6. CASE Broadcast(w, o)
    <2>1. Workable
        BY <1>6, FinishTypes DEF Broadcast
    <2> HIDE DEF Workable
    <2> QED BY <1>0, <1>6, <2>1 DEF Broadcast, TypeOK
<1> QED BY <1>1, <1>2, <1>3, <1>4, <1>5, <1>6

LEMMA WorkerTypes ==
    ASSUME TypeOK, NEW w \in Workers, TickRegion(w) \/ TryAssignFails(w) \/ WorkerCrash(w)
    PROVE  TypeOK'
<1> DEFINE Workable == worker' \in [Workers -> Waiting \cup Trying]
<1>0. Workable /\ UNCHANGED <<rowVars, offer, claim, attempts, presenceVars, request,
                              rounds, entitled, alerted>>
      => TypeOK'
    BY DEF TypeOK, rowVars, presenceVars, Waiting, Trying
<1>1. CASE TickRegion(w)
    <2>1. [IdleWorker EXCEPT !.batch = FindReadyUnassigned] \in Waiting
        BY DEF IdleWorker, Waiting, FindReadyUnassigned, ReadyUnassigned
    <2>2. worker' = [worker EXCEPT ![w] = [IdleWorker EXCEPT !.batch = FindReadyUnassigned]]
        BY <1>1 DEF TickRegion
    <2>3. Workable
        BY <2>1, <2>2, TypeShape
    <2> HIDE DEF Workable
    <2> QED BY <1>0, <1>1, <2>3 DEF TickRegion
<1>2. CASE TryAssignFails(w)
    <2>1. Workable
        BY <1>2, FinishTypes DEF TryAssignFails
    <2> HIDE DEF Workable
    <2> QED BY <1>0, <1>2, <2>1 DEF TryAssignFails
<1>3. CASE WorkerCrash(w)
    <2>1. IdleWorker \in Waiting
        BY DEF IdleWorker, Waiting
    <2>2. Workable
        BY <1>3, <2>1, TypeShape DEF WorkerCrash
    <2> HIDE DEF Workable
    <2> QED BY <1>0, <1>3, <2>2 DEF WorkerCrash
<1> QED BY <1>1, <1>2, <1>3

LEMMA StartTypes ==
    ASSUME TypeOK, NEW r \in Requests, NEW o \in Orders, NEW a \in Agents,
           ReadOfferToClaim(r, o, a) \/ AdminAssign(r, o, a) \/ ReadOfferToReject(r, o, a)
    PROVE  TypeOK'
<1>1. PICK step \in {"trySet", "rewrite"}, rest \in SUBSET Agents : Start(r, o, a, step, rest)
    BY DEF ReadOfferToClaim, AdminAssign, ReadOfferToReject, TypeOK
<1>2. [step |-> step, order |-> o, agent |-> a, rest |-> rest] \in InFlight
    BY DEF InFlight
<1>3. request' \in [Requests -> {IdleRequest} \cup InFlight]
    BY <1>1, <1>2, TypeShape DEF Start
<1>4. entitled' \in [Orders -> SUBSET Agents]
    BY DEF ReadOfferToClaim, AdminAssign, ReadOfferToReject, TypeOK
<1> QED BY <1>1, <1>3, <1>4 DEF Start, TypeOK, rowVars, presenceVars, InFlight

LEMMA HandleTypes ==
    ASSUME TypeOK, NEW r \in Requests, HandleRequest(r) \/ RequestCrash(r)
    PROVE  TypeOK'
<1>1. request' \in [Requests -> {IdleRequest} \cup InFlight]
    <2>1. CASE RewriteOffer(r) \/ RequestCrash(r)
        BY <2>1, TypeShape DEF RewriteOffer, RequestCrash
    <2>2. CASE ~(RewriteOffer(r) \/ RequestCrash(r))
        <3>1. PICK from \in {"trySet", "commit", "unclaim", "busy", "drop"},
                   to \in {"commit", "unclaim", "busy", "drop", "idle"} : RequestGoto(r, from, to)
            BY <2>2 DEF HandleRequest, TrySetClaim, ClaimReadyOrder, ClaimRefused, MarkBusy, DropOffer
        <3>2. request[r] \in InFlight
            BY <3>1, Handled DEF RequestGoto
        <3>3. to # "idle" => [request[r] EXCEPT !.step = to] \in InFlight
            BY <3>2 DEF InFlight
        <3> QED BY <3>1, <3>3, TypeShape DEF RequestGoto
    <2> QED BY <2>1, <2>2
<1> DEFINE Requested == request' \in [Requests -> {IdleRequest} \cup InFlight]
<1>2. Requested /\ UNCHANGED <<attempts, worker, rounds>>
         /\ status' \in [Orders -> {"preparing", "ready", "assigned", "over"}]
         /\ agent' \in [Orders -> Agents \cup {NoAgent}]
         /\ offer' \in [Orders -> SUBSET Agents] /\ claim' \subseteq Orders
         /\ present' \subseteq Agents /\ busy' \subseteq Agents /\ leaving' \subseteq Agents
         /\ entitled' \in [Orders -> SUBSET Agents] /\ alerted' \subseteq Orders
      => TypeOK'
    BY DEF TypeOK, InFlight
<1>3. Requested
    BY <1>1
<1> HIDE DEF Requested
<1>4. CASE RewriteOffer(r)
    <2>1. request[r] \in InFlight
        BY <1>4, Handled DEF RewriteOffer
    <2> QED BY <1>2, <1>3, <1>4, <2>1 DEF RewriteOffer, TypeOK, InFlight, rowVars, presenceVars
<1>5. CASE TrySetClaim(r)
    <2>1. request[r].order \in Orders
        BY <1>5, Handled DEF TrySetClaim, RequestGoto
    <2> QED BY <1>2, <1>3, <1>5, <2>1 DEF TrySetClaim, TypeOK, rowVars, presenceVars
<1>6. CASE ClaimReadyOrder(r)
    <2>1. request[r].order \in Orders /\ request[r].agent \in Agents
        BY <1>6, Handled DEF ClaimReadyOrder, RequestGoto
    <2> QED BY <1>2, <1>3, <1>6, <2>1 DEF ClaimReadyOrder, TypeOK, presenceVars
<1>7. CASE ClaimRefused(r)
    BY <1>2, <1>3, <1>7 DEF ClaimRefused, TypeOK, rowVars, presenceVars
<1>8. CASE MarkBusy(r)
    <2>1. request[r].agent \in Agents
        BY <1>8, Handled DEF MarkBusy, RequestGoto
    <2> QED BY <1>2, <1>3, <1>8, <2>1 DEF MarkBusy, TypeOK, rowVars
<1>9. CASE DropOffer(r)
    BY <1>2, <1>3, <1>9 DEF DropOffer, TypeOK, rowVars, presenceVars
<1>10. CASE RequestCrash(r)
    BY <1>2, <1>3, <1>10 DEF RequestCrash, TypeOK, rowVars, presenceVars
<1> QED BY <1>4, <1>5, <1>6, <1>7, <1>8, <1>9, <1>10 DEF HandleRequest

(* The steps of everyone else. *)
Elsewhere ==
    \/ \E o \in Orders : \/ ChangeStatus(o) \/ Delivered(o)
                         \/ OfferExpires(o) \/ ClaimExpires(o)
    \/ \E a \in Agents : Upsert(a) \/ MetaExpires(a) \/ ResetAssigned(a) \/ ForgetPresence(a)
    \/ UNCHANGED vars

LEMMA ElsewhereTypes == ASSUME TypeOK, Elsewhere PROVE TypeOK'
<1>1. ASSUME NEW o \in Orders,
             ChangeStatus(o) \/ Delivered(o) \/ OfferExpires(o) \/ ClaimExpires(o)
      PROVE  TypeOK'
    BY <1>1 DEF ChangeStatus, Delivered, OfferExpires, ClaimExpires, TypeOK, rowVars, presenceVars
<1>2. ASSUME NEW a \in Agents, Upsert(a) \/ MetaExpires(a) \/ ForgetPresence(a)
      PROVE  TypeOK'
    BY <1>2 DEF Upsert, MetaExpires, ForgetPresence, TypeOK, rowVars
<1>3. ASSUME NEW a \in Agents, ResetAssigned(a)
      PROVE  TypeOK'
    BY <1>3 DEF ResetAssigned, TypeOK
<1>4. CASE UNCHANGED vars
    BY <1>4 DEF vars, rowVars, presenceVars, TypeOK
<1> QED BY <1>1, <1>2, <1>3, <1>4 DEF Elsewhere

LEMMA ExpiryTypes == ASSUME TypeOK, NEW o \in Orders, AttemptsExpire(o) PROVE TypeOK'
BY DEF AttemptsExpire, TypeOK, rowVars, presenceVars

LEMMA TypeStep == TypeOK /\ [Next]_vars => TypeOK'
BY TryAssignTypes, WorkerTypes, StartTypes, HandleTypes, ElsewhereTypes, ExpiryTypes
   DEF Next, TryAssign, Elsewhere

(* Every reachable state is well typed: a worker at an order has read it   *)
(* from the table, and a request in flight is about an order and an agent. *)
THEOREM TypeCorrect == Spec => []TypeOK
BY InitTypes, TypeStep, PTL DEF Spec

-----------------------------------------------------------------------------
(* The cap.                                                                *)

(* The workers that found the counter of an order below the cap and have   *)
(* not counted yet, and those that have and did not tell the agents yet.   *)
Ahead(o) == {w \in Workers : worker[w].order = o /\ worker[w].step \in {"find", "offer", "count"}}

Telling(o) == {w \in Workers : worker[w].order = o /\ worker[w].step = "emit"}

(* Every broadcast was counted before, and the counter exceeds the cap     *)
(* only by workers who read it while another had still to count.           *)
Counted(o) ==
    /\ rounds[o] + Cardinality(Telling(o)) <= attempts[o]
    /\ attempts[o] + Cardinality(Ahead(o)) + 1 <= MaxAttempts + Cardinality(Workers)

LEMMA Sizes ==
    ASSUME NEW S, S \subseteq Workers
    PROVE  /\ IsFiniteSet(S) /\ Cardinality(S) \in Nat
           /\ Cardinality(S) <= Cardinality(Workers) /\ Cardinality(Workers) \in Nat
           /\ \A T \in SUBSET S : Cardinality(T) \in Nat /\ Cardinality(T) <= Cardinality(S)
           /\ \A w \in S : Cardinality(S \ {w}) + 1 = Cardinality(S)
           /\ \A w \in Workers \ S : Cardinality(S \cup {w}) = Cardinality(S) + 1
<1>1. IsFiniteSet(S) /\ Cardinality(S) <= Cardinality(Workers) /\ IsFiniteSet(Workers)
    BY AssignmentAssumption, FS_Subset
<1>2. Cardinality(S) \in Nat /\ Cardinality(Workers) \in Nat
    BY <1>1, FS_CardinalityType
<1>3. ASSUME NEW T \in SUBSET S PROVE Cardinality(T) \in Nat /\ Cardinality(T) <= Cardinality(S)
    BY <1>1, FS_Subset, FS_CardinalityType
<1>4. ASSUME NEW w \in S PROVE Cardinality(S \ {w}) + 1 = Cardinality(S)
    <2>1. Cardinality(S \ {w}) = Cardinality(S) - 1
        BY <1>1, FS_RemoveElement
    <2> QED BY <2>1, <1>2
<1>5. ASSUME NEW w \in Workers \ S PROVE Cardinality(S \cup {w}) = Cardinality(S) + 1
    BY <1>1, FS_AddElement
<1> QED BY <1>1, <1>2, <1>3, <1>4, <1>5

LEMMA InitCounted == Init => \A o \in Orders : Counted(o)
<1> SUFFICES ASSUME Init, NEW o \in Orders PROVE Counted(o)
    OBVIOUS
<1>1. Ahead(o) = {} /\ Telling(o) = {}
    BY DEF Init, IdleWorker, Ahead, Telling
<1>2. Cardinality({}) = 0 /\ Cardinality(Workers) \in Nat
    BY FS_EmptySet, Sizes
<1> QED BY <1>1, <1>2, AssignmentAssumption DEF Init, Counted

(* A step that counts nothing, tells nothing and admits nobody. *)
LEMMA QuietCounted ==
    ASSUME TypeOK, NEW o \in Orders, Counted(o), attempts'[o] = attempts[o], rounds'[o] = rounds[o],
           Ahead(o)' \subseteq Ahead(o), Telling(o)' \subseteq Telling(o)
    PROVE  Counted(o)'
<1>1. Ahead(o) \subseteq Workers /\ Telling(o) \subseteq Workers
    BY DEF Ahead, Telling
<1>2. /\ Cardinality(Ahead(o)) \in Nat /\ Cardinality(Telling(o)) \in Nat
      /\ Cardinality(Ahead(o)') \in Nat /\ Cardinality(Telling(o)') \in Nat
      /\ Cardinality(Ahead(o)') <= Cardinality(Ahead(o))
      /\ Cardinality(Telling(o)') <= Cardinality(Telling(o))
      /\ Cardinality(Workers) \in Nat
    BY <1>1, Sizes
<1>3. rounds[o] \in Nat /\ attempts[o] \in Nat
    BY DEF TypeOK
<1> QED BY <1>2, <1>3, AssignmentAssumption DEF Counted

(* Where a worker's step leaves it, and everyone else where they were. *)
LEMMA FinishMoves ==
    ASSUME TypeOK, NEW w \in Workers, Finish(w)
    PROVE  /\ worker'[w].step = "next" /\ worker'[w].order = NoOrder
           /\ \A v \in Workers \ {w} : worker'[v] = worker[v]
BY TypeShape DEF Finish, IdleWorker

LEMMA GotoMoves ==
    ASSUME TypeOK, NEW w \in Workers, worker[w] \in Trying, NEW step, Goto(w, step)
    PROVE  /\ worker'[w].step = step /\ worker'[w].order = worker[w].order
           /\ \A v \in Workers \ {w} : worker'[v] = worker[v]
BY TypeShape DEF Goto, Trying

LEMMA Moved ==
    ASSUME NEW w \in Workers, NEW p \in Orders,
           \A v \in Workers \ {w} : worker'[v] = worker[v],
           \/ worker'[w].order # p
           \/ worker'[w].step \in {"next", "attempts"}
           \/ /\ worker'[w].order = worker[w].order /\ worker[w].step \in {"find", "offer"}
              /\ worker'[w].step \in {"offer", "count"}
    PROVE  Ahead(p)' \subseteq Ahead(p) /\ Telling(p)' \subseteq Telling(p)
BY DEF Ahead, Telling

(* Every step of a worker either leaves it where it counts for no order    *)
(* but o, or is one of the counting steps of o.                            *)
LEMMA TryAssignCounted ==
    ASSUME TypeOK, NEW p \in Orders, Counted(p), NEW w \in Workers, NEW o \in Orders,
           \/ CheckOffer(w, o) \/ CheckAttempts(w, o) \/ FindCandidates(w, o)
           \/ SetOffer(w, o) \/ CountAttempt(w, o) \/ Broadcast(w, o)
    PROVE  Counted(p)'
<1>0. /\ Ahead(p) \subseteq Workers /\ Telling(p) \subseteq Workers
      /\ rounds[p] \in Nat /\ attempts[p] \in Nat
      /\ Cardinality(Ahead(p)) \in Nat /\ Cardinality(Telling(p)) \in Nat
      /\ Cardinality(Workers) \in Nat /\ MaxAttempts \in Nat \ {0}
    <2>1. Ahead(p) \subseteq Workers /\ Telling(p) \subseteq Workers
        BY DEF Ahead, Telling
    <2> QED BY <2>1, Sizes, AssignmentAssumption DEF TypeOK
<1>1. CASE CheckOffer(w, o)
    <2>1. Ahead(p)' \subseteq Ahead(p) /\ Telling(p)' \subseteq Telling(p)
        <3>1. worker'[w].step \in {"next", "attempts"}
            BY <1>1, TypeShape DEF CheckOffer, Waiting, Trying
        <3>2. \A v \in Workers \ {w} : worker'[v] = worker[v]
            BY <1>1, TypeShape DEF CheckOffer
        <3> QED BY <3>1, <3>2, Moved
    <2> QED BY <1>1, <2>1, QuietCounted DEF CheckOffer
<1>2. CASE CheckAttempts(w, o)
    <2>1. worker[w].step = "attempts" /\ worker[w].order = o
        BY <1>2 DEF CheckAttempts, CheckAttemptsAgainst, At
    <2>2. CASE attempts[o] >= MaxAttempts \/ p # o
        <3>1. Ahead(p)' \subseteq Ahead(p) /\ Telling(p)' \subseteq Telling(p)
            <4>1. worker[w] \in Trying
                BY <1>2, AtTries DEF CheckAttempts, CheckAttemptsAgainst
            <4>2. Finish(w) \/ (Goto(w, "find") /\ p # o)
                BY <1>2, <2>2 DEF CheckAttempts, CheckAttemptsAgainst
            <4>3. CASE Finish(w)
                BY <4>3, FinishMoves, Moved
            <4>4. CASE Goto(w, "find") /\ p # o
                BY <2>1, <4>1, <4>4, GotoMoves, Moved
            <4> QED BY <4>2, <4>3, <4>4
        <3> QED BY <1>2, <3>1, QuietCounted DEF CheckAttempts, CheckAttemptsAgainst
    <2>3. CASE ~(attempts[o] >= MaxAttempts) /\ p = o
        <3>1. Ahead(p)' \subseteq Workers /\ Telling(p)' = Telling(p)
            <4>1. worker[w] \in Trying /\ Goto(w, "find")
                BY <1>2, <2>3, AtTries DEF CheckAttempts, CheckAttemptsAgainst
            <4>2. worker'[w].step = "find" /\ \A v \in Workers \ {w} : worker'[v] = worker[v]
                BY <4>1, GotoMoves
            <4> QED BY <2>1, <4>2 DEF Ahead, Telling
        <3>2. Cardinality(Ahead(p)') \in Nat /\ Cardinality(Ahead(p)') <= Cardinality(Workers)
            BY <3>1, Sizes
        <3>3. attempts'[p] = attempts[p] /\ rounds'[p] = rounds[p]
            BY <1>2 DEF CheckAttempts, CheckAttemptsAgainst
        <3> QED BY <1>0, <2>3, <3>1, <3>2, <3>3 DEF Counted
    <2> QED BY <2>2, <2>3
<1>3. CASE FindCandidates(w, o)
    <2>1. worker[w].step = "find" /\ worker[w].order = o
        BY <1>3 DEF FindCandidates, At
    <2>2. PICK found \in Found :
             IF found = {}
             THEN Finish(w) /\ attempts' = [attempts EXCEPT ![o] = @ + 1]
             ELSE /\ worker' = [worker EXCEPT ![w].step = "offer", ![w].found = found]
                  /\ UNCHANGED attempts
        BY <1>3 DEF FindCandidates
    <2>3. rounds' = rounds
        BY <1>3 DEF FindCandidates
    <2>4. CASE found # {} \/ p # o
        <3>1. Ahead(p)' \subseteq Ahead(p) /\ Telling(p)' \subseteq Telling(p)
            <4>1. CASE Finish(w)
                BY <4>1, FinishMoves, Moved
            <4>2. CASE worker' = [worker EXCEPT ![w].step = "offer", ![w].found = found]
                <5>1. worker[w] \in Trying
                    BY <1>3, AtTries DEF FindCandidates
                <5>2. /\ worker'[w].step = "offer" /\ worker'[w].order = worker[w].order
                      /\ \A v \in Workers \ {w} : worker'[v] = worker[v]
                    BY <4>2, <5>1, TypeShape DEF Trying
                <5> QED BY <2>1, <5>2, Moved
            <4> QED BY <2>2, <4>1, <4>2
        <3>2. attempts'[p] = attempts[p]
            BY <2>2, <2>4 DEF TypeOK
        <3> QED BY <2>3, <3>1, <3>2, QuietCounted
    <2>5. CASE found = {} /\ p = o
        <3>1. w \in Ahead(p) /\ Ahead(p)' = Ahead(p) \ {w} /\ Telling(p)' = Telling(p)
            <4>1. /\ worker'[w].step = "next" /\ \A v \in Workers \ {w} : worker'[v] = worker[v]
                BY <2>2, <2>5, FinishMoves
            <4> QED BY <2>1, <2>5, <4>1 DEF Ahead, Telling
        <3>2. Cardinality(Ahead(p)') + 1 = Cardinality(Ahead(p)) /\ Cardinality(Ahead(p)') \in Nat
            BY <1>0, <3>1, Sizes
        <3>3. attempts'[p] = attempts[p] + 1
            BY <2>2, <2>5 DEF TypeOK
        <3> QED BY <1>0, <2>3, <3>1, <3>2, <3>3 DEF Counted
    <2> QED BY <2>4, <2>5
<1>4. CASE SetOffer(w, o)
    <2>1. worker[w].step = "offer" /\ worker[w].order = o
        BY <1>4 DEF SetOffer, At
    <2>2. Ahead(p)' \subseteq Ahead(p) /\ Telling(p)' \subseteq Telling(p)
        <3>1. worker[w] \in Trying
            BY <1>4, AtTries DEF SetOffer
        <3>2. Finish(w) \/ Goto(w, "count")
            BY <1>4 DEF SetOffer, WriteOffer
        <3>3. CASE Finish(w)
            BY <3>3, FinishMoves, Moved
        <3>4. CASE Goto(w, "count")
            BY <2>1, <3>1, <3>4, GotoMoves, Moved
        <3> QED BY <3>2, <3>3, <3>4
    <2> QED BY <1>4, <2>2, QuietCounted DEF SetOffer
<1>5. CASE CountAttempt(w, o)
    <2>1. worker[w].step = "count" /\ worker[w].order = o
        BY <1>5 DEF CountAttempt, At
    <2>2. CASE p # o
        <3>1. Ahead(p)' \subseteq Ahead(p) /\ Telling(p)' \subseteq Telling(p)
            BY <1>5, <2>1, <2>2, TypeShape DEF CountAttempt, Goto, Ahead, Telling
        <3>2. attempts'[p] = attempts[p]
            BY <1>5, <2>2 DEF CountAttempt, TypeOK
        <3> QED BY <1>5, <3>1, <3>2, QuietCounted DEF CountAttempt
    <2>3. CASE p = o
        <3>1. /\ w \in Ahead(p) /\ Ahead(p)' = Ahead(p) \ {w}
              /\ w \notin Telling(p) /\ Telling(p)' = Telling(p) \cup {w}
            BY <1>5, <2>1, <2>3, TypeShape DEF CountAttempt, Goto, Ahead, Telling
        <3>2. /\ Cardinality(Ahead(p)') + 1 = Cardinality(Ahead(p)) /\ Cardinality(Ahead(p)') \in Nat
              /\ Cardinality(Telling(p)') = Cardinality(Telling(p)) + 1
            BY <1>0, <3>1, Sizes
        <3>3. attempts'[p] = attempts[p] + 1 /\ rounds'[p] = rounds[p]
            BY <1>5, <2>3 DEF CountAttempt, TypeOK
        <3> QED BY <1>0, <3>2, <3>3 DEF Counted
    <2> QED BY <2>2, <2>3
<1>6. CASE Broadcast(w, o)
    <2>1. worker[w].step = "emit" /\ worker[w].order = o
        BY <1>6 DEF Broadcast, At
    <2>2. CASE p # o
        <3>1. Ahead(p)' \subseteq Ahead(p) /\ Telling(p)' \subseteq Telling(p)
            BY <1>6, <2>1, <2>2, TypeShape, AssignmentAssumption
               DEF Broadcast, Finish, IdleWorker, Ahead, Telling
        <3>2. rounds'[p] = rounds[p]
            BY <1>6, <2>2 DEF Broadcast, TypeOK
        <3> QED BY <1>6, <3>1, <3>2, QuietCounted DEF Broadcast
    <2>3. CASE p = o
        <3>1. w \in Telling(p) /\ Telling(p)' = Telling(p) \ {w} /\ Ahead(p)' = Ahead(p)
            BY <1>6, <2>1, <2>3, TypeShape, AssignmentAssumption
               DEF Broadcast, Finish, IdleWorker, Ahead, Telling
        <3>2. Cardinality(Telling(p)') + 1 = Cardinality(Telling(p)) /\ Cardinality(Telling(p)') \in Nat
            BY <1>0, <3>1, Sizes
        <3>3. rounds'[p] = rounds[p] + 1 /\ attempts'[p] = attempts[p]
            BY <1>6, <2>3 DEF Broadcast, TypeOK
        <3> QED BY <1>0, <3>1, <3>2, <3>3 DEF Counted
    <2> QED BY <2>2, <2>3
<1> QED BY <1>1, <1>2, <1>3, <1>4, <1>5, <1>6

LEMMA WorkerCounted ==
    ASSUME TypeOK, NEW p \in Orders, Counted(p), NEW w \in Workers,
           TickRegion(w) \/ TryAssignFails(w) \/ WorkerCrash(w)
    PROVE  Counted(p)'
<1>1. Ahead(p)' \subseteq Ahead(p) /\ Telling(p)' \subseteq Telling(p)
    BY TypeShape, AssignmentAssumption
       DEF TickRegion, TryAssignFails, WorkerCrash, Finish, IdleWorker, Ahead, Telling
<1> QED BY <1>1, QuietCounted DEF TickRegion, TryAssignFails, WorkerCrash

LEMMA ExpiryCounted ==
    ASSUME TypeOK, NEW p \in Orders, Counted(p), NEW o \in Orders, AttemptsExpire(o)
    PROVE  Counted(p)'
<1>1. CASE p # o
    <2>1. Ahead(p)' = Ahead(p) /\ Telling(p)' = Telling(p)
        BY DEF AttemptsExpire, Ahead, Telling
    <2>2. attempts'[p] = attempts[p] /\ rounds'[p] = rounds[p]
        BY <1>1 DEF AttemptsExpire, TypeOK
    <2> QED BY <2>1, <2>2, QuietCounted
<1>2. CASE p = o
    <2>1. Ahead(p)' = {} /\ Telling(p)' = {}
        BY <1>2 DEF AttemptsExpire, Ahead, Telling
    <2>2. attempts'[p] = 0 /\ rounds'[p] = 0
        BY <1>2 DEF AttemptsExpire, TypeOK
    <2>3. Cardinality({}) = 0 /\ Cardinality(Workers) \in Nat
        BY FS_EmptySet, Sizes
    <2> QED BY <2>1, <2>2, <2>3, AssignmentAssumption DEF Counted
<1> QED BY <1>1, <1>2

(* Nobody else touches a worker or a counter. *)
LEMMA ElsewhereCounted ==
    ASSUME TypeOK, NEW p \in Orders, Counted(p), UNCHANGED <<worker, attempts, rounds>>
    PROVE  Counted(p)'
<1>1. Ahead(p)' = Ahead(p) /\ Telling(p)' = Telling(p)
    BY DEF Ahead, Telling
<1> QED BY <1>1 DEF Counted

LEMMA OthersKeepWorkers ==
    /\ Elsewhere => UNCHANGED <<worker, attempts, rounds>>
    /\ \A r \in Requests :
          /\ HandleRequest(r) \/ RequestCrash(r) => UNCHANGED <<worker, attempts, rounds>>
          /\ \A o \in Orders, a \in Agents :
                ReadOfferToClaim(r, o, a) \/ AdminAssign(r, o, a) \/ ReadOfferToReject(r, o, a)
                => UNCHANGED <<worker, attempts, rounds>>
<1>1. Elsewhere => UNCHANGED <<worker, attempts, rounds>>
    BY DEF Elsewhere, ChangeStatus, Delivered, OfferExpires, ClaimExpires, Upsert, MetaExpires,
           ResetAssigned, ForgetPresence, vars
<1>2. \A r \in Requests : HandleRequest(r) \/ RequestCrash(r) => UNCHANGED <<worker, attempts, rounds>>
    BY DEF HandleRequest, RewriteOffer, TrySetClaim, ClaimReadyOrder, ClaimRefused, MarkBusy,
           DropOffer, RequestCrash
<1>3. \A r \in Requests, o \in Orders, a \in Agents :
         ReadOfferToClaim(r, o, a) \/ AdminAssign(r, o, a) \/ ReadOfferToReject(r, o, a)
         => UNCHANGED <<worker, attempts, rounds>>
    BY DEF ReadOfferToClaim, AdminAssign, ReadOfferToReject, Start
<1> QED BY <1>1, <1>2, <1>3

LEMMA CountedStep ==
    ASSUME TypeOK, NEW p \in Orders, Counted(p), [Next]_vars
    PROVE  Counted(p)'
BY OthersKeepWorkers, ElsewhereCounted, ExpiryCounted, WorkerCounted, TryAssignCounted
   DEF Next, TryAssign, Elsewhere

(* Whatever fails and overlaps, and however many worker processes run:     *)
(* each process beyond the first adds one broadcast to the cap at most.    *)
THEOREM RoundsAlwaysBounded == Spec => []RoundsBounded
<1> DEFINE Inv == TypeOK /\ \A o \in Orders : Counted(o)
<1>1. Init => Inv
    BY InitTypes, InitCounted
<1>2. Inv /\ [Next]_vars => Inv'
    BY TypeStep, CountedStep
<1>3. Inv => RoundsBounded
    <2> SUFFICES ASSUME Inv, NEW o \in Orders
                 PROVE  rounds[o] + 1 <= MaxAttempts + Cardinality(Workers)
        BY DEF RoundsBounded
    <2>1. Ahead(o) \subseteq Workers /\ Telling(o) \subseteq Workers
        BY DEF Ahead, Telling
    <2>2. /\ Cardinality(Ahead(o)) \in Nat /\ Cardinality(Telling(o)) \in Nat
          /\ Cardinality(Workers) \in Nat
        BY <2>1, Sizes
    <2> QED BY <2>2, AssignmentAssumption DEF Counted, TypeOK
<1> QED BY <1>1, <1>2, <1>3, PTL DEF Spec

-----------------------------------------------------------------------------
(* Who wins, when the requests about an order do not overlap.              *)

Apart ==
    \A r, q \in Requests :
        r # q /\ request[r].order \in Orders => request[r].order # request[q].order

(* The live offer was made, or left over by a reject, to the entitled.     *)
OffersEntitled == \A o \in Orders : offer[o] \subseteq entitled[o]

(* What a reject read is still the offer when it writes.                   *)
RejectFresh ==
    \A r \in Requests : request[r].step = "rewrite" =>
        /\ request[r].agent \in offer[request[r].order]
        /\ request[r].rest = offer[request[r].order] \ {request[r].agent}

(* An accept that was let through stays entitled until it has the order.   *)
AcceptEntitled ==
    \A r \in Requests : request[r].step \in {"trySet", "commit"} =>
        request[r].agent \in entitled[request[r].order]

IsolatedInv == Apart /\ OffersEntitled /\ RejectFresh /\ AcceptEntitled

LEMMA InitIsolated == Init => IsolatedInv
BY AssignmentAssumption
   DEF Init, IdleRequest, IsolatedInv, Apart, OffersEntitled, RejectFresh, AcceptEntitled

(* A step that only adds to who is entitled. *)
LEMMA GrowIsolated ==
    ASSUME TypeOK, IsolatedInv, UNCHANGED <<request, offer>>,
           \A o \in Orders : entitled[o] \subseteq entitled'[o]
    PROVE  IsolatedInv'
<1>1. Apart' /\ OffersEntitled' /\ RejectFresh'
    BY DEF IsolatedInv, Apart, OffersEntitled, RejectFresh
<1>2. AcceptEntitled'
    BY Handled DEF IsolatedInv, AcceptEntitled
<1> QED BY <1>1, <1>2 DEF IsolatedInv

LEMMA StartIsolated ==
    ASSUME Isolated, TypeOK, IsolatedInv, NEW r \in Requests, NEW o \in Orders, NEW a \in Agents,
           ReadOfferToClaim(r, o, a) \/ AdminAssign(r, o, a) \/ ReadOfferToReject(r, o, a)
    PROVE  IsolatedInv'
<1>1. PICK step \in {"trySet", "rewrite"}, rest \in SUBSET Agents :
         /\ Start(r, o, a, step, rest)
         /\ step = "trySet" => a \in entitled'[o]
         /\ step = "rewrite" => a \in offer[o] /\ rest = offer[o] \ {a}
    BY DEF ReadOfferToClaim, AdminAssign, ReadOfferToReject, TypeOK, IsolatedInv, OffersEntitled
<1>2. \A p \in Orders : entitled[p] \subseteq entitled'[p]
    BY DEF ReadOfferToClaim, AdminAssign, ReadOfferToReject, TypeOK
<1>3. /\ Alone(o) /\ offer' = offer
      /\ request'[r] = [step |-> step, order |-> o, agent |-> a, rest |-> rest]
      /\ \A q \in Requests \ {r} : request'[q] = request[q]
    BY <1>1, TypeShape DEF Start
<1>4. Apart'
    BY <1>3 DEF Alone, IsolatedInv, Apart
<1>5. OffersEntitled'
    BY <1>2, <1>3 DEF IsolatedInv, OffersEntitled
<1>6. RejectFresh'
    BY <1>1, <1>3 DEF IsolatedInv, RejectFresh
<1>7. AcceptEntitled'
    <2> SUFFICES ASSUME NEW q \in Requests, request'[q].step \in {"trySet", "commit"}
                 PROVE  request'[q].agent \in entitled'[request'[q].order]
        BY DEF AcceptEntitled
    <2>1. CASE q = r
        BY <1>1, <1>3, <2>1
    <2>2. CASE q # r
        BY <1>2, <1>3, <2>2, Handled DEF IsolatedInv, AcceptEntitled
    <2> QED BY <2>1, <2>2
<1> QED BY <1>4, <1>5, <1>6, <1>7 DEF IsolatedInv

(* A request that ends or goes on, without a change of offers. *)
LEMMA GotoIsolated ==
    ASSUME TypeOK, IsolatedInv, NEW r \in Requests, UNCHANGED <<offer, entitled>>,
           \A q \in Requests \ {r} : request'[q] = request[q],
           \/ request'[r] = IdleRequest
           \/ /\ request'[r].order = request[r].order /\ request'[r].agent = request[r].agent
              /\ request'[r].step # "rewrite"
              /\ request'[r].step \in {"trySet", "commit"} =>
                    request[r].step \in {"trySet", "commit"}
    PROVE  IsolatedInv'
<1>1. Apart'
    BY AssignmentAssumption DEF IdleRequest, IsolatedInv, Apart
<1>2. OffersEntitled'
    BY DEF IsolatedInv, OffersEntitled
<1>3. RejectFresh'
    BY DEF IdleRequest, IsolatedInv, RejectFresh
<1>4. AcceptEntitled'
    BY DEF IdleRequest, IsolatedInv, AcceptEntitled
<1> QED BY <1>1, <1>2, <1>3, <1>4 DEF IsolatedInv

LEMMA RewriteIsolated ==
    ASSUME TypeOK, IsolatedInv, NEW r \in Requests, RewriteOffer(r)
    PROVE  IsolatedInv' /\ \A o \in Orders : offer'[o] \subseteq offer[o]
<1> DEFINE o == request[r].order
           a == request[r].agent
<1>1. /\ o \in Orders /\ request[r].step = "rewrite"
      /\ a \in offer[o] /\ request[r].rest = offer[o] \ {a}
    BY Handled DEF RewriteOffer, IsolatedInv, RejectFresh
<1>2. /\ offer'[o] = offer[o] \ {a} /\ entitled'[o] = entitled[o] \ {a}
      /\ \A p \in Orders \ {o} : offer'[p] = offer[p] /\ entitled'[p] = entitled[p]
    BY <1>1 DEF RewriteOffer, TypeOK
<1>3. request'[r] = IdleRequest /\ \A q \in Requests \ {r} : request'[q] = request[q]
    BY TypeShape DEF RewriteOffer
<1>4. \A q \in Requests \ {r} : request[q].order # o
    BY <1>1 DEF IsolatedInv, Apart
<1>5. Apart'
    BY <1>3, AssignmentAssumption DEF IdleRequest, IsolatedInv, Apart
<1>6. OffersEntitled'
    BY <1>2 DEF IsolatedInv, OffersEntitled
<1>7. RejectFresh'
    <2> SUFFICES ASSUME NEW q \in Requests, request'[q].step = "rewrite"
                 PROVE  /\ request'[q].agent \in offer'[request'[q].order]
                        /\ request'[q].rest = offer'[request'[q].order] \ {request'[q].agent}
        BY DEF RejectFresh
    <2>1. q # r
        BY <1>3 DEF IdleRequest
    <2>2. request[q].order \in Orders \ {o} /\ request'[q] = request[q]
        BY <1>3, <1>4, <2>1, Handled
    <2> QED BY <1>2, <2>2 DEF IsolatedInv, RejectFresh
<1>8. AcceptEntitled'
    <2> SUFFICES ASSUME NEW q \in Requests, request'[q].step \in {"trySet", "commit"}
                 PROVE  request'[q].agent \in entitled'[request'[q].order]
        BY DEF AcceptEntitled
    <2>1. q # r
        BY <1>3 DEF IdleRequest
    <2>2. request[q].order \in Orders \ {o} /\ request'[q] = request[q]
        BY <1>3, <1>4, <2>1, Handled
    <2> QED BY <1>2, <2>2 DEF IsolatedInv, AcceptEntitled
<1> QED BY <1>2, <1>5, <1>6, <1>7, <1>8 DEF IsolatedInv

LEMMA DropIsolated ==
    ASSUME TypeOK, IsolatedInv, NEW r \in Requests, DropOffer(r)
    PROVE  IsolatedInv' /\ \A o \in Orders : offer'[o] \subseteq offer[o]
<1> DEFINE o == request[r].order
<1>1. o \in Orders
    BY Handled DEF DropOffer, RequestGoto
<1>2. /\ offer'[o] = {} /\ entitled' = entitled
      /\ \A p \in Orders \ {o} : offer'[p] = offer[p]
    BY <1>1 DEF DropOffer, TypeOK
<1>3. request'[r] = IdleRequest /\ \A q \in Requests \ {r} : request'[q] = request[q]
    BY TypeShape DEF DropOffer, RequestGoto
<1>4. \A q \in Requests \ {r} : request[q].order # o
    BY <1>1 DEF IsolatedInv, Apart
<1>5. Apart'
    BY <1>3, AssignmentAssumption DEF IdleRequest, IsolatedInv, Apart
<1>6. OffersEntitled'
    BY <1>2 DEF IsolatedInv, OffersEntitled
<1>7. RejectFresh'
    <2> SUFFICES ASSUME NEW q \in Requests, request'[q].step = "rewrite"
                 PROVE  /\ request'[q].agent \in offer'[request'[q].order]
                        /\ request'[q].rest = offer'[request'[q].order] \ {request'[q].agent}
        BY DEF RejectFresh
    <2>1. q # r
        BY <1>3 DEF IdleRequest
    <2>2. request[q].order \in Orders \ {o} /\ request'[q] = request[q]
        BY <1>3, <1>4, <2>1, Handled
    <2> QED BY <1>2, <2>2 DEF IsolatedInv, RejectFresh
<1>8. AcceptEntitled'
    BY <1>2, <1>3 DEF IdleRequest, IsolatedInv, AcceptEntitled
<1> QED BY <1>2, <1>5, <1>6, <1>7, <1>8 DEF IsolatedInv

LEMMA HandleIsolated ==
    ASSUME TypeOK, IsolatedInv, NEW r \in Requests, HandleRequest(r) \/ RequestCrash(r)
    PROVE  IsolatedInv' /\ \A o \in Orders : offer'[o] \subseteq offer[o]
<1>1. CASE RewriteOffer(r)
    BY <1>1, RewriteIsolated
<1>2. CASE DropOffer(r)
    BY <1>2, DropIsolated
<1>3. CASE RequestCrash(r)
    <2>1. request'[r] = IdleRequest /\ \A q \in Requests \ {r} : request'[q] = request[q]
        BY <1>3, TypeShape DEF RequestCrash
    <2>2. UNCHANGED <<offer, entitled>>
        BY <1>3 DEF RequestCrash
    <2> QED BY <2>1, <2>2, GotoIsolated
<1>4. CASE TrySetClaim(r) \/ ClaimReadyOrder(r) \/ ClaimRefused(r) \/ MarkBusy(r)
    <2>1. PICK from \in {"trySet", "commit", "unclaim", "busy"},
               to \in {"commit", "unclaim", "busy", "drop", "idle"} :
             RequestGoto(r, from, to) /\ (to = "commit" => from = "trySet")
        BY <1>4 DEF TrySetClaim, ClaimReadyOrder, ClaimRefused, MarkBusy
    <2>2. UNCHANGED <<offer, entitled>>
        BY <1>4 DEF TrySetClaim, ClaimReadyOrder, ClaimRefused, MarkBusy
    <2>3. \A q \in Requests \ {r} : request'[q] = request[q]
        BY <2>1, TypeShape DEF RequestGoto
    <2>4. request[r] \in InFlight /\ request[r].step = from
        BY <2>1, Handled DEF RequestGoto
    <2>5. CASE to = "idle"
        <3>1. request'[r] = IdleRequest
            BY <2>1, <2>5, TypeShape DEF RequestGoto
        <3> QED BY <2>2, <2>3, <3>1, GotoIsolated
    <2>6. CASE to # "idle"
        <3>1. request'[r] = [request[r] EXCEPT !.step = to]
            BY <2>1, <2>6, TypeShape DEF RequestGoto
        <3>2. /\ request'[r].order = request[r].order /\ request'[r].agent = request[r].agent
              /\ request'[r].step = to
            BY <2>4, <3>1 DEF InFlight
        <3> QED BY <2>1, <2>2, <2>3, <2>4, <3>2, GotoIsolated
    <2> QED BY <2>5, <2>6
<1> QED BY <1>1, <1>2, <1>3, <1>4 DEF HandleRequest

LEMMA SetOfferIsolated ==
    ASSUME TypeOK, IsolatedInv, NEW w \in Workers, NEW o \in Orders, SetOffer(w, o)
    PROVE  IsolatedInv' /\ \A p \in Orders : offer[p] # {} => offer'[p] = offer[p]
<1>1. request' = request
    BY DEF SetOffer
<1>2. CASE offer[o] # {}
    <2>1. UNCHANGED <<offer, entitled>>
        BY <1>2 DEF SetOffer
    <2> QED BY <1>1, <2>1, GrowIsolated
<1>3. CASE offer[o] = {}
    <2>1. /\ offer'[o] = worker[w].found /\ entitled'[o] = entitled[o] \cup worker[w].found
          /\ \A p \in Orders \ {o} : offer'[p] = offer[p] /\ entitled'[p] = entitled[p]
        BY <1>3 DEF SetOffer, WriteOffer, TypeOK
    <2>2. Apart'
        BY <1>1 DEF IsolatedInv, Apart
    <2>3. OffersEntitled'
        BY <2>1 DEF IsolatedInv, OffersEntitled
    <2>4. RejectFresh'
        <3> SUFFICES ASSUME NEW q \in Requests, request[q].step = "rewrite"
                     PROVE  /\ request[q].agent \in offer'[request[q].order]
                            /\ request[q].rest = offer'[request[q].order] \ {request[q].agent}
            BY <1>1 DEF RejectFresh
        <3>1. request[q].order \in Orders \ {o}
            BY <1>3, Handled DEF IsolatedInv, RejectFresh
        <3> QED BY <2>1, <3>1 DEF IsolatedInv, RejectFresh
    <2>5. AcceptEntitled'
        <3> SUFFICES ASSUME NEW q \in Requests, request[q].step \in {"trySet", "commit"}
                     PROVE  request[q].agent \in entitled'[request[q].order]
            BY <1>1 DEF AcceptEntitled
        <3>1. request[q].order \in Orders /\ request[q].agent \in entitled[request[q].order]
            BY Handled DEF IsolatedInv, AcceptEntitled
        <3> QED BY <2>1, <3>1
    <2> QED BY <1>3, <2>1, <2>2, <2>3, <2>4, <2>5 DEF IsolatedInv
<1> QED BY <1>2, <1>3

LEMMA ExpiryIsolated ==
    ASSUME Isolated, TypeOK, IsolatedInv, NEW o \in Orders, OfferExpires(o)
    PROVE  IsolatedInv' /\ \A p \in Orders : offer'[p] \subseteq offer[p]
<1>1. /\ offer'[o] = {} /\ UNCHANGED <<request, entitled>>
      /\ \A p \in Orders \ {o} : offer'[p] = offer[p]
      /\ \A r \in Requests : ~(request[r].order = o /\ request[r].step = "rewrite")
    BY DEF OfferExpires, TypeOK
<1>2. Apart' /\ AcceptEntitled'
    BY <1>1 DEF IsolatedInv, Apart, AcceptEntitled
<1>3. OffersEntitled'
    BY <1>1 DEF IsolatedInv, OffersEntitled
<1>4. RejectFresh'
    BY <1>1, Handled DEF IsolatedInv, RejectFresh
<1> QED BY <1>1, <1>2, <1>3, <1>4 DEF IsolatedInv

LEMMA RestIsolated ==
    ASSUME TypeOK, IsolatedInv, UNCHANGED <<request, offer, entitled>>
    PROVE  IsolatedInv' /\ \A o \in Orders : offer[o] # {} => offer'[o] \subseteq offer[o]
BY GrowIsolated

(* One step: the invariant, and no live offer grows. *)
LEMMA IsolatedStep ==
    ASSUME Isolated, TypeOK, IsolatedInv, [Next]_vars
    PROVE  IsolatedInv' /\ \A o \in Orders : offer[o] # {} => offer'[o] \subseteq offer[o]
<1>1. ASSUME NEW o \in Orders,
             ChangeStatus(o) \/ Delivered(o) \/ ClaimExpires(o) \/ AttemptsExpire(o)
      PROVE  UNCHANGED <<request, offer, entitled>>
    BY <1>1 DEF ChangeStatus, Delivered, ClaimExpires, AttemptsExpire
<1>2. ASSUME NEW a \in Agents, Upsert(a) \/ MetaExpires(a) \/ ResetAssigned(a) \/ ForgetPresence(a)
      PROVE  UNCHANGED <<request, offer, entitled>>
    BY <1>2 DEF Upsert, MetaExpires, ResetAssigned, ForgetPresence
<1>3. ASSUME NEW w \in Workers, TickRegion(w) \/ TryAssignFails(w) \/ WorkerCrash(w)
      PROVE  UNCHANGED <<request, offer, entitled>>
    BY <1>3 DEF TickRegion, TryAssignFails, WorkerCrash
<1>4. ASSUME NEW w \in Workers, NEW o \in Orders,
             \/ CheckOffer(w, o) \/ CheckAttempts(w, o) \/ FindCandidates(w, o)
             \/ CountAttempt(w, o) \/ Broadcast(w, o)
      PROVE  UNCHANGED <<request, offer, entitled>>
    BY <1>4 DEF CheckOffer, CheckAttempts, CheckAttemptsAgainst, FindCandidates, CountAttempt, Broadcast
<1>5. CASE UNCHANGED vars
    BY <1>5, RestIsolated DEF vars
<1>6. ASSUME NEW r \in Requests, NEW o \in Orders, NEW a \in Agents,
             ReadOfferToClaim(r, o, a) \/ AdminAssign(r, o, a) \/ ReadOfferToReject(r, o, a)
      PROVE  IsolatedInv' /\ offer' = offer
    BY <1>6, StartIsolated DEF ReadOfferToClaim, AdminAssign, ReadOfferToReject, Start
<1> QED BY <1>1, <1>2, <1>3, <1>4, <1>5, <1>6, RestIsolated, HandleIsolated, SetOfferIsolated,
           ExpiryIsolated DEF Next, TryAssign

(* Only the conditional UPDATE of a claim assigns an order. *)
LEMMA OnlyClaimsAssign ==
    ASSUME TypeOK, [Next]_vars, NEW o \in Orders, status[o] # "assigned", status'[o] = "assigned"
    PROVE  \E r \in Requests : /\ request[r].step = "commit" /\ request[r].order = o
                               /\ agent'[o] = request[r].agent
<1>1. ASSUME NEW p \in Orders, ChangeStatus(p) \/ Delivered(p) PROVE FALSE
    BY <1>1 DEF ChangeStatus, Delivered, TypeOK
<1>2. ASSUME NEW a \in Agents, ResetAssigned(a) PROVE FALSE
    BY <1>2 DEF ResetAssigned
<1>3. ASSUME NEW r \in Requests, ClaimReadyOrder(r)
      PROVE  /\ request[r].step = "commit" /\ request[r].order = o
             /\ agent'[o] = request[r].agent
    <2>1. request[r].order \in Orders
        BY <1>3, Handled DEF ClaimReadyOrder, RequestGoto
    <2> QED BY <1>3, <2>1 DEF ClaimReadyOrder, RequestGoto, TypeOK
<1>4. status' # status
    OBVIOUS
<1>5. /\ \A p \in Orders : ~(OfferExpires(p) \/ ClaimExpires(p) \/ AttemptsExpire(p))
      /\ \A a \in Agents : ~(Upsert(a) \/ MetaExpires(a) \/ ForgetPresence(a))
      /\ ~UNCHANGED vars
    BY <1>4 DEF OfferExpires, ClaimExpires, AttemptsExpire, Upsert, MetaExpires, ForgetPresence,
                vars, rowVars
<1>6. \A w \in Workers : ~(TickRegion(w) \/ TryAssign(w) \/ TryAssignFails(w) \/ WorkerCrash(w))
    BY <1>4 DEF TickRegion, TryAssign, TryAssignFails, WorkerCrash, CheckOffer, CheckAttempts,
                CheckAttemptsAgainst, FindCandidates, SetOffer, CountAttempt, Broadcast, rowVars
<1>7. \A r \in Requests :
         /\ \A p \in Orders, a \in Agents :
               ~(ReadOfferToClaim(r, p, a) \/ AdminAssign(r, p, a) \/ ReadOfferToReject(r, p, a))
         /\ ~(RewriteOffer(r) \/ TrySetClaim(r) \/ ClaimRefused(r) \/ MarkBusy(r) \/ DropOffer(r)
              \/ RequestCrash(r))
    BY <1>4 DEF ReadOfferToClaim, AdminAssign, ReadOfferToReject, Start, RewriteOffer, TrySetClaim,
                ClaimRefused, MarkBusy, DropOffer, RequestCrash, rowVars
<1> QED BY <1>1, <1>2, <1>3, <1>5, <1>6, <1>7 DEF Next, HandleRequest

LEMMA IsolatedInvariant == Isolated /\ Spec => [](TypeOK /\ IsolatedInv)
<1> SUFFICES ASSUME Isolated PROVE Spec => [](TypeOK /\ IsolatedInv)
    OBVIOUS
<1>1. Init => TypeOK /\ IsolatedInv
    BY InitTypes, InitIsolated
<1>2. TypeOK /\ IsolatedInv /\ [Next]_vars => (TypeOK /\ IsolatedInv)'
    BY TypeStep, IsolatedStep
<1> QED BY <1>1, <1>2, PTL DEF Spec

(* Without overlapping requests, whatever fails and however many workers   *)
(* run: no worker overwrites a live offer.                                 *)
THEOREM LiveOfferNeverGrown == Isolated /\ Spec => LiveOfferNeverGrows
<1> SUFFICES ASSUME Isolated PROVE Spec => LiveOfferNeverGrows
    OBVIOUS
<1>1. TypeOK /\ IsolatedInv /\ [Next]_vars
      => [\A o \in Orders : offer[o] # {} => offer'[o] \subseteq offer[o]]_vars
    BY IsolatedStep
<1> QED BY <1>1, IsolatedInvariant, PTL DEF Spec, LiveOfferNeverGrows

(* Without overlapping requests, whatever fails and however many workers   *)
(* run: only an agent who was offered an order, or forced on it, and did   *)
(* not decline since wins it.                                              *)
THEOREM WinnerAlwaysEntitled == Isolated /\ Spec => WinnerIsEntitled
<1> SUFFICES ASSUME Isolated PROVE Spec => WinnerIsEntitled
    OBVIOUS
<1>1. TypeOK /\ IsolatedInv /\ [Next]_vars
      => [\A o \in Orders : status[o] # "assigned" /\ status'[o] = "assigned"
                                => agent'[o] \in entitled[o]]_vars
    BY OnlyClaimsAssign DEF IsolatedInv, AcceptEntitled
<1> QED BY <1>1, IsolatedInvariant, PTL DEF Spec, WinnerIsEntitled
=============================================================================
