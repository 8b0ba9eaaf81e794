----------------------------- MODULE Assignment -----------------------------
(***************************************************************************)
(* How a ready order finds a delivery agent: the worker's tickRegion and   *)
(* tryAssign, and the requests claim, reject and adminAssign, of           *)
(* assignment.service.ts, with the going offline of presence.service.ts.   *)
(*                                                                         *)
(* The orders table is the only thing updated conditionally; the offer,    *)
(* the claim lock and the attempts counter are Redis keys with a TTL, each *)
(* read and written on its own.  A worker process drops a tick that fires  *)
(* while its last one runs (scheduler.ts), but every process has its own.  *)
(*                                                                         *)
(* Faults = FALSE: no call fails and no process dies.                      *)
(* Isolated = TRUE: requests about one order do not overlap, and an offer  *)
(* does not expire during a reject.                                        *)
(* The counter's TTL of an hour is taken to outlast a tick; and, without   *)
(* faults, the rounds that bring an order to the cap and its alert.  INCR  *)
(* and the EXPIRE after it are one step.                                   *)
(***************************************************************************)
EXTENDS Naturals, FiniteSets

CONSTANTS
    Orders,       \* numbered by created_at
    Agents,
    Workers,      \* worker processes
    Requests,     \* HTTP requests in flight at once
    MaxAttempts,  \* MAX_REASSIGNMENT_ATTEMPTS
    Batch,        \* ASSIGNMENT_BATCH
    Candidates,   \* OFFER_CANDIDATES
    NoAgent, NoOrder,
    Faults, Isolated

ASSUME AssignmentAssumption ==
    /\ Orders \subseteq Nat /\ IsFiniteSet(Orders)
    /\ IsFiniteSet(Workers)
    /\ MaxAttempts \in Nat \ {0} /\ Batch \in Nat \ {0} /\ Candidates \in Nat \ {0}
    /\ NoAgent \notin Agents /\ NoOrder \notin Orders
    /\ Faults \in BOOLEAN /\ Isolated \in BOOLEAN

VARIABLES
    status,    \* orders.status: preparing, ready, assigned, or over
    agent,     \* orders.delivery_agent_id
    offer,     \* offer:order:<o>, the candidates; {} when there is no key
    claim,     \* the orders whose claim:order:<o> exists
    attempts,  \* assign:attempts:<o>
    present,   \* the agents with presence:meta and presence:geo
    busy,      \* presence:busy
    leaving,   \* agents whose goOffline has reset their order
    worker,    \* the tick of each worker process
    request,   \* the requests in flight
    rounds,    \* history: broadcasts of each order since its counter expired
    entitled,  \* history: agents offered the order, or forced on, who did not decline
    alerted    \* history: orders alerted as exhausted since they were last claimed

rowVars == <<status, agent>>
presenceVars == <<present, busy, leaving>>
vars == <<rowVars, offer, claim, attempts, presenceVars, worker, request,
          rounds, entitled, alerted>>

IdleWorker == [batch |-> {}, step |-> "next", order |-> NoOrder, found |-> {}]
IdleRequest == [step |-> "idle", order |-> NoOrder, agent |-> NoAgent, rest |-> {}]

Init ==
    /\ status = [o \in Orders |-> "preparing"]
    /\ agent = [o \in Orders |-> NoAgent]
    /\ offer = [o \in Orders |-> {}]
    /\ claim = {}
    /\ attempts = [o \in Orders |-> 0]
    /\ present = {} /\ busy = {} /\ leaving = {}
    /\ worker = [w \in Workers |-> IdleWorker]
    /\ request = [r \in Requests |-> IdleRequest]
    /\ rounds = [o \in Orders |-> 0]
    /\ entitled = [o \in Orders |-> {}]
    /\ alerted = {}

-----------------------------------------------------------------------------
(* The rest of the system.                                                 *)

(* The restaurant's PATCH to ready; a cancellation of a ready order. *)
ChangeStatus(o) ==
    /\ \/ status[o] = "preparing" /\ status' = [status EXCEPT ![o] = "ready"]
       \/ status[o] = "ready" /\ status' = [status EXCEPT ![o] = "over"]
    /\ UNCHANGED <<agent, offer, claim, attempts, presenceVars, worker, request,
                   rounds, entitled, alerted>>

(* The agent has delivered: settleDelivered's transaction and its two DELs. *)
Delivered(o) ==
    /\ status[o] = "assigned"
    /\ status' = [status EXCEPT ![o] = "over"]
    /\ busy' = busy \ {agent[o]}
    /\ claim' = claim \ {o}
    /\ UNCHANGED <<agent, offer, attempts, present, leaving, worker, request,
                   rounds, entitled, alerted>>

(* Going online and every ping. *)
Upsert(a) ==
    /\ a \notin present
    /\ present' = present \cup {a}
    /\ UNCHANGED <<rowVars, offer, claim, attempts, busy, leaving, worker, request,
                   rounds, entitled, alerted>>

(* presence:meta expires when the pings stop. *)
MetaExpires(a) ==
    /\ a \in present
    /\ present' = present \ {a}
    /\ UNCHANGED <<rowVars, offer, claim, attempts, busy, leaving, worker, request,
                   rounds, entitled, alerted>>

(* goOffline: one UPDATE puts the agent's assigned order back.  The order's *)
(* claim key is left to its TTL.                                            *)
ResetAssigned(a) ==
    LET mine == {o \in Orders : status[o] = "assigned" /\ agent[o] = a}
    IN  /\ a \notin leaving
        /\ mine # {}
        /\ status' = [o \in Orders |-> IF o \in mine THEN "ready" ELSE status[o]]
        /\ agent' = [o \in Orders |-> IF o \in mine THEN NoAgent ELSE agent[o]]
        /\ leaving' = leaving \cup {a}
        /\ UNCHANGED <<offer, claim, attempts, present, busy, worker, request,
                       rounds, entitled, alerted>>

ForgetPresence(a) ==
    /\ a \in leaving
    /\ leaving' = leaving \ {a}
    /\ present' = present \ {a}
    /\ busy' = busy \ {a}
    /\ UNCHANGED <<rowVars, offer, claim, attempts, worker, request,
                   rounds, entitled, alerted>>

OfferExpires(o) ==
    /\ offer[o] # {}
    /\ Isolated => \A r \in Requests :
                      ~(request[r].order = o /\ request[r].step = "rewrite")
    /\ offer' = [offer EXCEPT ![o] = {}]
    /\ UNCHANGED <<rowVars, claim, attempts, presenceVars, worker, request,
                   rounds, entitled, alerted>>

ClaimExpires(o) ==
    /\ o \in claim
    /\ claim' = claim \ {o}
    /\ UNCHANGED <<rowVars, offer, attempts, presenceVars, worker, request,
                   rounds, entitled, alerted>>

AttemptsExpire(o) ==
    /\ attempts[o] > 0
    /\ \A w \in Workers : worker[w].order # o
    /\ Faults \/ o \in alerted \/ status[o] # "ready"
    /\ attempts' = [attempts EXCEPT ![o] = 0]
    /\ rounds' = [rounds EXCEPT ![o] = 0]
    /\ UNCHANGED <<rowVars, offer, claim, presenceVars, worker, request, entitled, alerted>>

-----------------------------------------------------------------------------
(* The worker.                                                             *)

ReadyUnassigned == {o \in Orders : status[o] = "ready" /\ agent[o] = NoAgent}

(* The oldest rows, Batch of them at most. *)
FindReadyUnassigned ==
    {o \in ReadyUnassigned : Cardinality({p \in ReadyUnassigned : p < o}) < Batch}

TickRegion(w) ==
    /\ worker[w] = IdleWorker
    /\ FindReadyUnassigned # {}
    /\ worker' = [worker EXCEPT ![w].batch = FindReadyUnassigned]
    /\ UNCHANGED <<rowVars, offer, claim, attempts, presenceVars, request,
                   rounds, entitled, alerted>>

(* The step of w's tryAssign, of order o. *)
At(w, step, o) == worker[w].step = step /\ worker[w].order = o

Goto(w, step) == worker' = [worker EXCEPT ![w].step = step]

(* On to the next order of the batch. *)
Finish(w) == worker' = [worker EXCEPT ![w] = [IdleWorker EXCEPT !.batch = worker[w].batch]]

(* The oldest order left.  With a live offer there is nothing to do. *)
CheckOffer(w, o) ==
    /\ worker[w].step = "next"
    /\ o \in worker[w].batch /\ \A p \in worker[w].batch : o <= p
    /\ worker' = [worker EXCEPT ![w].batch = @ \ {o},
                                ![w].step = IF offer[o] # {} THEN "next" ELSE "attempts",
                                ![w].order = IF offer[o] # {} THEN NoOrder ELSE o]
    /\ UNCHANGED <<rowVars, offer, claim, attempts, presenceVars, request,
                   rounds, entitled, alerted>>

(* At the cap the admins are alerted and the order stays ready. *)
CheckAttemptsAgainst(w, o, cap) ==
    /\ At(w, "attempts", o)
    /\ IF attempts[o] >= cap
       THEN Finish(w) /\ alerted' = alerted \cup {o}
       ELSE Goto(w, "find") /\ UNCHANGED alerted
    /\ UNCHANGED <<rowVars, offer, claim, attempts, presenceVars, request, rounds, entitled>>

(* Mutants of CheckAttempts: > for >=; no alert at the cap. *)
CheckAttemptsOffByOne(w, o) == CheckAttemptsAgainst(w, o, MaxAttempts + 1)

CheckAttemptsSilently(w, o) ==
    /\ At(w, "attempts", o)
    /\ IF attempts[o] >= MaxAttempts THEN Finish(w) ELSE Goto(w, "find")
    /\ UNCHANGED <<rowVars, offer, claim, attempts, presenceVars, request,
                   rounds, entitled, alerted>>

CheckAttempts(w, o) == CheckAttemptsAgainst(w, o, MaxAttempts)

(* Agents nearby, online and not busy: any of those present may be near.   *)
Found == {found \in SUBSET (present \ busy) : Cardinality(found) <= Candidates}

(* A round without candidates is counted all the same. *)
FindCandidates(w, o) ==
    /\ At(w, "find", o)
    /\ \E found \in Found :
          IF found = {}
          THEN /\ Finish(w)
               /\ attempts' = [attempts EXCEPT ![o] = @ + 1]
          ELSE /\ worker' = [worker EXCEPT ![w].step = "offer", ![w].found = found]
               /\ UNCHANGED attempts
    /\ UNCHANGED <<rowVars, offer, claim, presenceVars, request, rounds, entitled, alerted>>

WriteOffer(w, o) ==
    /\ Goto(w, "count")
    /\ offer' = [offer EXCEPT ![o] = worker[w].found]
    /\ entitled' = [entitled EXCEPT ![o] = @ \cup worker[w].found]

(* Mutant of SetOffer: SET without NX. *)
SetOfferAlways(w, o) ==
    /\ At(w, "offer", o)
    /\ WriteOffer(w, o)
    /\ UNCHANGED <<rowVars, claim, attempts, presenceVars, request, rounds, alerted>>

(* SET NX. *)
SetOffer(w, o) ==
    /\ At(w, "offer", o)
    /\ IF offer[o] = {}
       THEN WriteOffer(w, o)
       ELSE Finish(w) /\ UNCHANGED <<offer, entitled>>
    /\ UNCHANGED <<rowVars, claim, attempts, presenceVars, request, rounds, alerted>>

CountAttempt(w, o) ==
    /\ At(w, "count", o)
    /\ Goto(w, "emit")
    /\ attempts' = [attempts EXCEPT ![o] = @ + 1]
    /\ UNCHANGED <<rowVars, offer, claim, presenceVars, request, rounds, entitled, alerted>>

Broadcast(w, o) ==
    /\ At(w, "emit", o)
    /\ Finish(w)
    /\ rounds' = [rounds EXCEPT ![o] = @ + 1]
    /\ UNCHANGED <<rowVars, offer, claim, attempts, presenceVars, request, entitled, alerted>>

(* A call of tryAssign throws: tickRegion goes on with the next order. *)
TryAssignFails(w) ==
    /\ Faults /\ worker[w].order # NoOrder
    /\ Finish(w)
    /\ UNCHANGED <<rowVars, offer, claim, attempts, presenceVars, request,
                   rounds, entitled, alerted>>

WorkerCrash(w) ==
    /\ Faults /\ worker[w] # IdleWorker
    /\ worker' = [worker EXCEPT ![w] = IdleWorker]
    /\ UNCHANGED <<rowVars, offer, claim, attempts, presenceVars, request,
                   rounds, entitled, alerted>>

-----------------------------------------------------------------------------
(* The requests.                                                           *)

Alone(o) == \A r \in Requests : request[r].order # o

Start(r, o, a, step, rest) ==
    /\ request[r] = IdleRequest
    /\ Isolated => Alone(o)
    /\ request' = [request EXCEPT ![r] = [step |-> step, order |-> o, agent |-> a, rest |-> rest]]
    /\ UNCHANGED <<rowVars, offer, claim, attempts, presenceVars, worker, rounds, alerted>>

(* Mutant of ReadOfferToClaim: any live offer will do. *)
ReadAnyOfferToClaim(r, o, a) ==
    /\ offer[o] # {}
    /\ Start(r, o, a, "trySet", {})
    /\ UNCHANGED entitled

(* claim: only an agent in the live offer may accept. *)
ReadOfferToClaim(r, o, a) ==
    /\ a \in offer[o]
    /\ Start(r, o, a, "trySet", {})
    /\ UNCHANGED entitled

(* adminAssign asks for no offer. *)
AdminAssign(r, o, a) ==
    /\ Start(r, o, a, "trySet", {})
    /\ entitled' = [entitled EXCEPT ![o] = @ \cup {a}]

(* reject: the offer without the agent, to be written back. *)
ReadOfferToReject(r, o, a) ==
    /\ a \in offer[o]
    /\ Start(r, o, a, "rewrite", offer[o] \ {a})
    /\ UNCHANGED entitled

(* SET, or DEL when nobody is left; the TTL read in between goes with it. *)
RewriteOffer(r) ==
    LET o == request[r].order
    IN  /\ request[r].step = "rewrite"
        /\ offer' = [offer EXCEPT ![o] = request[r].rest]
        /\ entitled' = [entitled EXCEPT ![o] = @ \ {request[r].agent}]
        /\ request' = [request EXCEPT ![r] = IdleRequest]
        /\ UNCHANGED <<rowVars, claim, attempts, presenceVars, worker, rounds, alerted>>

RequestGoto(r, from, to) ==
    /\ request[r].step = from
    /\ request' = [request EXCEPT ![r] = IF to = "idle" THEN IdleRequest
                                         ELSE [request[r] EXCEPT !.step = to]]

(* SET NX of the claim key. *)
TrySetClaim(r) ==
    /\ RequestGoto(r, "trySet", IF request[r].order \in claim THEN "idle" ELSE "commit")
    /\ claim' = claim \cup {request[r].order}
    /\ UNCHANGED <<rowVars, offer, attempts, presenceVars, worker, rounds, entitled, alerted>>

(* The conditional UPDATE and its commit. *)
ClaimReadyOrder(r) ==
    LET o == request[r].order
    IN  /\ o \in ReadyUnassigned
        /\ RequestGoto(r, "commit", "busy")
        /\ status' = [status EXCEPT ![o] = "assigned"]
        /\ agent' = [agent EXCEPT ![o] = request[r].agent]
        /\ alerted' = alerted \ {o}
        /\ UNCHANGED <<offer, claim, attempts, presenceVars, worker, rounds, entitled>>

(* No row updated: the claim key is deleted, and again in the catch block. *)
ClaimRefused(r) ==
    LET o == request[r].order
    IN  /\ \/ o \notin ReadyUnassigned /\ RequestGoto(r, "commit", "unclaim")
           \/ RequestGoto(r, "unclaim", "idle")
        /\ claim' = claim \ {o}
        /\ UNCHANGED <<rowVars, offer, attempts, presenceVars, worker, rounds, entitled, alerted>>

MarkBusy(r) ==
    /\ RequestGoto(r, "busy", "drop")
    /\ busy' = busy \cup {request[r].agent}
    /\ UNCHANGED <<rowVars, offer, claim, attempts, present, leaving, worker,
                   rounds, entitled, alerted>>

DropOffer(r) ==
    /\ RequestGoto(r, "drop", "idle")
    /\ offer' = [offer EXCEPT ![request[r].order] = {}]
    /\ UNCHANGED <<rowVars, claim, attempts, presenceVars, worker, rounds, entitled, alerted>>

(* The process dies, or a Redis call throws. *)
RequestCrash(r) ==
    /\ Faults /\ request[r] # IdleRequest
    /\ request' = [request EXCEPT ![r] = IdleRequest]
    /\ UNCHANGED <<rowVars, offer, claim, attempts, presenceVars, worker,
                   rounds, entitled, alerted>>

-----------------------------------------------------------------------------
TryAssign(w) ==
    \E o \in Orders : \/ CheckOffer(w, o) \/ CheckAttempts(w, o) \/ FindCandidates(w, o)
                      \/ SetOffer(w, o) \/ CountAttempt(w, o) \/ Broadcast(w, o)

HandleRequest(r) ==
    \/ RewriteOffer(r) \/ TrySetClaim(r) \/ ClaimReadyOrder(r)
    \/ ClaimRefused(r) \/ MarkBusy(r) \/ DropOffer(r)

Next ==
    \/ \E o \in Orders : \/ ChangeStatus(o) \/ Delivered(o)
                         \/ OfferExpires(o) \/ ClaimExpires(o) \/ AttemptsExpire(o)
    \/ \E a \in Agents : Upsert(a) \/ MetaExpires(a) \/ ResetAssigned(a) \/ ForgetPresence(a)
    \/ \E w \in Workers : TickRegion(w) \/ TryAssign(w) \/ TryAssignFails(w) \/ WorkerCrash(w)
    \/ \E r \in Requests :
          \/ \E o \in Orders, a \in Agents :
                ReadOfferToClaim(r, o, a) \/ AdminAssign(r, o, a) \/ ReadOfferToReject(r, o, a)
          \/ HandleRequest(r) \/ RequestCrash(r)

Spec == Init /\ [][Next]_vars

(* The cron job fires again and again, Redis expires its keys, and a       *)
(* request or a tick that was started runs on.                             *)
Fairness ==
    /\ \A w \in Workers : WF_vars(TickRegion(w)) /\ WF_vars(TryAssign(w))
    /\ \A r \in Requests : WF_vars(HandleRequest(r))
    /\ \A o \in Orders : WF_vars(OfferExpires(o)) /\ WF_vars(ClaimExpires(o))

FairSpec == Spec /\ Fairness

-----------------------------------------------------------------------------
(* Properties                                                              *)

TypeOK ==
    /\ status \in [Orders -> {"preparing", "ready", "assigned", "over"}]
    /\ agent \in [Orders -> Agents \cup {NoAgent}]
    /\ offer \in [Orders -> SUBSET Agents]
    /\ claim \subseteq Orders
    /\ attempts \in [Orders -> Nat]
    /\ present \subseteq Agents /\ busy \subseteq Agents /\ leaving \subseteq Agents
    /\ worker \in [Workers ->
          [batch : SUBSET Orders, step : {"next"}, order : {NoOrder}, found : {{}}]
          \cup [batch : SUBSET Orders, step : {"attempts", "find", "offer", "count", "emit"},
                order : Orders, found : SUBSET Agents]]
    /\ request \in [Requests ->
          {IdleRequest} \cup
          [step : {"rewrite", "trySet", "commit", "unclaim", "busy", "drop"},
           order : Orders, agent : Agents, rest : SUBSET Agents]]
    /\ rounds \in [Orders -> Nat]
    /\ entitled \in [Orders -> SUBSET Agents]
    /\ alerted \subseteq Orders

(* Whatever fails and overlaps: between two expiries of its counter an     *)
(* order is broadcast MaxAttempts times, and once more for every worker    *)
(* process beyond the first: the counter is read before the offer is set   *)
(* and incremented after it (assignment.service.ts:79-106).                *)
RoundsBounded == \A o \in Orders : rounds[o] + 1 <= MaxAttempts + Cardinality(Workers)

(* Without overlapping requests: who takes an order was offered it, or was *)
(* forced on it by an admin, and did not decline since.                    *)
WinnerIsEntitled ==
    [][\A o \in Orders : status[o] # "assigned" /\ status'[o] = "assigned"
                            => agent'[o] \in entitled[o]]_vars

(* Without overlapping requests: no worker overwrites a live offer         *)
(* (deliveries.md:58, "the NX ensures we don't overwrite a live offer").   *)
LiveOfferNeverGrows ==
    [][\A o \in Orders : offer[o] # {} => offer'[o] \subseteq offer[o]]_vars

(* Without faults: a ready order is claimed or cancelled, or the admins    *)
(* are alerted.  The batch has to be large enough.                         *)
ReadyIsServed ==
    \A o \in Orders : status[o] = "ready" ~> status[o] # "ready" \/ o \in alerted
=============================================================================
