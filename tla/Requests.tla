------------------------------ MODULE Requests ------------------------------
(***************************************************************************)
(* A customer's POST /orders and its repetitions under one Idempotency-Key *)
(* header: the strict middleware of idempotency.ts around placeOrder, and  *)
(* under placeOrder the calls of core-client.ts with their retries.        *)
(*                                                                         *)
(* Two keys are at work.  The client's names the stored response in Redis  *)
(* and is meant to make a repetition harmless; the service's own, a        *)
(* publicId it mints for every execution, makes core apply a stock call    *)
(* once however often the client of core repeats it.                       *)
(*                                                                         *)
(* A call to core is abandoned after a timeout; core may have applied it,  *)
(* may apply it later, or may never see it.  Core is external: it applies  *)
(* a key's call once and answers every copy alike.                         *)
(*                                                                         *)
(* The history variable exposed tells whether the stored response ever     *)
(* failed to cover a repetition: a run missed it while another run was     *)
(* under way or its response was still being stored, or the response was   *)
(* lost (a failed SET, the TTL, the death of a process).                   *)
(***************************************************************************)
EXTENDS Naturals, FiniteSets

CONSTANTS
    Runs,       \* the requests sent under the one key
    Stock,      \* units of the product; every order takes one
    MaxFaults   \* bound: writes failed, keys expired, processes dead

ASSUME RequestsAssumption ==
    /\ Stock \in Nat /\ MaxFaults \in Nat
    /\ Runs \cap {"none", "refused", "unavailable", "failed"} = {}

Attempts == 3
Paths == {"reserve", "release"}
Bodies == {"refused", "unavailable", "failed"} \cup Runs  \* a run: its order
None == "none"

VARIABLES
    at,         \* the next step of each run
    tries,      \* attempts its present call to core has made
    order,      \* the order row a run has written
    stored,     \* Redis: the body under the client's key
    storing,    \* bodies whose SET is on its way, per run
    answer,     \* the body each run was answered with
    remembered, \* core: the outcome of a run's calls, by path
    left,       \* core: units of the product not reserved
    held,       \* core: units reserved under a run's publicId
    late,       \* abandoned calls still on their way to core
    unreleased, \* runs whose release gave up
    faults,
    exposed     \* history: see above

redisVars == <<stored, storing>>
coreVars == <<remembered, left, held, late>>
vars == <<at, tries, order, redisVars, answer, coreVars, unreleased, faults, exposed>>

Steps == {"unsent", "lookup", "reserve", "commit", "session", "void", "release",
          "done", "dead"}

Init ==
    /\ at = [r \in Runs |-> "unsent"]
    /\ tries = [r \in Runs |-> 0]
    /\ order = [r \in Runs |-> None]
    /\ stored = None
    /\ storing = [r \in Runs |-> None]
    /\ answer = [r \in Runs |-> None]
    /\ remembered = [r \in Runs |-> [p \in Paths |-> None]]
    /\ left = Stock
    /\ held = [r \in Runs |-> 0]
    /\ late = {} /\ unreleased = {}
    /\ faults = 0
    /\ exposed = FALSE

Fault == faults < MaxFaults /\ faults' = faults + 1

Goto(r, from, to) ==
    /\ at[r] = from
    /\ at' = [at EXCEPT ![r] = to]
    /\ tries' = [tries EXCEPT ![r] = 0]

-----------------------------------------------------------------------------
(* The middleware.                                                         *)

Send(r) ==
    /\ Goto(r, "unsent", "lookup")
    /\ UNCHANGED <<order, redisVars, answer, coreVars, unreleased, faults, exposed>>

(* A run between its miss and the end of its SET. *)
Open(r) == at[r] \notin {"unsent", "lookup", "done", "dead"} \/ storing[r] # None

(* GET: a hit is answered with 200 and the stored body, a miss runs the    *)
(* handler.                                                                *)
Lookup(r) ==
    \/ /\ stored # None
       /\ Goto(r, "lookup", "done")
       /\ answer' = [answer EXCEPT ![r] = stored]
       /\ UNCHANGED <<order, redisVars, coreVars, unreleased, faults, exposed>>
    \/ /\ stored = None
       /\ Goto(r, "lookup", "reserve")
       /\ exposed' = (exposed \/ \E other \in Runs : Open(other))
       /\ UNCHANGED <<order, redisVars, answer, coreVars, unreleased, faults>>

(* Mutant of LookupFails: without strict the handler runs all the same. *)
LookupFailsOpen(r) ==
    /\ Fault
    /\ Goto(r, "lookup", "reserve")
    /\ UNCHANGED <<order, redisVars, answer, coreVars, unreleased, exposed>>

(* Redis cannot be reached: a strict route answers 503 and does nothing.   *)
LookupFails(r) ==
    /\ Fault
    /\ Goto(r, "lookup", "done")
    /\ UNCHANGED <<order, redisVars, answer, coreVars, unreleased, exposed>>

(* res.json stores whatever body it sends, an error's too, and does not    *)
(* wait for the SET.                                                       *)
Stores(r, body) == storing' = [storing EXCEPT ![r] = body]

Respond(r, from, body) ==
    /\ Goto(r, from, "done")
    /\ answer' = [answer EXCEPT ![r] = body]
    /\ Stores(r, body)
    /\ UNCHANGED stored

SetLands(r) ==
    /\ storing[r] # None
    /\ stored' = storing[r]
    /\ storing' = [storing EXCEPT ![r] = None]
    /\ UNCHANGED <<at, tries, order, answer, coreVars, unreleased, faults, exposed>>

(* A failed SET is ignored. *)
SetFails(r) ==
    /\ storing[r] # None
    /\ Fault
    /\ storing' = [storing EXCEPT ![r] = None]
    /\ exposed' = TRUE
    /\ UNCHANGED <<at, tries, order, stored, answer, coreVars, unreleased>>

StoredExpires ==
    /\ stored # None
    /\ Fault
    /\ stored' = None
    /\ exposed' = TRUE
    /\ UNCHANGED <<at, tries, order, storing, answer, coreVars, unreleased>>

-----------------------------------------------------------------------------
(* CoreClient.request: the stock calls of placeOrder.                      *)

(* Core applies a call: all of it or, with too little stock, none of it.   *)
Apply(r, p) ==
    IF p = "release"
    THEN [outcome |-> "ok", left |-> left + held[r], held |-> 0]
    ELSE IF left > 0
         THEN [outcome |-> "ok", left |-> left - 1, held |-> held[r] + 1]
         ELSE [outcome |-> "refused", left |-> left, held |-> held[r]]

(* Mutant of Serve: the call carries no Idempotency-Key. *)
ServeAgain(r, p) ==
    LET applied == Apply(r, p)
    IN  /\ remembered' = [remembered EXCEPT ![r] = [@ EXCEPT ![p] = applied.outcome]]
        /\ left' = applied.left
        /\ held' = [held EXCEPT ![r] = applied.held]

(* Core receives a call under a run's publicId, once or again. *)
Serve(r, p) ==
    IF remembered[r][p] # None
    THEN UNCHANGED <<remembered, left, held>>
    ELSE LET applied == Apply(r, p)
         IN  /\ remembered' = [remembered EXCEPT ![r] = [@ EXCEPT ![p] = applied.outcome]]
             /\ left' = applied.left
             /\ held' = [held EXCEPT ![r] = applied.held]

(* A copy of the call that its sender had given up on arrives. *)
ServeLate(r, p) ==
    /\ <<r, p>> \in late
    /\ Serve(r, p)
    /\ late' = late \ {<<r, p>>}
    /\ UNCHANGED <<at, tries, order, redisVars, answer, unreleased, faults, exposed>>

(* An attempt that is answered below 500 ends the call: core's refusal is  *)
(* not retried.  A run that releases answers its customer with the error   *)
(* that made it release.                                                   *)
CallAnswered(r) ==
    /\ at[r] \in Paths
    /\ Serve(r, at[r])
    /\ \/ /\ at[r] = "release"
          /\ Respond(r, "release", "failed")
       \/ /\ at[r] = "reserve" /\ remembered'[r].reserve = "ok"
          /\ Goto(r, "reserve", "commit")
          /\ UNCHANGED <<redisVars, answer>>
       \/ /\ at[r] = "reserve" /\ remembered'[r].reserve = "refused"
          /\ Respond(r, "reserve", "refused")
    /\ UNCHANGED <<order, late, unreleased, faults, exposed>>

(* An attempt without an answer, or one of 500 and above: core has applied *)
(* it, may still apply it, or never will.                                  *)
AttemptLost(r) ==
    /\ at[r] \in Paths
    /\ \/ Serve(r, at[r]) /\ UNCHANGED late
       \/ late' = late \cup {<<r, at[r]>>} /\ UNCHANGED <<remembered, left, held>>
       \/ UNCHANGED coreVars

(* Mutant of Retry: an attempt is always followed by another. *)

RetryForever(r) ==
    /\ AttemptLost(r)
    /\ tries' = [tries EXCEPT ![r] = (@ + 1) % Attempts]
    /\ UNCHANGED <<at, order, redisVars, answer, unreleased, faults, exposed>>

Retry(r) ==
    /\ tries[r] + 1 < Attempts
    /\ AttemptLost(r)
    /\ tries' = [tries EXCEPT ![r] = @ + 1]
    /\ UNCHANGED <<at, order, redisVars, answer, unreleased, faults, exposed>>

(* The last attempt: a reservation fails the request, though it may have   *)
(* been made; a release is given up, and only logged.                      *)
GiveUp(r) ==
    /\ tries[r] + 1 = Attempts
    /\ AttemptLost(r)
    /\ \/ at[r] = "reserve" /\ Respond(r, "reserve", "unavailable") /\ UNCHANGED unreleased
       \/ /\ at[r] = "release"
          /\ Respond(r, "release", "failed")
          /\ unreleased' = unreleased \cup {r}
    /\ UNCHANGED <<order, faults, exposed>>

-----------------------------------------------------------------------------
(* The rest of placeOrder.                                                 *)

Commit(r) ==
    /\ Goto(r, "commit", "session")
    /\ order' = [order EXCEPT ![r] = "open"]
    /\ UNCHANGED <<redisVars, answer, coreVars, unreleased, faults, exposed>>

CommitFails(r) ==
    /\ Fault
    /\ Goto(r, "commit", "release")
    /\ UNCHANGED <<order, redisVars, answer, coreVars, unreleased, exposed>>

(* A COD order is done; an online one has its payment session opened. *)
Created(r) ==
    /\ Respond(r, "session", r)
    /\ UNCHANGED <<order, coreVars, unreleased, faults, exposed>>

SessionFails(r) ==
    /\ Goto(r, "session", "void")
    /\ UNCHANGED <<order, redisVars, answer, coreVars, unreleased, faults, exposed>>

VoidOrderSafe(r) ==
    /\ Goto(r, "void", "release")
    /\ order' = [order EXCEPT ![r] = "void"]
    /\ UNCHANGED <<redisVars, answer, coreVars, unreleased, faults, exposed>>

(* The voiding fails and is only logged. *)
VoidFails(r) ==
    /\ Fault
    /\ Goto(r, "void", "release")
    /\ UNCHANGED <<order, redisVars, answer, coreVars, unreleased, exposed>>

(* The process dies under a run; what it was about to store is lost.       *)
Die(r) ==
    /\ at[r] \notin {"unsent", "done", "dead"}
    /\ Fault
    /\ Goto(r, at[r], "dead")
    /\ exposed' = (exposed \/ Open(r))
    /\ UNCHANGED <<order, redisVars, answer, coreVars, unreleased>>

-----------------------------------------------------------------------------
CallCore(r) == CallAnswered(r) \/ Retry(r) \/ GiveUp(r)

Handler(r) ==
    \/ Lookup(r) \/ LookupFails(r)
    \/ CallCore(r)
    \/ Commit(r) \/ CommitFails(r)
    \/ Created(r) \/ SessionFails(r)
    \/ VoidOrderSafe(r) \/ VoidFails(r)

Next ==
    \/ \E r \in Runs : Send(r) \/ Handler(r) \/ SetLands(r) \/ SetFails(r) \/ Die(r)
    \/ \E r \in Runs, p \in Paths : ServeLate(r, p)
    \/ StoredExpires

Spec == Init /\ [][Next]_vars

(* The timeout and the promises settle: a run that was started goes on.    *)
FairSpec == Spec /\ \A r \in Runs : WF_vars(Handler(r))

-----------------------------------------------------------------------------
(* Properties                                                              *)

TypeOK ==
    /\ at \in [Runs -> Steps]
    /\ tries \in [Runs -> 0..(Attempts - 1)]
    /\ order \in [Runs -> {None, "open", "void"}]
    /\ stored \in {None} \cup Bodies
    /\ storing \in [Runs -> {None} \cup Bodies]
    /\ answer \in [Runs -> {None} \cup Bodies]
    /\ remembered \in [Runs -> [Paths -> {None, "ok", "refused"}]]
    /\ left \in 0..Stock
    /\ held \in [Runs -> 0..Stock]
    /\ late \subseteq Runs \X Paths
    /\ unreleased \subseteq Runs
    /\ faults \in 0..MaxFaults
    /\ exposed \in BOOLEAN

(* Repetitions of a request that the stored response has always covered,   *)
(* answered late, failed or not at all, make one live order at most: the   *)
(* client may repeat a request it heard nothing of.  And, as               *)
(* implementation-plan.md:233 has it, "Same idempotency key returns the    *)
(* same response" (an unreachable Redis answers without a body).           *)
OneOrderOneAnswer ==
    \/ exposed
    \/ \A q, r \in Runs :
          /\ order[q] = "open" /\ order[r] = "open" => q = r
          /\ answer[q] # None /\ answer[r] # None => answer[q] = answer[r]

(* Whatever is lost, repeated or applied late: once a run has answered,    *)
(* core holds one unit for the order it announced, none for one it         *)
(* refused, and none for one it failed unless the release gave up.         *)
(* (order.service.ts:110-113: failure must release, and the publicId as    *)
(* the key "means a retry never double-reserves".)                         *)
StockMatchesAnswer ==
    \A r \in Runs : at[r] = "done" /\ r \notin unreleased =>
        /\ order[r] = "open" /\ answer[r] = r => held[r] = 1
        /\ answer[r] = "refused" /\ order[r] = None => held[r] = 0
        /\ answer[r] = "failed" /\ remembered[r].reserve = "ok" => held[r] = 0

(* However many attempts its calls take, a request that is being handled   *)
(* is answered, or its process has died.                                   *)
IsAnswered == <>[](\A r \in Runs : at[r] \in {"unsent", "done", "dead"})
=============================================================================
