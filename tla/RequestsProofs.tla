--------------------------- MODULE RequestsProofs ---------------------------
(***************************************************************************)
(* The safety of Requests, for any number of repetitions, any stock and    *)
(* any number of faults.                                                   *)
(***************************************************************************)
EXTENDS Requests, FiniteSetTheorems, TLAPS

(* Nothing was asked of core for a run.                                    *)
NeverCalled(r) == remembered[r].reserve = None /\ <<r, "reserve">> \notin late

(* The runs a unit is reserved for, and what is left.                      *)
Holders == {r \in Runs : held[r] = 1}

StockAddsUp ==
    /\ \A r \in Runs : held[r] \in {0, 1}
    /\ IsFiniteSet(Holders)
    /\ left + Cardinality(Holders) = Stock

(* Core holds a unit of a run whose reservation it made and whose release  *)
(* it did not, and a release follows a reservation.                        *)
HeldAsAsked ==
    \A r \in Runs :
        /\ held[r] = 1 <=> remembered[r].reserve = "ok" /\ remembered[r].release = None
        /\ remembered[r].release \in {None, "ok"}
        /\ remembered[r].release = "ok" \/ <<r, "release">> \in late
             => remembered[r].reserve = "ok"

(* How far a run has come, and what it has asked for by then.              *)
RunShape ==
    \A r \in Runs :
        /\ at[r] \in {"unsent", "lookup"} => NeverCalled(r)
        /\ at[r] \in {"unsent", "lookup", "reserve", "commit", "session", "void"}
             => remembered[r].release = None /\ <<r, "release">> \notin late
        /\ at[r] \in {"commit", "session", "void", "release"} => remembered[r].reserve = "ok"
        /\ at[r] # "done" => answer[r] = None /\ storing[r] = None

(* A run that is somebody's answer has ended with its order placed.        *)
Announced(r) ==
    at[r] = "done" /\ remembered[r].reserve = "ok"
    /\ remembered[r].release = None /\ <<r, "release">> \notin late

BodiesAreTrue ==
    \A r \in Runs :
        /\ stored = r => Announced(r)
        /\ \A q \in Runs : answer[q] = r \/ storing[q] = r => Announced(r)
        /\ answer[r] = "refused" /\ order[r] = None
             => NeverCalled(r) \/ remembered[r].reserve = "refused"
        /\ answer[r] = "failed"
             => NeverCalled(r) \/ remembered[r].release = "ok" \/ r \in unreleased

(* As long as the stored response covers every repetition: one run at a    *)
(* time is open, none once a response is stored, and an order or an answer *)
(* is the open run's or the stored one's.                                  *)
Covered ==
    /\ \A q, r \in Runs : Open(q) /\ Open(r) => q = r
    /\ stored # None => \A r \in Runs : ~Open(r)
    /\ \A r \in Runs :
          /\ order[r] # None => Open(r) \/ stored # None
          /\ storing[r] # None => answer[r] = storing[r]
          /\ answer[r] # None => answer[r] = storing[r] \/ answer[r] = stored
    /\ \A q, r \in Runs : order[q] # None /\ order[r] # None => q = r

IInv ==
    /\ TypeOK /\ StockAddsUp /\ HeldAsAsked /\ RunShape /\ BodiesAreTrue
    /\ ~exposed => Covered

-----------------------------------------------------------------------------
(* Core.                                                                   *)
RecType == [Paths -> {None, "ok", "refused"}]

(* A step has core serve one call at most, one that was sent: by a run     *)
(* that is at it, or late.                                                 *)
LEMMA OneCallAtATime ==
    ASSUME [Next]_vars
    PROVE  \/ UNCHANGED coreVars
           \/ \E r \in Runs, p \in Paths :
                 /\ at[r] = p \/ <<r, p>> \in late
                 /\ late' \subseteq late \cup {<<r, p>>}
                 /\ Serve(r, p) \/ UNCHANGED <<remembered, left, held>>
<1> DEFINE Call(r, p) ==
              /\ at[r] = p \/ <<r, p>> \in late
              /\ late' \subseteq late \cup {<<r, p>>}
              /\ Serve(r, p) \/ UNCHANGED <<remembered, left, held>>
<1>1. ASSUME NEW r \in Runs, AttemptLost(r) PROVE \E p \in Paths : Call(r, p)
    BY <1>1 DEF AttemptLost, coreVars
<1>2. ASSUME NEW r \in Runs, CallCore(r) PROVE \E p \in Paths : Call(r, p)
    BY <1>1, <1>2 DEF CallCore, CallAnswered, Retry, GiveUp
<1>3. ASSUME NEW r \in Runs, NEW p \in Paths, ServeLate(r, p) PROVE Call(r, p)
    BY <1>3 DEF ServeLate
<1>4. ASSUME NEW r \in Runs, Send(r) \/ Lookup(r) \/ LookupFails(r) \/ Commit(r) \/ CommitFails(r)
                             \/ Created(r) \/ SessionFails(r) \/ VoidOrderSafe(r) \/ VoidFails(r)
                             \/ SetLands(r) \/ SetFails(r) \/ Die(r)
      PROVE  UNCHANGED coreVars
    BY <1>4 DEF Send, Lookup, LookupFails, Commit, CommitFails, Created, SessionFails,
                VoidOrderSafe, VoidFails, SetLands, SetFails, Die
<1>5. ASSUME StoredExpires \/ UNCHANGED vars PROVE UNCHANGED coreVars
    BY <1>5 DEF StoredExpires, vars, coreVars
<1> QED BY <1>2, <1>3, <1>4, <1>5 DEF Next, Handler

(* What serving a call does, once and again.                               *)
LEMMA ServeStep ==
    ASSUME TypeOK, StockAddsUp, HeldAsAsked, NEW r \in Runs, NEW p \in Paths, Serve(r, p),
           p = "release" => remembered[r].reserve = "ok"
    PROVE  /\ remembered' \in [Runs -> RecType] /\ left' \in 0..Stock /\ held' \in [Runs -> 0..Stock]
           /\ StockAddsUp'
           /\ \A q \in Runs : held'[q] = 1 <=> /\ remembered'[q].reserve = "ok"
                                               /\ remembered'[q].release = None
           /\ remembered'[r].release \in {None, "ok"}
           /\ \A q \in Runs, s \in Paths :
                 \/ remembered'[q][s] = remembered[q][s]
                 \/ q = r /\ s = p /\ remembered[q][s] = None
<1> USE RequestsAssumption
<1>a. /\ left \in Nat /\ left <= Stock /\ \A q \in Runs : held[q] \in {0, 1}
      /\ IsFiniteSet(Holders) /\ Cardinality(Holders) \in Nat
      /\ left + Cardinality(Holders) = Stock
    BY FS_CardinalityType DEF TypeOK, StockAddsUp
<1>b. None # "ok" /\ None # "refused" /\ "reserve" \in Paths /\ "release" \in Paths
    BY DEF None, Paths
<1>1. CASE remembered[r][p] # None
    <2>1. UNCHANGED <<remembered, left, held>>
        BY <1>1 DEF Serve
    <2> QED BY <2>1 DEF TypeOK, StockAddsUp, HeldAsAsked, Holders, RecType
<1>2. ASSUME NEW outcome \in {"ok", "refused"}, remembered[r][p] = None,
             remembered' = [remembered EXCEPT ![r] = [@ EXCEPT ![p] = outcome]]
      PROVE  /\ remembered' \in [Runs -> RecType]
             /\ remembered'[r][p] = outcome
             /\ \A s \in Paths \ {p} : remembered'[r][s] = remembered[r][s]
             /\ \A q \in Runs \ {r} : remembered'[q] = remembered[q]
    <2>1. remembered \in [Runs -> RecType] /\ outcome \in {None, "ok", "refused"}
        BY DEF TypeOK, RecType
    <2>2. [remembered[r] EXCEPT ![p] = outcome] \in RecType
        BY <2>1 DEF RecType
    <2> QED BY <1>2, <2>1, <2>2 DEF RecType
<1>3. CASE remembered[r][p] = None /\ p = "release"
    <2>1. held[r] = 1 /\ r \in Holders
        BY <1>3 DEF HeldAsAsked, Holders
    <2>2. /\ remembered' = [remembered EXCEPT ![r] = [@ EXCEPT ![p] = "ok"]]
          /\ left' = left + 1 /\ held' = [held EXCEPT ![r] = 0]
        BY <1>3, <2>1 DEF Serve, Apply
    <2>3. held'[r] = 0 /\ \A q \in Runs \ {r} : held'[q] = held[q]
        BY <2>2 DEF TypeOK
    <2>4. Holders' = Holders \ {r}
        BY <2>3 DEF Holders
    <2>5. IsFiniteSet(Holders') /\ Cardinality(Holders') = Cardinality(Holders) - 1
        BY <1>a, <2>1, <2>4, FS_RemoveElement
    <2>6. Cardinality(Holders') \in Nat
        BY <2>5, FS_CardinalityType
    <2>7. StockAddsUp' /\ left' \in 0..Stock
        BY <1>a, <2>2, <2>3, <2>5, <2>6 DEF StockAddsUp
    <2>8. held' \in [Runs -> 0..Stock]
        BY <2>2 DEF TypeOK
    <2>9. /\ remembered' \in [Runs -> RecType] /\ remembered'[r].release = "ok"
          /\ \A s \in Paths \ {p} : remembered'[r][s] = remembered[r][s]
          /\ \A q \in Runs \ {r} : remembered'[q] = remembered[q]
        BY <1>2, <1>3, <2>2
    <2>10. \A q \in Runs : held'[q] = 1 <=> /\ remembered'[q].reserve = "ok"
                                            /\ remembered'[q].release = None
        <3> SUFFICES ASSUME NEW q \in Runs
                     PROVE  held'[q] = 1 <=> /\ remembered'[q].reserve = "ok"
                                             /\ remembered'[q].release = None
            OBVIOUS
        <3>1. CASE q = r
            BY <1>b, <2>3, <2>9, <3>1
        <3>2. CASE q # r
            BY <2>3, <2>9, <3>2 DEF HeldAsAsked
        <3> QED BY <3>1, <3>2
    <2> QED BY <1>3, <2>7, <2>8, <2>9, <2>10
<1>4. CASE remembered[r][p] = None /\ p = "reserve" /\ left > 0
    <2>1. held[r] = 0 /\ r \notin Holders /\ remembered[r].release = None
        BY <1>4, <1>a, <1>b DEF HeldAsAsked, Holders
    <2>2. /\ remembered' = [remembered EXCEPT ![r] = [@ EXCEPT ![p] = "ok"]]
          /\ left' = left - 1 /\ held' = [held EXCEPT ![r] = 1]
        BY <1>4, <2>1 DEF Serve, Apply
    <2>3. held'[r] = 1 /\ \A q \in Runs \ {r} : held'[q] = held[q]
        BY <2>2 DEF TypeOK
    <2>4. Holders' = Holders \cup {r}
        BY <2>3 DEF Holders
    <2>5. IsFiniteSet(Holders') /\ Cardinality(Holders') = Cardinality(Holders) + 1
        BY <1>a, <2>1, <2>4, FS_AddElement
    <2>6. StockAddsUp' /\ left' \in 0..Stock
        BY <1>4, <1>a, <2>2, <2>3, <2>5 DEF StockAddsUp
    <2>7. held' \in [Runs -> 0..Stock]
        <3>1. 1 \in 0..Stock
            BY <1>4, <1>a
        <3> QED BY <2>2, <3>1 DEF TypeOK
    <2> QED BY <1>2, <1>4, <1>b, <2>1, <2>2, <2>3, <2>6, <2>7 DEF HeldAsAsked
<1>5. CASE remembered[r][p] = None /\ p = "reserve" /\ ~(left > 0)
    <2>1. held[r] # 1 /\ remembered[r].release = None
        BY <1>5, <1>b DEF HeldAsAsked
    <2>2. /\ remembered' = [remembered EXCEPT ![r] = [@ EXCEPT ![p] = "refused"]]
          /\ left' = left /\ held' = held
        BY <1>5 DEF Serve, Apply, TypeOK
    <2>3. StockAddsUp'
        BY <2>2 DEF StockAddsUp, Holders
    <2> QED BY <1>2, <1>5, <1>b, <2>1, <2>2, <2>3 DEF HeldAsAsked, TypeOK
<1> QED BY <1>1, <1>3, <1>4, <1>5 DEF Paths

LEMMA CoreStep ==
    ASSUME TypeOK, StockAddsUp, HeldAsAsked, RunShape, [Next]_vars
    PROVE  /\ remembered' \in [Runs -> RecType] /\ left' \in 0..Stock
           /\ held' \in [Runs -> 0..Stock] /\ late' \subseteq Runs \X Paths
           /\ StockAddsUp' /\ HeldAsAsked'
           /\ \A q \in Runs, s \in Paths :
                 /\ remembered[q][s] # None => remembered'[q][s] = remembered[q][s]
                 /\ at[q] # s /\ <<q, s>> \notin late
                      => remembered'[q][s] = remembered[q][s] /\ <<q, s>> \notin late'
<1>1. CASE UNCHANGED coreVars
    BY <1>1 DEF coreVars, TypeOK, StockAddsUp, HeldAsAsked, Holders, RecType
<1>2. ASSUME NEW r \in Runs, NEW p \in Paths,
             at[r] = p \/ <<r, p>> \in late, late' \subseteq late \cup {<<r, p>>},
             Serve(r, p) \/ UNCHANGED <<remembered, left, held>>
      PROVE  /\ remembered' \in [Runs -> RecType] /\ left' \in 0..Stock
             /\ held' \in [Runs -> 0..Stock] /\ late' \subseteq Runs \X Paths
             /\ StockAddsUp' /\ HeldAsAsked'
             /\ \A q \in Runs, s \in Paths :
                   /\ remembered[q][s] # None => remembered'[q][s] = remembered[q][s]
                   /\ at[q] # s /\ <<q, s>> \notin late
                        => remembered'[q][s] = remembered[q][s] /\ <<q, s>> \notin late'
    <2>1. p = "release" => remembered[r].reserve = "ok"
        BY <1>2 DEF HeldAsAsked, RunShape
    <2>2. late' \subseteq Runs \X Paths
        BY <1>2 DEF TypeOK
    <2>3. /\ remembered' \in [Runs -> RecType] /\ left' \in 0..Stock /\ held' \in [Runs -> 0..Stock]
          /\ StockAddsUp'
          /\ \A q \in Runs : held'[q] = 1 <=> /\ remembered'[q].reserve = "ok"
                                              /\ remembered'[q].release = None
          /\ \A q \in Runs : remembered'[q].release \in {None, "ok"}
          /\ \A q \in Runs, s \in Paths :
                \/ remembered'[q][s] = remembered[q][s]
                \/ q = r /\ s = p /\ remembered[q][s] = None
        <3>1. CASE Serve(r, p)
            <4>1. \A q \in Runs : remembered'[q].release \in {None, "ok"}
                BY <2>1, <3>1, ServeStep DEF HeldAsAsked, Paths
            <4> QED BY <2>1, <3>1, <4>1, ServeStep
        <3>2. CASE UNCHANGED <<remembered, left, held>>
            BY <3>2 DEF TypeOK, StockAddsUp, HeldAsAsked, Holders, RecType
        <3> QED BY <1>2, <3>1, <3>2
    <2>4. \A q \in Runs : remembered'[q].release = "ok" \/ <<q, "release">> \in late'
                            => remembered'[q].reserve = "ok"
        <3> SUFFICES ASSUME NEW q \in Runs,
                            remembered'[q].release = "ok" \/ <<q, "release">> \in late'
                     PROVE  remembered[q].reserve = "ok"
            BY <2>3 DEF Paths, None
        <3>1. CASE remembered[q].release = "ok" \/ <<q, "release">> \in late
            BY <3>1 DEF HeldAsAsked
        <3>2. CASE ~(remembered[q].release = "ok" \/ <<q, "release">> \in late)
            BY <1>2, <2>1, <2>3, <3>2 DEF Paths
        <3> QED BY <3>1, <3>2
    <2>5. HeldAsAsked'
        BY <2>3, <2>4 DEF HeldAsAsked
    <2> QED BY <1>2, <2>2, <2>3, <2>5
<1> QED BY <1>1, <1>2, OneCallAtATime

-----------------------------------------------------------------------------
(* The runs.                                                               *)

LEMMA TypeStep ==
    ASSUME TypeOK, StockAddsUp, HeldAsAsked, RunShape, [Next]_vars
    PROVE  TypeOK'
<1> DEFINE Others == /\ at' \in [Runs -> Steps]
                     /\ tries' \in [Runs -> 0..(Attempts - 1)]
                     /\ order' \in [Runs -> {None, "open", "void"}]
                     /\ stored' \in {None} \cup Bodies
                     /\ storing' \in [Runs -> {None} \cup Bodies]
                     /\ answer' \in [Runs -> {None} \cup Bodies]
                     /\ unreleased' \subseteq Runs
                     /\ faults' \in 0..MaxFaults
                     /\ exposed' \in BOOLEAN
<1> USE RequestsAssumption
<1>a. ASSUME NEW r \in Runs, NEW from, NEW to \in Steps, Goto(r, from, to)
      PROVE  at' \in [Runs -> Steps] /\ tries' \in [Runs -> 0..(Attempts - 1)]
    BY <1>a DEF Goto, TypeOK, Attempts
<1>b. Fault => faults' \in 0..MaxFaults
    BY DEF Fault, TypeOK
<1>c. ASSUME NEW r \in Runs, NEW from, NEW body \in Bodies, Respond(r, from, body)
      PROVE  /\ at' \in [Runs -> Steps] /\ tries' \in [Runs -> 0..(Attempts - 1)]
             /\ stored' \in {None} \cup Bodies
             /\ storing' \in [Runs -> {None} \cup Bodies]
             /\ answer' \in [Runs -> {None} \cup Bodies]
    <2>1. Goto(r, from, "done") /\ "done" \in Steps
        BY <1>c DEF Respond, Steps
    <2> QED BY <1>a, <1>c, <2>1 DEF Respond, Stores, TypeOK
<1>1. ASSUME NEW r \in Runs, Send(r) PROVE Others
    BY <1>a, <1>1 DEF Send, redisVars, TypeOK, Steps
<1>2. ASSUME NEW r \in Runs, Lookup(r) PROVE Others
    <2>1. at' \in [Runs -> Steps] /\ tries' \in [Runs -> 0..(Attempts - 1)]
        BY <1>a, <1>2 DEF Lookup, Steps
    <2>2. answer' \in [Runs -> {None} \cup Bodies]
        BY <1>2 DEF Lookup, TypeOK
    <2>3. exposed' \in BOOLEAN
        BY <1>2, Zenon DEF Lookup, TypeOK
    <2> QED BY <1>2, <2>1, <2>2, <2>3 DEF Lookup, redisVars, TypeOK
<1>3. ASSUME NEW r \in Runs, LookupFails(r) \/ CommitFails(r) PROVE Others
    BY <1>a, <1>b, <1>3 DEF LookupFails, CommitFails, redisVars, TypeOK, Steps
<1>4. ASSUME NEW r \in Runs, CallAnswered(r) PROVE Others
    <2>1. /\ UNCHANGED <<order, unreleased, faults, exposed>>
          /\ \/ Respond(r, "release", "failed")
             \/ Goto(r, "reserve", "commit") /\ UNCHANGED <<redisVars, answer>>
             \/ Respond(r, "reserve", "refused")
        BY <1>4 DEF CallAnswered
    <2> QED BY <1>a, <1>c, <2>1 DEF redisVars, TypeOK, Steps, Bodies
<1>5. ASSUME NEW r \in Runs, Retry(r) PROVE Others
    <2>1. tries' \in [Runs -> 0..(Attempts - 1)]
        <3>1. tries[r] + 1 \in 0..(Attempts - 1)
            BY <1>5 DEF Retry, TypeOK, Attempts
        <3> QED BY <1>5, <3>1 DEF Retry, TypeOK
    <2> QED BY <1>5, <2>1 DEF Retry, redisVars, TypeOK
<1>6. ASSUME NEW r \in Runs, GiveUp(r) PROVE Others
    <2>1. /\ UNCHANGED <<order, faults, exposed>> /\ unreleased' \subseteq Runs
          /\ Respond(r, "reserve", "unavailable") \/ Respond(r, "release", "failed")
        BY <1>6 DEF GiveUp, TypeOK
    <2> QED BY <1>c, <2>1 DEF TypeOK, Bodies
<1>7. ASSUME NEW r \in Runs, Commit(r) \/ VoidOrderSafe(r) PROVE Others
    BY <1>a, <1>7 DEF Commit, VoidOrderSafe, redisVars, TypeOK, Steps
<1>8. ASSUME NEW r \in Runs, Created(r) PROVE Others
    BY <1>c, <1>8 DEF Created, TypeOK, Bodies
<1>9. ASSUME NEW r \in Runs, SessionFails(r) \/ VoidFails(r) PROVE Others
    BY <1>a, <1>b, <1>9 DEF SessionFails, VoidFails, redisVars, TypeOK, Steps
<1>10. ASSUME NEW r \in Runs, SetLands(r) PROVE Others
    BY <1>10 DEF SetLands, TypeOK
<1>11. ASSUME NEW r \in Runs, SetFails(r) PROVE Others
    BY <1>b, <1>11 DEF SetFails, TypeOK
<1>12. ASSUME NEW r \in Runs, Die(r) PROVE Others
    <2>1. exposed' \in BOOLEAN
        BY <1>12, Zenon DEF Die
    <2> QED BY <1>a, <1>b, <1>12, <2>1 DEF Die, redisVars, TypeOK, Steps
<1>13. ASSUME NEW r \in Runs, NEW p \in Paths, ServeLate(r, p) PROVE Others
    BY <1>13 DEF ServeLate, redisVars, TypeOK
<1>14. ASSUME StoredExpires PROVE Others
    BY <1>b, <1>14 DEF StoredExpires, TypeOK
<1>15. ASSUME UNCHANGED vars PROVE Others
    BY <1>15 DEF vars, redisVars, TypeOK
<1>16. Others
    BY <1>1, <1>2, <1>3, <1>4, <1>5, <1>6, <1>7, <1>8, <1>9, <1>10, <1>11, <1>12, <1>13, <1>14,
       <1>15 DEF Next, Handler, CallCore
<1> QED BY <1>16, CoreStep DEF TypeOK, RecType

(* What a step may do to a run, to what is stored, and to what was given   *)
(* up.                                                                     *)
Moves(q, from, to) == at[q] = from /\ at'[q] = to
KeepsOrder(q) == order'[q] = order[q]
KeepsAnswer(q) == answer'[q] = answer[q] /\ storing'[q] = storing[q]
Responds(q, from, body) ==
    Moves(q, from, "done") /\ answer'[q] = body /\ storing'[q] = body

RunStep(q) ==
    \/ at'[q] = at[q] /\ KeepsOrder(q) /\ answer'[q] = answer[q] /\ storing'[q] \in {storing[q], None}
    \/ Moves(q, "unsent", "lookup") /\ KeepsOrder(q) /\ KeepsAnswer(q)
    \/ Moves(q, "lookup", "done") /\ KeepsOrder(q) /\ storing'[q] = storing[q]
       /\ answer'[q] \in {answer[q], stored}
    \/ Moves(q, "lookup", "reserve") /\ KeepsOrder(q) /\ KeepsAnswer(q)
    \/ Moves(q, "reserve", "commit") /\ KeepsOrder(q) /\ KeepsAnswer(q)
       /\ remembered'[q].reserve = "ok"
    \/ Responds(q, "reserve", "refused") /\ KeepsOrder(q) /\ remembered'[q].reserve = "refused"
    \/ Responds(q, "reserve", "unavailable") /\ KeepsOrder(q)
    \/ Responds(q, "release", "failed") /\ KeepsOrder(q)
       /\ (remembered'[q].release # None \/ q \in unreleased')
    \/ Moves(q, "commit", "session") /\ order'[q] = "open" /\ KeepsAnswer(q)
    \/ Moves(q, "commit", "release") /\ KeepsOrder(q) /\ KeepsAnswer(q)
    \/ Responds(q, "session", q) /\ KeepsOrder(q)
    \/ Moves(q, "session", "void") /\ KeepsOrder(q) /\ KeepsAnswer(q)
    \/ Moves(q, "void", "release") /\ order'[q] \in {order[q], "void"} /\ KeepsAnswer(q)
    \/ at[q] \notin {"unsent", "done", "dead"} /\ at'[q] = "dead"
       /\ KeepsOrder(q) /\ KeepsAnswer(q)

LEMMA RunStepIsTaken ==
    ASSUME TypeOK, [Next]_vars, NEW q \in Runs
    PROVE  RunStep(q)
<1> USE DEF RunStep, Moves, KeepsOrder, KeepsAnswer, Responds
<1>a. ASSUME UNCHANGED <<at, order, answer, storing>> PROVE RunStep(q)
    BY <1>a
<1>1. ASSUME NEW r \in Runs, Send(r) PROVE RunStep(q)
    BY <1>1 DEF Send, Goto, redisVars, TypeOK
<1>2. ASSUME NEW r \in Runs, Lookup(r) PROVE RunStep(q)
    BY <1>2 DEF Lookup, Goto, redisVars, TypeOK
<1>3. ASSUME NEW r \in Runs, LookupFails(r) PROVE RunStep(q)
    BY <1>3 DEF LookupFails, Goto, redisVars, TypeOK
<1>4. ASSUME NEW r \in Runs, CallAnswered(r) PROVE RunStep(q)
    <2>1. CASE q # r
        BY <1>4, <2>1 DEF CallAnswered, Respond, Stores, Goto, redisVars, TypeOK
    <2>2. CASE q = r /\ at[r] = "release"
        <3>1. Responds(q, "release", "failed") /\ KeepsOrder(q)
            BY <1>4, <2>2 DEF CallAnswered, Respond, Stores, Goto, TypeOK
        <3>2. remembered'[q].release # None
            <4>1. Serve(q, "release") /\ "release" \in Paths
                BY <1>4, <2>2 DEF CallAnswered, Paths
            <4>2. CASE remembered[q].release # None
                BY <4>1, <4>2 DEF Serve
            <4>3. CASE remembered[q].release = None
                BY <4>1, <4>3 DEF Serve, Apply, TypeOK, None
            <4> QED BY <4>2, <4>3
        <3> QED BY <3>1, <3>2
    <2>3. CASE q = r /\ at[r] = "reserve"
        BY <1>4, <2>3 DEF CallAnswered, Respond, Stores, Goto, redisVars, TypeOK
    <2> QED BY <1>4, <2>1, <2>2, <2>3 DEF CallAnswered, Paths
<1>5. ASSUME NEW r \in Runs, Retry(r) PROVE RunStep(q)
    BY <1>5, <1>a DEF Retry, redisVars
<1>6. ASSUME NEW r \in Runs, GiveUp(r) PROVE RunStep(q)
    <2>1. CASE q # r
        BY <1>6, <2>1 DEF GiveUp, Respond, Stores, Goto, TypeOK
    <2>2. CASE q = r
        BY <1>6, <2>2 DEF GiveUp, Respond, Stores, Goto, TypeOK
    <2> QED BY <2>1, <2>2
<1>7. ASSUME NEW r \in Runs, Commit(r) \/ CommitFails(r) PROVE RunStep(q)
    BY <1>7 DEF Commit, CommitFails, Goto, redisVars, TypeOK
<1>8. ASSUME NEW r \in Runs, Created(r) PROVE RunStep(q)
    BY <1>8 DEF Created, Respond, Stores, Goto, TypeOK
<1>9. ASSUME NEW r \in Runs, SessionFails(r) PROVE RunStep(q)
    BY <1>9 DEF SessionFails, Goto, redisVars, TypeOK
<1>10. ASSUME NEW r \in Runs, VoidOrderSafe(r) \/ VoidFails(r) PROVE RunStep(q)
    BY <1>10 DEF VoidOrderSafe, VoidFails, Goto, redisVars, TypeOK
<1>11. ASSUME NEW r \in Runs, SetLands(r) \/ SetFails(r) PROVE RunStep(q)
    BY <1>11 DEF SetLands, SetFails, TypeOK
<1>12. ASSUME NEW r \in Runs, Die(r) PROVE RunStep(q)
    BY <1>12 DEF Die, Goto, redisVars, TypeOK
<1>13. ASSUME NEW r \in Runs, NEW p \in Paths, ServeLate(r, p) PROVE RunStep(q)
    BY <1>13, <1>a DEF ServeLate, redisVars
<1>14. ASSUME StoredExpires \/ UNCHANGED vars PROVE RunStep(q)
    BY <1>14, <1>a DEF StoredExpires, vars, redisVars
<1> QED
    BY <1>1, <1>2, <1>3, <1>4, <1>5, <1>6, <1>7, <1>8, <1>9, <1>10, <1>11, <1>12, <1>13, <1>14
    DEF Next, Handler, CallCore

LEMMA StoredStep ==
    ASSUME [Next]_vars
    PROVE  /\ stored' \in {stored, None} \/ \E r \in Runs : stored' = storing[r]
           /\ unreleased \subseteq unreleased'
BY DEF Next, Handler, CallCore, Send, Lookup, LookupFails, CallAnswered, Retry, GiveUp, Commit,
       CommitFails, Created, SessionFails, VoidOrderSafe, VoidFails, SetLands, SetFails, Die,
       ServeLate, StoredExpires, Respond, redisVars, vars

LEMMA ShapeKept ==
    ASSUME TypeOK, StockAddsUp, HeldAsAsked, RunShape, [Next]_vars
    PROVE  RunShape'
<1> SUFFICES ASSUME NEW r \in Runs
             PROVE  /\ at'[r] \in {"unsent", "lookup"} => NeverCalled(r)'
                    /\ at'[r] \in {"unsent", "lookup", "reserve", "commit", "session", "void"}
                         => remembered'[r].release = None /\ <<r, "release">> \notin late'
                    /\ at'[r] \in {"commit", "session", "void", "release"}
                         => remembered'[r].reserve = "ok"
                    /\ at'[r] # "done" => answer'[r] = None /\ storing'[r] = None
    BY DEF RunShape
<1>1. /\ at[r] \in {"unsent", "lookup"} => NeverCalled(r)
      /\ at[r] \in {"unsent", "lookup", "reserve", "commit", "session", "void"}
           => remembered[r].release = None /\ <<r, "release">> \notin late
      /\ at[r] \in {"commit", "session", "void", "release"} => remembered[r].reserve = "ok"
      /\ at[r] # "done" => answer[r] = None /\ storing[r] = None
    BY DEF RunShape
<1>2. /\ remembered[r].reserve # None => remembered'[r].reserve = remembered[r].reserve
      /\ at[r] # "reserve" /\ <<r, "reserve">> \notin late
           => remembered'[r].reserve = remembered[r].reserve /\ <<r, "reserve">> \notin late'
      /\ at[r] # "release" /\ <<r, "release">> \notin late
           => remembered'[r].release = remembered[r].release /\ <<r, "release">> \notin late'
    BY CoreStep DEF Paths
<1>3. RunStep(r)
    BY RunStepIsTaken
<1>4. None # "ok"
    BY DEF None
<1> QED
    BY <1>1, <1>2, <1>3, <1>4
    DEF RunStep, Moves, KeepsOrder, KeepsAnswer, Responds, NeverCalled

LEMMA BodiesKept ==
    ASSUME TypeOK, StockAddsUp, HeldAsAsked, RunShape, BodiesAreTrue, [Next]_vars
    PROVE  BodiesAreTrue'
<1>a. \A r \in Runs : r \notin {None, "refused", "unavailable", "failed"}
    BY RequestsAssumption DEF None
<1>b. None \notin {"ok", "refused", "unavailable", "failed"}
    BY DEF None
<1>1. \A r \in Runs : RunStep(r)
    BY RunStepIsTaken
<1>2. \A r \in Runs :
        /\ remembered[r].reserve # None => remembered'[r].reserve = remembered[r].reserve
        /\ remembered[r].release # None => remembered'[r].release = remembered[r].release
        /\ at[r] # "reserve" /\ <<r, "reserve">> \notin late
             => remembered'[r].reserve = remembered[r].reserve /\ <<r, "reserve">> \notin late'
        /\ at[r] # "release" /\ <<r, "release">> \notin late
             => remembered'[r].release = remembered[r].release /\ <<r, "release">> \notin late'
    BY CoreStep DEF Paths
<1>3. ASSUME NEW r \in Runs, Announced(r) PROVE Announced(r)'
    <2>1. at'[r] = "done"
        BY <1>1, <1>3 DEF RunStep, Moves, Responds, Announced
    <2> QED BY <1>2, <1>3, <1>b, <2>1 DEF Announced
<1>4. ASSUME NEW r \in Runs, at[r] # "reserve", NeverCalled(r) PROVE NeverCalled(r)'
    BY <1>2, <1>4 DEF NeverCalled
<1>5. ASSUME NEW r \in Runs, stored' = r PROVE Announced(r)'
    <2>1. stored = r \/ \E q \in Runs : storing[q] = r
        BY <1>5, <1>a, StoredStep
    <2> QED BY <1>3, <2>1 DEF BodiesAreTrue
<1>6. ASSUME NEW r \in Runs, NEW q \in Runs, answer'[q] = r \/ storing'[q] = r
      PROVE  Announced(r)'
    <2>1. CASE answer[q] = r \/ storing[q] = r \/ stored = r
        BY <1>3, <2>1 DEF BodiesAreTrue
    <2>2. CASE ~(answer[q] = r \/ storing[q] = r \/ stored = r)
        <3>1. Responds(q, "session", q) /\ q = r
            BY <1>1, <1>6, <1>a, <2>2 DEF RunStep, KeepsAnswer, Responds
        <3>2. /\ remembered[r].reserve = "ok" /\ remembered[r].release = None
              /\ <<r, "release">> \notin late /\ at[r] = "session" /\ at'[r] = "done"
            BY <3>1 DEF RunShape, Responds, Moves
        <3> QED BY <1>2, <1>b, <3>2 DEF Announced
    <2> QED BY <2>1, <2>2
<1>7. ASSUME NEW r \in Runs, answer'[r] = "refused", order'[r] = None
      PROVE  NeverCalled(r)' \/ remembered'[r].reserve = "refused"
    <2>1. CASE answer[r] = "refused" /\ order[r] = None
        <3>1. at[r] = "done"
            BY <1>b, <2>1 DEF RunShape
        <3> QED BY <1>2, <1>4, <1>b, <2>1, <3>1 DEF BodiesAreTrue
    <2>2. CASE at[r] = "lookup"
        BY <1>4, <2>2 DEF RunShape
    <2>3. CASE Responds(r, "reserve", "refused") /\ remembered'[r].reserve = "refused"
        BY <2>3
    <2> QED
        BY <1>1, <1>7, <1>a, <1>b, <2>1, <2>2, <2>3
        DEF RunStep, KeepsAnswer, KeepsOrder, Responds, RunShape, Moves
<1>8. ASSUME NEW r \in Runs, answer'[r] = "failed"
      PROVE  NeverCalled(r)' \/ remembered'[r].release = "ok" \/ r \in unreleased'
    <2>1. CASE answer[r] = "failed"
        <3>1. at[r] = "done"
            BY <1>b, <2>1 DEF RunShape
        <3> QED BY <1>2, <1>4, <1>b, <2>1, <3>1, StoredStep DEF BodiesAreTrue
    <2>2. CASE at[r] = "lookup"
        BY <1>4, <2>2 DEF RunShape
    <2>3. CASE remembered'[r].release # None \/ r \in unreleased'
        BY <2>3, CoreStep DEF HeldAsAsked
    <2> QED
        BY <1>1, <1>8, <1>a, <1>b, <2>1, <2>2, <2>3
        DEF RunStep, KeepsAnswer, Responds, Moves
<1> QED BY <1>5, <1>6, <1>7, <1>8 DEF BodiesAreTrue

-----------------------------------------------------------------------------
(* Stock and answer agree.                                                 *)
LEMMA StockFollows ==
    ASSUME TypeOK, StockAddsUp, HeldAsAsked, RunShape, BodiesAreTrue
    PROVE  StockMatchesAnswer
<1> SUFFICES ASSUME NEW r \in Runs, at[r] = "done", r \notin unreleased
             PROVE  /\ order[r] = "open" /\ answer[r] = r => held[r] = 1
                    /\ answer[r] = "refused" /\ order[r] = None => held[r] = 0
                    /\ answer[r] = "failed" /\ remembered[r].reserve = "ok" => held[r] = 0
    BY DEF StockMatchesAnswer
<1>1. held[r] \in {0, 1} /\ None # "ok"
    BY DEF StockAddsUp, None
<1>2. answer[r] = r => held[r] = 1
    BY DEF BodiesAreTrue, Announced, HeldAsAsked
<1>3. answer[r] = "refused" /\ order[r] = None => held[r] # 1
    BY <1>1 DEF BodiesAreTrue, NeverCalled, HeldAsAsked
<1>4. answer[r] = "failed" /\ remembered[r].reserve = "ok" => held[r] # 1
    BY <1>1 DEF BodiesAreTrue, NeverCalled, HeldAsAsked
<1> QED BY <1>1, <1>2, <1>3, <1>4

-----------------------------------------------------------------------------
(* The stored response.                                                    *)

(* Most steps start no run's handler, end no process, and lose nothing     *)
(* that was stored.                                                        *)
Covers ==
    /\ exposed' = exposed /\ stored' = stored
    /\ \A q \in Runs : /\ ~Moves(q, "lookup", "reserve")
                       /\ at'[q] = "dead" => at[q] = "dead"
                       /\ storing'[q] = None => storing[q] = None

LEMMA CoversOrNot ==
    ASSUME TypeOK, [Next]_vars
    PROVE  \/ \E r \in Runs : Lookup(r) \/ SetLands(r) \/ SetFails(r) \/ Die(r)
           \/ StoredExpires
           \/ Covers
<1> USE DEF Covers, Moves
<1>a. ASSUME NEW r \in Runs, NEW from, NEW to, Goto(r, from, to),
             to # "dead", to # "reserve",
             exposed' = exposed, UNCHANGED redisVars
      PROVE  Covers
    BY <1>a DEF Goto, redisVars, TypeOK
<1>b. ASSUME NEW r \in Runs, NEW from, NEW body \in Bodies, Respond(r, from, body),
             exposed' = exposed
      PROVE  Covers
    <2>1. body # None
        BY RequestsAssumption DEF Bodies, None
    <2> QED BY <1>b, <2>1 DEF Respond, Stores, Goto, TypeOK
<1>1. ASSUME NEW r \in Runs, Send(r) \/ LookupFails(r) \/ Commit(r) \/ CommitFails(r)
                             \/ SessionFails(r) \/ VoidOrderSafe(r) \/ VoidFails(r)
      PROVE  Covers
    BY <1>a, <1>1 DEF Send, LookupFails, Commit, CommitFails, SessionFails, VoidOrderSafe, VoidFails
<1>2. ASSUME NEW r \in Runs, CallAnswered(r) PROVE Covers
    <2>1. /\ exposed' = exposed
          /\ \/ Respond(r, "release", "failed")
             \/ Goto(r, "reserve", "commit") /\ UNCHANGED redisVars
             \/ Respond(r, "reserve", "refused")
        BY <1>2 DEF CallAnswered, redisVars
    <2> QED BY <1>a, <1>b, <2>1 DEF Bodies
<1>3. ASSUME NEW r \in Runs, GiveUp(r) \/ Created(r) PROVE Covers
    BY <1>b, <1>3 DEF GiveUp, Created, Bodies
<1>4. ASSUME UNCHANGED <<at, redisVars, exposed>> PROVE Covers
    BY <1>4 DEF redisVars
<1> QED
    BY <1>1, <1>2, <1>3, <1>4 DEF Next, Handler, CallCore, Retry, ServeLate, vars

(* A step that changes neither the stored response nor which runs are      *)
(* open keeps Covered ...                                                  *)
Quiet ==
    /\ stored' = stored
    /\ \A q \in Runs :
          /\ Open(q)' => Open(q)
          /\ Open(q) => Open(q)'
          /\ order'[q] # None => order[q] # None \/ Open(q)
          /\ storing'[q] # None => answer'[q] = storing'[q]
          /\ answer'[q] # None => answer'[q] = storing'[q] \/ answer'[q] = stored

LEMMA QuietKeepsCovered == ASSUME Covered, Quiet PROVE Covered'
<1>1. \A q, r \in Runs : Open(q)' /\ Open(r)' => q = r
    BY DEF Covered, Quiet
<1>2. stored' # None => \A r \in Runs : ~Open(r)'
    BY DEF Covered, Quiet
<1>3. \A r \in Runs : order'[r] # None => Open(r)' \/ stored' # None
    BY DEF Covered, Quiet
<1>4. \A q, r \in Runs : order'[q] # None /\ order'[r] # None => q = r
    BY DEF Covered, Quiet
<1> QED BY <1>1, <1>2, <1>3, <1>4 DEF Covered, Quiet

(* ... and so do a miss while nothing is open, and the SET that lands.     *)
LEMMA CoverKept ==
    ASSUME TypeOK, RunShape, ~exposed => Covered, [Next]_vars, ~exposed'
    PROVE  Covered'
<1> DEFINE Hits(r) == /\ stored' = stored /\ stored # None /\ Moves(r, "lookup", "done")
                      /\ answer' = [answer EXCEPT ![r] = stored]
                      /\ \A q \in Runs \ {r} : at'[q] = at[q]
                      /\ UNCHANGED <<order, storing>>
           Misses(r) == /\ UNCHANGED <<order, storing, answer, stored>> /\ stored = None
                        /\ \A q \in Runs \ {r} : at'[q] = at[q]
                        /\ \A q \in Runs : ~Open(q)
           Dies(r) == /\ UNCHANGED <<order, storing, answer, stored>> /\ ~Open(r)
                      /\ at[r] = "lookup" /\ at'[r] = "dead"
                      /\ \A q \in Runs \ {r} : at'[q] = at[q]
<1>1. ASSUME NEW r \in Runs, Lookup(r) PROVE ~exposed /\ (Hits(r) \/ Misses(r))
    <2>1. ~exposed /\ (stored # None \/ \A q \in Runs : ~Open(q))
        <3>1. CASE stored # None
            <4>1. exposed' = exposed
                BY <1>1, <3>1 DEF Lookup
            <4> QED BY <3>1, <4>1
        <3>2. CASE stored = None
            <4>1. exposed' = (exposed \/ \E other \in Runs : Open(other))
                BY <1>1, <3>2, Zenon DEF Lookup
            <4> QED BY <4>1, Zenon
        <3> QED BY <3>1, <3>2
    <2>2. CASE stored # None
        BY <1>1, <2>1, <2>2 DEF Lookup, Goto, Moves, redisVars, TypeOK
    <2>3. CASE stored = None
        BY <1>1, <2>1, <2>3 DEF Lookup, Goto, redisVars, TypeOK
    <2> QED BY <2>2, <2>3, <2>1
<1>2. ASSUME NEW r \in Runs, Die(r) PROVE ~exposed /\ Dies(r)
    <2>1. ~exposed /\ ~Open(r)
        BY <1>2, Zenon DEF Die
    <2> QED BY <1>2, <2>1 DEF Die, Goto, Open, redisVars, TypeOK
<1>3. ASSUME NEW r \in Runs, SetFails(r) PROVE FALSE
    BY <1>3, Zenon DEF SetFails
<1>4. ~StoredExpires
    BY Zenon DEF StoredExpires
<1>5. ASSUME NEW r \in Runs, SetLands(r) PROVE ~exposed
    BY <1>5 DEF SetLands
<1>6. Covers => ~exposed
    BY DEF Covers
<1>7. Covered
    BY <1>1, <1>2, <1>3, <1>4, <1>5, <1>6, CoversOrNot
<1>8. ASSUME NEW r \in Runs, Misses(r) PROVE Covered'
    <2>1. \A q \in Runs : order[q] = None /\ storing[q] = None /\ answer[q] = None
        BY <1>7, <1>8 DEF Covered, Open
    <2>2. \A q \in Runs : Open(q)' => q = r
        BY <1>8 DEF Open
    <2> QED BY <1>8, <2>1, <2>2 DEF Covered
<1>9. ASSUME NEW r \in Runs, SetLands(r) PROVE Covered'
    <2>1. Open(r) /\ stored' = storing[r] /\ storing[r] # None /\ answer[r] = storing[r]
        BY <1>7, <1>9 DEF SetLands, Open, Covered
    <2>2. stored = None /\ \A q \in Runs \ {r} : ~Open(q)
        BY <1>7, <2>1 DEF Covered
    <2>3. /\ UNCHANGED <<at, order, answer>> /\ storing'[r] = None
          /\ \A q \in Runs \ {r} : storing'[q] = storing[q]
        BY <1>9 DEF SetLands, TypeOK
    <2>4. at[r] = "done"
        BY <2>1 DEF RunShape
    <2>5. \A q \in Runs : ~Open(q)'
        BY <2>2, <2>3, <2>4 DEF Open
    <2>6. \A q \in Runs \ {r} : order[q] = None /\ storing[q] = None /\ answer[q] = None
        BY <1>7, <2>2 DEF Covered, Open
    <2> QED BY <2>1, <2>3, <2>5, <2>6 DEF Covered
<1>10. ASSUME NEW r \in Runs, Hits(r) PROVE Quiet
    <2>1. \A q \in Runs : answer'[q] = answer[q] \/ (q = r /\ answer'[q] = stored)
        BY <1>10 DEF TypeOK
    <2>2. ~Open(r) /\ storing[r] = None
        BY <1>7, <1>10 DEF Covered, Open
    <2>3. \A q \in Runs : (Open(q)' => Open(q)) /\ (Open(q) => Open(q)')
        BY <1>10, <2>2 DEF Open, Moves
    <2> QED BY <1>7, <1>10, <2>1, <2>2, <2>3 DEF Quiet, Covered
<1>11. ASSUME NEW r \in Runs, Dies(r) PROVE Quiet
    <2>1. \A q \in Runs : (Open(q)' => Open(q)) /\ (Open(q) => Open(q)')
        BY <1>11 DEF Open
    <2> QED BY <1>7, <1>11, <2>1 DEF Quiet, Covered
<1>12. ASSUME Covers PROVE Quiet
    <2> SUFFICES ASSUME NEW q \in Runs
                 PROVE  /\ Open(q)' => Open(q)
                        /\ Open(q) => Open(q)'
                        /\ order'[q] # None => order[q] # None \/ Open(q)
                        /\ storing'[q] # None => answer'[q] = storing'[q]
                        /\ answer'[q] # None => answer'[q] = storing'[q] \/ answer'[q] = stored
        BY <1>12 DEF Covers, Quiet
    <2>1. RunStep(q)
        BY RunStepIsTaken
    <2>2. /\ ~Moves(q, "lookup", "reserve") /\ (at'[q] = "dead" => at[q] = "dead")
          /\ storing'[q] = None => storing[q] = None
        BY <1>12 DEF Covers
    <2>3. /\ storing[q] # None => answer[q] = storing[q]
          /\ answer[q] # None => answer[q] = storing[q] \/ answer[q] = stored
          /\ at[q] # "done" => answer[q] = None /\ storing[q] = None
        BY <1>7 DEF Covered, RunShape
    <2>4. Open(q)' => Open(q)
        BY <2>1, <2>2 DEF RunStep, Moves, KeepsAnswer, Responds, Open
    <2>5. Open(q) => Open(q)'
        <3>1. None \notin {"refused", "unavailable", "failed", q}
            BY RequestsAssumption DEF None
        <3> QED BY <2>1, <2>2, <2>3, <3>1 DEF RunStep, Moves, KeepsAnswer, Responds, Open
    <2>6. order'[q] # None => order[q] # None \/ Open(q)
        BY <2>1 DEF RunStep, Moves, KeepsOrder, Responds, Open
    <2>7. /\ storing'[q] # None => answer'[q] = storing'[q]
          /\ answer'[q] # None => answer'[q] = storing'[q] \/ answer'[q] = stored
        BY <2>1, <2>2, <2>3 DEF RunStep, Moves, KeepsAnswer, Responds
    <2> QED BY <2>4, <2>5, <2>6, <2>7
<1> QED
    BY <1>1, <1>2, <1>3, <1>4, <1>7, <1>8, <1>9, <1>10, <1>11, <1>12, CoversOrNot, QuietKeepsCovered

LEMMA CoverFollows == ASSUME RunShape, ~exposed => Covered PROVE OneOrderOneAnswer
<1> SUFFICES ASSUME Covered PROVE OneOrderOneAnswer
    BY DEF OneOrderOneAnswer
<1>1. ASSUME NEW q \in Runs, NEW r \in Runs, order[q] = "open", order[r] = "open" PROVE q = r
    BY <1>1 DEF Covered, None
<1>2. ASSUME NEW q \in Runs, NEW r \in Runs, answer[q] # None, answer[r] # None
      PROVE  answer[q] = answer[r]
    <2>1. \A s \in Runs : storing[s] # None => Open(s)
        BY DEF Open
    <2>2. (answer[q] = storing[q] \/ answer[q] = stored) /\ (answer[r] = storing[r] \/ answer[r] = stored)
        BY <1>2 DEF Covered
    <2> QED BY <1>2, <2>1, <2>2 DEF Covered
<1> QED BY <1>1, <1>2 DEF OneOrderOneAnswer

-----------------------------------------------------------------------------
LEMMA InitIInv == Init => IInv
<1> SUFFICES ASSUME Init PROVE IInv
    OBVIOUS
<1> USE RequestsAssumption
<1>1. TypeOK
    <2>1. exposed \in BOOLEAN
        BY Zenon DEF Init
    <2>2. remembered \in [Runs -> [Paths -> {None, "ok", "refused"}]]
        BY DEF Init
    <2> QED BY <2>1, <2>2 DEF Init, TypeOK, Steps, Attempts
<1>2. StockAddsUp
    <2>1. Holders = {} /\ \A r \in Runs : held[r] = 0
        BY DEF Init, Holders
    <2> QED BY <2>1, FS_EmptySet DEF Init, StockAddsUp
<1>3. \A r \in Runs : /\ remembered[r].reserve = None /\ remembered[r].release = None
                      /\ at[r] = "unsent" /\ answer[r] = None /\ storing[r] = None
                      /\ order[r] = None /\ held[r] = 0
    BY DEF Init, Paths
<1>4. late = {} /\ stored = None
    BY DEF Init
<1>5. HeldAsAsked /\ RunShape
    BY <1>3, <1>4 DEF HeldAsAsked, RunShape, NeverCalled, None
<1>6. BodiesAreTrue
    BY <1>3, <1>4 DEF BodiesAreTrue, None
<1>7. Covered
    BY <1>3, <1>4 DEF Covered, Open
<1> QED BY <1>1, <1>2, <1>5, <1>6, <1>7 DEF IInv

LEMMA NextIInv == IInv /\ [Next]_vars => IInv'
<1> SUFFICES ASSUME IInv, [Next]_vars PROVE IInv'
    OBVIOUS
<1>1. TypeOK /\ StockAddsUp /\ HeldAsAsked /\ RunShape /\ BodiesAreTrue /\ (~exposed => Covered)
    BY DEF IInv
<1>2. TypeOK' /\ StockAddsUp' /\ HeldAsAsked'
    BY <1>1, TypeStep, CoreStep
<1>3. RunShape' /\ BodiesAreTrue'
    BY <1>1, ShapeKept, BodiesKept
<1>4. ~exposed' => Covered'
    BY <1>1, CoverKept
<1> QED BY <1>2, <1>3, <1>4 DEF IInv

(* Whatever the interleaving, the runs, the stored response and core's     *)
(* books belong together.                                                  *)
THEOREM Invariant == Spec => []IInv
BY InitIInv, NextIInv, PTL DEF Spec

(* Every reachable state is well typed: no call to core has a fourth       *)
(* attempt, and the units left and held stay within the stock.             *)
THEOREM TypeCorrect == Spec => []TypeOK
<1>1. IInv => TypeOK
    BY DEF IInv
<1> QED BY <1>1, Invariant, PTL

(* For any number of repetitions: while the stored response covers them,   *)
(* they make one live order at most and are answered alike.                *)
THEOREM AlwaysOneOrderOneAnswer == Spec => []OneOrderOneAnswer
<1>1. IInv => OneOrderOneAnswer
    BY CoverFollows DEF IInv
<1> QED BY <1>1, Invariant, PTL

(* For any stock and any number of runs, whatever core hears late, twice   *)
(* or not at all: what it holds for a run agrees with the run's answer.    *)
THEOREM StockAlwaysMatches == Spec => []StockMatchesAnswer
<1>1. IInv => StockMatchesAnswer
    BY StockFollows DEF IInv
<1> QED BY <1>1, Invariant, PTL
=============================================================================
