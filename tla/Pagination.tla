----------------------------- MODULE Pagination -----------------------------
(***************************************************************************)
(* A client walks through a list of orders, page by page: the keyset       *)
(* cursor of cursor-pagination.ts over the finders of order.repo.ts, and   *)
(* the lists of OrderService, which read one cluster or merge the hot and  *)
(* the archive cluster.  Between two pages orders are placed and paid and  *)
(* the archiver moves rows.                                                *)
(*                                                                         *)
(* created_at is a TIMESTAMP, in microseconds; the cursor is formatted     *)
(* from a JavaScript Date, in milliseconds.  PerMs is the number of ticks  *)
(* of created_at in a millisecond.                                         *)
(***************************************************************************)
EXTENDS Naturals, FiniteSets, Sequences, SequencesExt

CONSTANTS
    Ids,        \* bigserial ids of orders, all of one restaurant's branch
    Initially,  \* ids of the orders there may be when the walk begins
    PerMs,      \* ticks of created_at in a millisecond
    MaxTime,    \* bound on created_at
    YearStart,  \* the first tick of this year
    Limits      \* page sizes asked for

ASSUME PaginationAssumption ==
    /\ Ids \subseteq Nat \ {0}
    /\ Initially \subseteq Ids /\ IsFiniteSet(Initially)
    /\ PerMs \in Nat \ {0} /\ MaxTime \in Nat
    /\ YearStart \in 0..MaxTime /\ YearStart % PerMs = 0
    /\ Limits \subseteq Nat \ {0}

VARIABLES
    walk,     \* what the client asks for, the same for every page
    rows,     \* the orders, in both clusters
    cursor,   \* the nextCursor the client holds
    page,     \* the last page it got
    ended,    \* that page had no nextCursor
    times,    \* history: how often each order was returned, up to twice
    always,   \* history: orders listed since the walk began
    edges     \* history: milliseconds of the orders that ended a page

walkVars == <<walk, rows, cursor, page, ended, times, always, edges>>

Times == 0..MaxTime
ListedOrder == [id : Ids, t : Times, home : {"hot", "archive"}, pending : BOOLEAN]
NoCursor == [t |-> 0, id |-> 0]
Ms(t) == t \div PerMs

(* The lists: a branch's orders of the hot cluster, of the archive or, for *)
(* a range that straddles the year's start, of both; a customer's orders   *)
(* of this year; and the export of this year for analytics.  exact: every  *)
(* created_at is a whole millisecond.                                      *)
Walks == [order : {"asc", "desc"},
          source : {"hot", "archive", "across", "customer", "export"},
          limit : Limits, exact : BOOLEAN]

(* A year is read from one cluster: this year from the hot one.  A past    *)
(* year is read from the archive, as the source "archive" is.              *)
YearCluster == "hot"
ThisYear(R) == {r \in R : r.home = YearCluster /\ r.t >= YearStart}

FindOrdersByCustomer(R) == ThisYear(R)

(* The export leaves out the orders that were never placed. *)
FindOrdersForBackfill(R) == {r \in ThisYear(R) : ~r.pending}

(* The orders of a branch; the straddling range asks the hot cluster for   *)
(* this year only.                                                         *)
BranchOrders(w, R) ==
    {r \in R : \/ w.source = r.home
               \/ w.source = "across" /\ (r.home = "hot" <=> r.t >= YearStart)}

Listed(w, R, home) ==
    {r \in CASE w.source = "customer" -> FindOrdersByCustomer(R)
             [] w.source = "export" -> FindOrdersForBackfill(R)
             [] OTHER -> BranchOrders(w, R) : r.home = home}

ListedIds(w, R) == {r.id : r \in Listed(w, R, "hot") \cup Listed(w, R, "archive")}

Allowed(w, t) == w.exact => t % PerMs = 0

(* Only the export asks whether an order is pending. *)
Pending(w) == IF w.source = "export" THEN BOOLEAN ELSE {FALSE}

WalkInit ==
    /\ walk \in Walks
    /\ \E there \in SUBSET Initially :
         \E t \in [there -> {u \in Times : Allowed(walk, u)}] :
           \E old \in SUBSET {i \in there : t[i] < YearStart}, unpaid \in [there -> Pending(walk)] :
             rows = {[id |-> i, t |-> t[i], home |-> IF i \in old THEN "archive" ELSE "hot",
                      pending |-> unpaid[i]] : i \in there}
    /\ cursor = NoCursor /\ page = <<>> /\ ended = FALSE
    /\ times = [i \in Ids |-> 0]
    /\ always = ListedIds(walk, rows)
    /\ edges = {}

-----------------------------------------------------------------------------
(* One page.                                                               *)

(* The order of the rows: created_at, then id, both in the walk's order.   *)
Precedes(a, b) ==
    LET less(x, y) == x.t < y.t \/ (x.t = y.t /\ x.id < y.id)
    IN  IF walk.order = "asc" THEN less(a, b) ELSE less(b, a)

(* Mutants of After: the tie-breaker is left out; the row of the cursor is *)
(* not.                                                                    *)
AfterTimeOnly(r) ==
    cursor = NoCursor \/ (IF walk.order = "asc" THEN r.t > cursor.t ELSE r.t < cursor.t)
AfterOrAt(r) == cursor = NoCursor \/ Precedes(cursor, r) \/ (r.t = cursor.t /\ r.id = cursor.id)

(* applyCursorPagination: the rows behind the cursor. *)
After(r) == cursor = NoCursor \/ Precedes(cursor, r)

(* limit + 1: the row that tells whether there is more. *)
Extra == 1

(* ORDER BY created_at, id. *)
Sorted(S) == CHOOSE s \in SetToSeqs(S) : \A m, n \in DOMAIN s : m < n => Precedes(s[m], s[n])

QueryRows(home) ==
    LET sorted == Sorted({r \in Listed(walk, rows, home) : After(r)})
    IN  SubSeq(sorted, 1, IF Len(sorted) > walk.limit + Extra THEN walk.limit + Extra ELSE Len(sorted))

(* Mutant of CursorOf: the digits of created_at are kept. *)
CursorInFull(r) == [t |-> r.t, id |-> r.id]

(* The cursor of a row: its created_at cut to milliseconds, and its id.    *)
CursorOf(r) == [t |-> Ms(r.t) * PerMs, id |-> r.id]

(* buildPaginationResult. *)
BuildPaginationResult(found) ==
    LET hasMore == Len(found) > walk.limit
        data == IF hasMore THEN SubSeq(found, 1, walk.limit) ELSE found
    IN  [data |-> data,
         nextCursor |-> IF hasMore THEN CursorOf(Last(data)) ELSE NoCursor]

(* Mutant of Merge: the clusters' pages are put together unsorted. *)
MergeUnsorted(hot, archive) == hot \o archive

(* The pages of the two clusters, sorted by createdAt: the archive's       *)
(* orders are of earlier years.                                            *)
Merge(hot, archive) == IF walk.order = "asc" THEN archive \o hot ELSE hot \o archive

(* A range across the clusters is paginated twice: in each of them, and    *)
(* over what is left of their pages.                                       *)
Result ==
    IF walk.source = "across"
    THEN BuildPaginationResult(Merge(BuildPaginationResult(QueryRows("hot")).data,
                                     BuildPaginationResult(QueryRows("archive")).data))
    ELSE BuildPaginationResult(QueryRows(IF walk.source = "archive" THEN "archive" ELSE YearCluster))

FetchPage ==
    /\ ~ended
    /\ \E result \in {Result} : page' = result.data /\ cursor' = result.nextCursor
    /\ ended' = (cursor' = NoCursor)
    /\ times' = [i \in Ids |->
                   IF times[i] < 2 /\ \E r \in Range(page') : r.id = i
                   THEN times[i] + 1 ELSE times[i]]
    /\ edges' = IF ended' THEN edges ELSE edges \cup {Ms(Last(page').t)}
    /\ UNCHANGED <<walk, rows, always>>

-----------------------------------------------------------------------------
(* Other requests.                                                         *)

(* An order becomes visible, with the created_at of the start of its       *)
(* transaction and an id from the sequence: either may be behind others'.  *)
PlaceOrder(i, t) ==
    /\ \A r \in rows : r.id # i
    /\ Allowed(walk, t)
    /\ \E unpaid \in Pending(walk) :
          rows' = rows \cup {[id |-> i, t |-> t, home |-> "hot", pending |-> unpaid]}
    /\ UNCHANGED <<walk, cursor, page, ended, times, always, edges>>

(* The payment of an order is settled: the export lists it from now on,    *)
(* wherever its created_at lies.                                           *)
LeavePendingPayment(r) ==
    /\ r \in rows /\ r.home = "hot" /\ r.pending
    /\ rows' = (rows \ {r}) \cup {[r EXCEPT !.pending = FALSE]}
    /\ UNCHANGED <<walk, cursor, page, ended, times, always, edges>>

(* The archiver has moved an order of an earlier year. *)
MoveToArchive(r) ==
    /\ r \in rows /\ r.home = "hot" /\ r.t < YearStart
    /\ rows' = (rows \ {r}) \cup {[r EXCEPT !.home = "archive"]}
    /\ always' = IF walk.source = "hot" THEN always \ {r.id} ELSE always
    /\ UNCHANGED <<walk, cursor, page, ended, times, edges>>

WalkNext ==
    \/ FetchPage
    \/ \E i \in Ids, t \in Times : PlaceOrder(i, t)
    \/ \E r \in rows : MoveToArchive(r) \/ LeavePendingPayment(r)

WalkSpec == WalkInit /\ [][WalkNext]_walkVars

(* The client asks for the next page as long as there is one. *)
FairWalk == WalkSpec /\ WF_walkVars(FetchPage)

-----------------------------------------------------------------------------
(* Properties                                                              *)

(* A cursor is a whole millisecond. *)
WalkTypeOK ==
    /\ walk \in Walks
    /\ rows \subseteq ListedOrder
    /\ cursor \in [t : {t \in Times : t % PerMs = 0}, id : Ids \cup {0}]
    /\ page \in Seq(ListedOrder) /\ Len(page) <= walk.limit
    /\ ended \in BOOLEAN
    /\ times \in [Ids -> 0..2]
    /\ always \subseteq Ids
    /\ edges \subseteq {Ms(t) : t \in Times}

(* cursor-pagination.ts:45-54, a cursor of created_at and id "can neither  *)
(* skip nor repeat a tied row": true where every created_at is a whole     *)
(* millisecond.  A finished walk of one cluster has returned every order   *)
(* that was listed throughout exactly once, whatever was placed and        *)
(* archived meanwhile.  With created_at in microseconds, what it has       *)
(* missed lies in the millisecond of an order that ended a page.           *)
TiesReturnedOnce ==
    ended /\ walk.source # "across" =>
        /\ walk.exact => \A i \in always : times[i] = 1
        /\ \A r \in rows : r.id \in always /\ times[r.id] = 0 => Ms(r.t) \in edges

(* The first page holds the first orders of the list, in order, and none   *)
(* is left out before its last: order.service.ts:294 calls only what       *)
(* follows it best-effort for a range across the clusters.                 *)
HoldsTheFirst(found) ==
    LET range == Listed(walk, rows, "hot") \cup Listed(walk, rows, "archive")
    IN  /\ \A m, n \in DOMAIN found : m < n => Precedes(found[m], found[n])
        /\ \A r \in range \ Range(found) :
              Len(found) = walk.limit /\ Precedes(Last(found), r)

(* A walk begins with the first page, and never goes back by more than the *)
(* millisecond it is in: a page's orders follow the last of the page       *)
(* before.                                                                 *)
PagesInOrder ==
    [][page' # page =>
         /\ cursor = NoCursor => HoldsTheFirst(page')
         /\ page # <<>> => \A r \in Range(page') :
               Precedes(Last(page), r) \/ Ms(r.t) = Ms(Last(page).t)]_walkVars

(* A client that follows nextCursor comes to an end: newest first always,  *)
(* oldest first if every created_at is a whole millisecond.                *)
WalkEnds == (walk.order = "desc" \/ walk.exact) => <>ended
=============================================================================
