----------------------------- MODULE Pagination -----------------------------
(***************************************************************************)
(* GET /requests in pages (src/server/handlers.go, handleListRequests):    *)
(* the store keeps the ids in the order of creation (store.order) and a    *)
(* page is cut out of a copy of that list.  A walker follows nextCursor    *)
(* from page to page while requests are created.  Requests go by their     *)
(* place in the order; none is ever removed.                               *)
(***************************************************************************)
EXTENDS Integers

CONSTANTS
    Queries,      \* values of ?limit=; 0 when it is absent or no number
    DefaultLimit, \* 25
    MaxLimit,     \* 100
    MaxRequests   \* bound on the requests created

ASSUME PaginationAssumption ==
    /\ Queries \subseteq Nat
    /\ DefaultLimit \in Nat \ {0}
    /\ MaxLimit \in Nat
    /\ DefaultLimit <= MaxLimit
    /\ MaxRequests \in Nat

VARIABLES
    created,  \* the number of requests in the store
    pc,      \* where the walker stands
    limit,   \* the limit of its pages
    before,  \* the cursor of its next page, 0 for none
    seen     \* the requests it has been shown

vars == <<created, pc, limit, before, seen>>

-----------------------------------------------------------------------------
(* Mutant of LimitOf: a query is taken as it comes. *)
LimitUnchecked(q) == q

LimitOf(q) == IF q > 0 /\ q <= MaxLimit THEN q ELSE DefaultLimit

Cut(all, start, n) ==
    LET end == IF all - start > n THEN start + n ELSE all IN
    [items |-> (start + 1) .. end, more |-> end < all, next |-> end]

(* Mutant of Page: the page begins after the request that follows b. *)
PageSkips(all, b, n) == Cut(all, IF b \in 1..all THEN b + 1 ELSE 0, n)

(* Mutant of Page: the page begins one request early. *)
PageEarly(all, b, n) == Cut(all, IF b \in 2..all THEN b - 2 ELSE 0, n)

(* The page of at most n requests at the cursor b: it begins with b itself *)
(* (the loop takes b's index), or with the oldest request when there is no *)
(* cursor or an unknown one.                                               *)
Page(all, b, n) == Cut(all, IF b \in 1..all THEN b - 1 ELSE 0, n)

-----------------------------------------------------------------------------
Init ==
    /\ created = 0
    /\ pc = "idle"
    /\ limit = 0
    /\ before = 0
    /\ seen = {}

(* put appends the id. *)
Create ==
    /\ created < MaxRequests
    /\ created' = created + 1
    /\ UNCHANGED <<pc, limit, before, seen>>

Begin ==
    /\ pc = "idle"
    /\ \E q \in Queries : limit' = LimitOf(q)
    /\ pc' = "walk"
    /\ UNCHANGED <<created, before, seen>>

(* One call of GET /requests; hasMore is false on the last page. *)
Fetch ==
    LET page == Page(created, before, limit) IN
    /\ pc = "walk"
    /\ seen' = seen \cup page.items
    /\ IF page.more
       THEN before' = page.next /\ UNCHANGED pc
       ELSE pc' = "done" /\ UNCHANGED before
    /\ UNCHANGED <<created, limit>>

Next == Create \/ Begin \/ Fetch

Spec == Init /\ [][Next]_vars

(* The walker goes on as long as it is told that there is more. *)
FairSpec == Spec /\ WF_vars(Fetch)
-----------------------------------------------------------------------------
(* The types of the variables. *)
TypeOK ==
    /\ created \in Nat
    /\ pc \in {"idle", "walk", "done"}
    /\ limit \in 0..MaxLimit /\ (pc # "idle" => limit > 0)
    /\ before \in 0..created
    /\ seen \subseteq 1..created

(* A walk misses nothing on its way, whatever is created meanwhile: what   *)
(* it has been shown is all up to its cursor.                              *)
NoGaps == pc = "walk" => seen = 1..before

(* So the page that says hasMore = false completes the list as it was when *)
(* that page was made.                                                     *)
LastPageCompletes ==
    [][pc = "walk" /\ pc' = "done" => seen' = 1..created]_vars

(* A walk with pages of two or more comes to an end once creations do: the *)
(* page begins with its cursor, so one of its places is lost.              *)
WalkEnds == pc = "walk" /\ limit >= 2 ~> pc = "done"
=============================================================================
