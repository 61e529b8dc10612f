--------------------------- MODULE RequestLifecycle ---------------------------
(***************************************************************************)
(* What becomes of a request, seen from outside: the statuses it goes      *)
(* through and the causes that each of them needs.  RequestStore           *)
(* implements it, with all its races: they may bring an older outcome back *)
(* under a newer status, but never a status without its cause, no second   *)
(* opening, and no way back to waiting but the release of a held request.  *)
(***************************************************************************)
EXTENDS Integers

CONSTANTS Requests, None

VARIABLES
    now,     \* the clock
    terms,   \* terms[r]: the deadline and whether r was held; None before
    status,  \* status[r]: "absent" before the creation
    opened   \* the requests that were marked opened

vars == <<now, terms, status, opened>>

(* An answer or a cancellation may come at any time, and a section of the  *)
(* store that has tested the status before it may overwrite it afterwards. *)
Outcomes == {"completed", "cancelled"}

Init ==
    /\ now \in Nat
    /\ terms = [r \in Requests |-> None]
    /\ status = [r \in Requests |-> "absent"]
    /\ opened = {}

Create(r) ==
    /\ status[r] = "absent"
    /\ terms' = [terms EXCEPT ![r] = terms'[r]]
    /\ terms'[r] \in [deadline : Nat \cup {None}, held : BOOLEAN]
    /\ status' = [status EXCEPT ![r] = IF terms'[r].held THEN "held" ELSE "pending"]
    /\ UNCHANGED <<now, opened>>

(* Only what was held is released, and not once it was opened. *)
Release(r) ==
    /\ status[r] \in {"held"} \cup Outcomes
    /\ terms[r].held
    /\ r \notin opened
    /\ status' = [status EXCEPT ![r] = "pending"]
    /\ UNCHANGED <<now, terms, opened>>

Open(r) ==
    /\ status[r] \in {"pending"} \cup Outcomes
    /\ r \notin opened
    /\ status' = [status EXCEPT ![r] = "opened"]
    /\ opened' = opened \cup {r}
    /\ UNCHANGED <<now, terms>>

Expire(r) ==
    /\ status[r] \in {"pending", "opened"} \cup Outcomes
    /\ terms[r].deadline # None
    /\ now > terms[r].deadline
    /\ status' = [status EXCEPT ![r] = "expired"]
    /\ UNCHANGED <<now, terms, opened>>

(* No status keeps an answer or a cancellation out. *)
Finish(r) ==
    /\ status[r] # "absent"
    /\ \E s \in Outcomes : status' = [status EXCEPT ![r] = s]
    /\ UNCHANGED <<now, terms, opened>>

Tick == now' > now /\ now' \in Nat /\ UNCHANGED <<terms, status, opened>>

Next ==
    \/ Tick
    \/ \E r \in Requests : Create(r) \/ Release(r) \/ Open(r) \/ Expire(r) \/ Finish(r)

Spec == Init /\ [][Next]_vars
=============================================================================
