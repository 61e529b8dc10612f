---------------------------- MODULE SlidingWindow ----------------------------
(***************************************************************************)
(* What a sliding-window rate limiter promises, with nothing forgotten: a  *)
(* call is admitted when fewer than Limit calls of its caller were         *)
(* admitted in the last Window of time.  RateLimiter implements it.        *)
(***************************************************************************)
EXTENDS Integers, FiniteSets

CONSTANTS
    Callers,  \* the keys that calls are counted by
    Limit,    \* calls admitted in a window
    Window    \* length of the window, in ticks

VARIABLES
    now,  \* the clock
    log   \* log[c]: the admitted calls of c, numbered, with their times

vars == <<now, log>>

(* The calls of S in the window that ends at time t. *)
InWindow(S, t) == {x \in S : t - Window < x[2] /\ x[2] <= t}

Init ==
    /\ now = 0
    /\ log = [c \in Callers |-> {}]

Admit(c) ==
    /\ Cardinality(InWindow(log[c], now)) < Limit
    /\ log' = [log EXCEPT ![c] = @ \cup {<<Cardinality(@), now>>}]
    /\ UNCHANGED now

Tick ==
    /\ now' = now + 1
    /\ UNCHANGED log

Next == Tick \/ \E c \in Callers : Admit(c)

Spec == Init /\ [][Next]_vars

-----------------------------------------------------------------------------
(* The types of the variables. *)
TypeOK ==
    /\ now \in Nat
    /\ log \in [Callers -> SUBSET (Nat \X Nat)]

(* "RateLimit, if > 0, limits requests per IP per minute" (src/server/     *)
(* server.go:28): whatever window of time one looks at, no more than Limit *)
(* calls of a caller were admitted in it.                                  *)
WindowBound ==
    \A c \in Callers : \A t \in 0..now : Cardinality(InWindow(log[c], t)) <= Limit
=============================================================================
