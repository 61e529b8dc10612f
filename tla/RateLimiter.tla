----------------------------- MODULE RateLimiter -----------------------------
(***************************************************************************)
(* The rate limiter of the reference server (src/server/ratelimit.go): per *)
(* caller it keeps the admitted calls of the last window, under a mutex;   *)
(* the middleware writes the headers of its answer after the unlock.       *)
(* Handlers serve one HTTP request after the other.                        *)
(***************************************************************************)
EXTENDS Integers, FiniteSets

CONSTANTS
    Callers,   \* IP addresses, as the middleware finds them
    Handlers,  \* goroutines that serve calls
    Limit,     \* Config.RateLimit, when there is a limiter at all
    Window,    \* a minute, in ticks
    Second,    \* ticks in a second
    MaxTime,   \* bound on the clock
    MaxCalls,  \* bound on the admitted calls of a caller
    None

ASSUME LimiterAssumption ==
    /\ Limit \in Nat \ {0}
    /\ Window \in Nat \ {0}
    /\ Second \in Nat \ {0}
    /\ MaxTime \in Nat
    /\ MaxCalls \in Nat
    /\ None \notin Callers

VARIABLES
    now,     \* the clock
    hits,    \* hits[c]: the calls that the limiter remembers
    log,     \* history: all the calls of c that were admitted, numbered
    pc,      \* pc[h]: where h stands
    caller,  \* caller[h]: the caller of h's last call
    answer   \* answer[h]: what h has told it

vars == <<now, hits, log, pc, caller, answer>>

-----------------------------------------------------------------------------
NoAnswer == [remaining |-> 0, resetAt |-> 0, retryAt |-> 0, admitted |-> 0]

Init ==
    /\ now = 0
    /\ hits = [c \in Callers |-> {}]
    /\ log = [c \in Callers |-> {}]
    /\ pc = [h \in Handlers |-> "idle"]
    /\ caller = [h \in Handlers |-> None]
    /\ answer = [h \in Handlers |-> NoAnswer]

(* Mutant of Recent: calls are forgotten a tick early. *)
RecentEarly(c) == {x \in hits[c] : x[2] > now - Window + 1}

(* The hits after the cutoff. *)
Recent(c) == {x \in hits[c] : x[2] > now - Window}

Oldest(S) == CHOOSE x \in S : \A y \in S : x[1] <= y[1]

(* Mutant of Remaining: the call itself is not counted. *)
RemainingBefore(c) == Limit - Cardinality(Recent(c))

(* What is left once the call of c is counted. *)
Remaining(c) == Limit - (Cardinality(Recent(c)) + 1)

(* allow(c), admitting the call.  Its time is the one read under the lock. *)
Allow(h, c) ==
    /\ pc[h] \in {"idle", "served", "denied"}
    /\ Cardinality(log[c]) < MaxCalls
    /\ Cardinality(Recent(c)) < Limit
    /\ LET call == <<Cardinality(log[c]), now>> IN
       /\ hits' = [hits EXCEPT ![c] = Recent(c) \cup {call}]
       /\ log' = [log EXCEPT ![c] = @ \cup {call}]
    /\ pc' = [pc EXCEPT ![h] = "served"]
    /\ caller' = [caller EXCEPT ![h] = c]
    /\ answer' = [answer EXCEPT ![h] =
                    [remaining |-> Remaining(c), resetAt |-> now + Window,
                     retryAt |-> 0, admitted |-> Cardinality(log[c]) + 1]]
    /\ UNCHANGED now

(* Mutant of Deny: the refused call is remembered as well. *)
DenyRemembers(h, c) ==
    /\ pc[h] \in {"idle", "served", "denied"}
    /\ Cardinality(Recent(c)) >= Limit
    /\ hits' = [hits EXCEPT ![c] = Recent(c) \cup {<<Cardinality(log[c]), now>>}]
    /\ pc' = [pc EXCEPT ![h] = "deny"]
    /\ caller' = [caller EXCEPT ![h] = c]
    /\ answer' = [answer EXCEPT ![h] =
                    [remaining |-> 0, resetAt |-> Oldest(Recent(c))[2] + Window,
                     retryAt |-> 0, admitted |-> Cardinality(log[c])]]
    /\ UNCHANGED <<now, log>>

(* allow(c), refusing it: a refused call is not counted. *)
Deny(h, c) ==
    /\ pc[h] \in {"idle", "served", "denied"}
    /\ Cardinality(Recent(c)) >= Limit
    /\ hits' = [hits EXCEPT ![c] = Recent(c)]
    /\ pc' = [pc EXCEPT ![h] = "deny"]
    /\ caller' = [caller EXCEPT ![h] = c]
    /\ answer' = [answer EXCEPT ![h] =
                    [remaining |-> 0, resetAt |-> Oldest(Recent(c))[2] + Window,
                     retryAt |-> 0, admitted |-> Cardinality(log[c])]]
    /\ UNCHANGED <<now, log>>

(* int(time.Until(t).Seconds()): Go's conversion truncates towards zero. *)
Seconds(d) == IF d >= 0 THEN d \div Second ELSE -((-d) \div Second)

(* Mutant of RetryAfter: the seconds are not rounded up. *)
RetryAfterDown(t) == Seconds(t - now)

(* The Retry-After header of a call refused until t. *)
RetryAfter(t) == Seconds(t - now) + 1

(* The middleware answers 429: the clock is read again. *)
Refuse(h) ==
    /\ pc[h] = "deny"
    /\ pc' = [pc EXCEPT ![h] = "denied"]
    /\ answer' = [answer EXCEPT ![h].retryAt = now + Second * RetryAfter(answer[h].resetAt)]
    /\ UNCHANGED <<now, hits, log, caller>>

Tick ==
    /\ now < MaxTime
    /\ now' = now + 1
    /\ UNCHANGED <<hits, log, pc, caller, answer>>

Next ==
    \/ Tick
    \/ \E h \in Handlers : Refuse(h) \/ \E c \in Callers : Allow(h, c) \/ Deny(h, c)

Spec == Init /\ [][Next]_vars
-----------------------------------------------------------------------------
Answer == [remaining : 0..Limit, resetAt : Nat, retryAt : Int, admitted : Nat]

(* The types of the variables; what is remembered stays within the limit. *)
TypeOK ==
    /\ now \in Nat
    /\ log \in [Callers -> SUBSET (Nat \X Nat)]
    /\ hits \in [Callers -> SUBSET (Nat \X Nat)]
    /\ \A c \in Callers : hits[c] \subseteq log[c] /\ Cardinality(hits[c]) <= Limit
    /\ pc \in [Handlers -> {"idle", "served", "deny", "denied"}]
    /\ caller \in [Handlers -> Callers \cup {None}]
    /\ answer \in [Handlers -> Answer]

(* Nobody was admitted for h's caller since h was answered. *)
Quiet(h) == caller[h] # None /\ Cardinality(log[caller[h]]) = answer[h].admitted

(* "Retry-After": a caller that was refused and waits that long is         *)
(* admitted, unless others have used its address meanwhile, although the   *)
(* header is rounded to seconds and written after the limiter's unlock.    *)
RetryAfterSuffices ==
    \A h \in Handlers :
        pc[h] = "denied" /\ Quiet(h) /\ now >= answer[h].retryAt
        => Cardinality(Recent(caller[h])) < Limit

(* "X-RateLimit-Remaining": a caller told that n calls remain finds n      *)
(* places free as long as nobody else uses its address.                    *)
RemainingIsFree ==
    \A h \in Handlers :
        pc[h] = "served" /\ Quiet(h)
        => Cardinality(Recent(caller[h])) + answer[h].remaining <= Limit

Sliding == INSTANCE SlidingWindow

(* The limiter, which forgets, admits as the one that remembers all: its   *)
(* steps are those of SlidingWindow or change nothing there.               *)
ImplementsWindow == Sliding!Spec

(* So, whatever window of time one looks at, no more than Limit calls of a *)
(* caller were admitted in it: "RateLimit, if > 0, limits requests per IP  *)
(* per minute" (src/server/server.go:28).                                  *)
AdmitsAtMostLimit == Sliding!WindowBound
=============================================================================
