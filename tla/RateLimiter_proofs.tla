-------------------------- MODULE RateLimiter_proofs --------------------------
(* The rate limiter implements the sliding window, and the headers of its  *)
(* answers keep their word, for every limit, window and number of callers. *)
EXTENDS RateLimiter, FiniteSetTheorems, WellFoundedInduction, TLAPS

(* What the limiter has forgotten lies before the window; the calls are    *)
(* numbered in the order of their admission.                               *)
LogInv ==
    \A c \in Callers :
        /\ IsFiniteSet(log[c])
        /\ \A x \in log[c] : x[1] < Cardinality(log[c]) /\ x[2] <= now
        /\ \A x \in log[c] \ hits[c] : x[2] <= now - Window

(* What an answer promises holds of the hits until the next admission: at  *)
(* resetAt one of them is out, or one is missing already.                  *)
Counted(h) == pc[h] # "idle" =>
    caller[h] \in Callers /\ answer[h].admitted <= Cardinality(log[caller[h]])
PlacesLeft(h) == pc[h] = "served" /\ Quiet(h) =>
    Cardinality(hits[caller[h]]) + answer[h].remaining <= Limit
FreedAtReset(h) == pc[h] \in {"deny", "denied"} /\ Quiet(h) =>
    \/ Cardinality(hits[caller[h]]) < Limit
    \/ \E x \in hits[caller[h]] : x[2] + Window <= answer[h].resetAt
RetryAfterReset(h) == pc[h] = "denied" => answer[h].retryAt > answer[h].resetAt

AnswerInv ==
    \A h \in Handlers : Counted(h) /\ PlacesLeft(h) /\ FreedAtReset(h) /\ RetryAfterReset(h)

Inv == TypeOK /\ LogInv /\ AnswerInv

-----------------------------------------------------------------------------
(* The hits that are left are a finite part of those there were.           *)
LEMMA RecentFacts ==
  ASSUME TypeOK, LogInv, NEW c \in Callers
  PROVE  /\ IsFiniteSet(hits[c]) /\ Cardinality(hits[c]) \in Nat
         /\ Recent(c) \subseteq hits[c]
         /\ IsFiniteSet(Recent(c)) /\ Cardinality(Recent(c)) \in Nat
         /\ Cardinality(Recent(c)) <= Cardinality(hits[c])
         /\ Recent(c) # hits[c] => Cardinality(Recent(c)) < Cardinality(hits[c])
         /\ IsFiniteSet(log[c]) /\ Cardinality(log[c]) \in Nat
<1>1. IsFiniteSet(log[c]) /\ hits[c] \subseteq log[c]
  BY DEF TypeOK, LogInv
<1>2. IsFiniteSet(hits[c])
  BY <1>1, FS_Subset
<1>3. Recent(c) \subseteq hits[c]
  BY DEF Recent
<1> QED
  BY <1>1, <1>2, <1>3, FS_Subset, FS_CardinalityType

(* The calls of the log in the window that ends now are the recent hits.   *)
LEMMA SameWindow ==
  ASSUME TypeOK, LogInv, NEW c \in Callers
  PROVE  Sliding!InWindow(log[c], now) = Recent(c)
<1>1. hits[c] \subseteq log[c] /\ log[c] \subseteq Nat \X Nat /\ now \in Nat
  BY DEF TypeOK
<1>2. \A x \in log[c] : x[2] \in Nat /\ x[2] <= now
  BY <1>1 DEF LogInv
<1>3. \A x \in log[c] \ hits[c] : x[2] <= now - Window
  BY DEF LogInv
<1> QED
  BY <1>1, <1>2, <1>3, LimiterAssumption DEF Sliding!InWindow, Recent

(* An admitted call is a new entry of the log.                             *)
LEMMA Admission ==
  ASSUME TypeOK, LogInv, NEW c \in Callers, NEW call,
         call = <<Cardinality(log[c]), now>>
  PROVE  /\ call \notin log[c] /\ call \notin Recent(c) /\ call \in Nat \X Nat
         /\ IsFiniteSet(log[c] \cup {call})
         /\ Cardinality(log[c] \cup {call}) = Cardinality(log[c]) + 1
         /\ Cardinality(Recent(c) \cup {call}) = Cardinality(Recent(c)) + 1
<1>1. call \notin log[c]
  BY RecentFacts DEF LogInv
<1>2. Recent(c) \subseteq log[c]
  BY RecentFacts DEF TypeOK
<1>3. call \in Nat \X Nat
  BY RecentFacts DEF TypeOK
<1> QED
  BY <1>1, <1>2, <1>3, RecentFacts, FS_AddElement

-----------------------------------------------------------------------------
(* Type and log.                                                           *)

(* The invariant holds at the start. *)
LEMMA InitInv == Init => Inv
<1> SUFFICES ASSUME Init PROVE Inv
  OBVIOUS
<1>1. IsFiniteSet({}) /\ Cardinality({}) = 0
  BY FS_EmptySet
<1>2. NoAnswer \in Answer
  BY LimiterAssumption DEF NoAnswer, Answer
<1>3. TypeOK
  BY <1>1, <1>2, LimiterAssumption DEF Init, TypeOK
<1>4. LogInv
  BY <1>1 DEF Init, LogInv
<1>5. AnswerInv
  BY DEF Init, AnswerInv, Counted, PlacesLeft, FreedAtReset, RetryAfterReset
<1> QED
  BY <1>3, <1>4, <1>5 DEF Inv

(* An admission keeps types and log. *)
LEMMA AllowLog ==
  ASSUME TypeOK, LogInv, NEW h \in Handlers, NEW c \in Callers, Allow(h, c)
  PROVE  TypeOK' /\ LogInv'
<1> DEFINE call == <<Cardinality(log[c]), now>>
<1>1. /\ hits' = [hits EXCEPT ![c] = Recent(c) \cup {call}]
      /\ log' = [log EXCEPT ![c] = @ \cup {call}]
      /\ pc' = [pc EXCEPT ![h] = "served"] /\ caller' = [caller EXCEPT ![h] = c]
      /\ now' = now /\ Cardinality(Recent(c)) < Limit
  BY DEF Allow
<1>2. /\ call \notin log[c] /\ call \notin Recent(c) /\ call \in Nat \X Nat
      /\ IsFiniteSet(log[c] \cup {call})
      /\ Cardinality(log[c] \cup {call}) = Cardinality(log[c]) + 1
      /\ Cardinality(Recent(c) \cup {call}) = Cardinality(Recent(c)) + 1
  BY Admission
<1>3. /\ Recent(c) \subseteq hits[c] /\ hits[c] \subseteq log[c]
      /\ Cardinality(Recent(c)) \in Nat /\ Cardinality(log[c]) \in Nat
  BY RecentFacts DEF TypeOK
<1>4. answer' \in [Handlers -> Answer]
  <2>1. Remaining(c) \in 0..Limit
    BY <1>1, <1>3, LimiterAssumption DEF Remaining
  <2>2. now + Window \in Nat /\ Cardinality(log[c]) + 1 \in Nat
    BY <1>3, LimiterAssumption DEF TypeOK
  <2> QED
    BY <2>1, <2>2 DEF Allow, TypeOK, Answer
<1> HIDE DEF call
<1>5. TypeOK'
  <2>1. log' \in [Callers -> SUBSET (Nat \X Nat)] /\ hits' \in [Callers -> SUBSET (Nat \X Nat)]
    BY <1>1, <1>2, <1>3 DEF TypeOK
  <2>2. ASSUME NEW d \in Callers
        PROVE  hits'[d] \subseteq log'[d] /\ Cardinality(hits'[d]) <= Limit
    <3>1. CASE d = c
      BY <1>1, <1>2, <1>3, <3>1, LimiterAssumption DEF TypeOK
    <3>2. CASE d # c
      BY <1>1, <3>2 DEF TypeOK
    <3> QED
      BY <3>1, <3>2
  <2> QED
    BY <1>1, <1>4, <2>1, <2>2 DEF TypeOK
<1>6. LogInv'
  <2> SUFFICES ASSUME NEW d \in Callers
               PROVE  /\ IsFiniteSet(log'[d])
                      /\ \A x \in log'[d] : x[1] < Cardinality(log'[d]) /\ x[2] <= now
                      /\ \A x \in log'[d] \ hits'[d] : x[2] <= now - Window
    BY <1>1 DEF LogInv
  <2>1. CASE d # c
    BY <1>1, <2>1 DEF TypeOK, LogInv
  <2>2. CASE d = c
    <3>1. log'[d] = log[c] \cup {call} /\ hits'[d] = Recent(c) \cup {call}
      BY <1>1, <2>2 DEF TypeOK
    <3>2. call[1] = Cardinality(log[c]) /\ call[2] = now /\ now \in Nat
      BY DEF call, TypeOK
    <3>3. \A x \in log[c] : x[1] \in Nat /\ x[2] \in Nat
      BY DEF TypeOK
    <3>4. \A x \in log'[d] : x[1] < Cardinality(log'[d]) /\ x[2] <= now
      BY <1>2, <1>3, <3>1, <3>2, <3>3 DEF LogInv
    <3>5. \A x \in log'[d] \ hits'[d] : x[2] <= now - Window
      BY <3>1, <3>2, <3>3, LimiterAssumption DEF LogInv, Recent
    <3> QED
      BY <1>2, <3>1, <3>4, <3>5
  <2> QED
    BY <2>1, <2>2
<1> QED
  BY <1>5, <1>6

(* A set of numbers has a least one.                                       *)
LEMMA LeastNumber ==
  ASSUME NEW N \in SUBSET Nat, N # {}
  PROVE  \E n \in N : \A m \in N : n <= m
<1>1. PICK n \in N : \A m \in N : ~ (<<m, n>> \in OpToRel(<, Nat))
  BY NatLessThanWellFounded, WFMin
<1>2. \A m \in N : ~ (m < n)
  BY <1>1 DEF OpToRel
<1> QED
  BY <1>2

(* There is an oldest one among the hits of a caller that is refused.      *)
LEMMA OldestIsRecent ==
  ASSUME TypeOK, LogInv, NEW c \in Callers, Cardinality(Recent(c)) >= Limit
  PROVE  Oldest(Recent(c)) \in Recent(c)
<1>1. Recent(c) # {}
  BY FS_EmptySet, LimiterAssumption
<1>2. \A x \in Recent(c) : x[1] \in Nat
  BY RecentFacts DEF TypeOK
<1> DEFINE N == {x[1] : x \in Recent(c)}
<1>3. N \in SUBSET Nat /\ N # {}
  BY <1>1, <1>2
<1>4. \E n \in N : \A m \in N : n <= m
  <2> HIDE DEF N
  <2> QED
    BY <1>3, LeastNumber
<1>5. \E x \in Recent(c) : \A y \in Recent(c) : x[1] <= y[1]
  BY <1>4
<1> QED
  BY <1>5 DEF Oldest

(* So does a refusal, which forgets old calls only. *)
LEMMA DenyLog ==
  ASSUME TypeOK, LogInv, NEW h \in Handlers, NEW c \in Callers, Deny(h, c)
  PROVE  TypeOK' /\ LogInv'
<1>1. /\ hits' = [hits EXCEPT ![c] = Recent(c)] /\ log' = log /\ now' = now
      /\ pc' = [pc EXCEPT ![h] = "deny"] /\ caller' = [caller EXCEPT ![h] = c]
  BY DEF Deny
<1>2. /\ Recent(c) \subseteq hits[c] /\ Cardinality(Recent(c)) <= Cardinality(hits[c])
      /\ Cardinality(hits[c]) \in Nat /\ Cardinality(Recent(c)) \in Nat
      /\ Cardinality(log[c]) \in Nat
  BY RecentFacts
<1>3. Oldest(Recent(c)) \in Recent(c)
  BY OldestIsRecent DEF Deny
<1>4. answer' \in [Handlers -> Answer]
  <2>1. Oldest(Recent(c))[2] + Window \in Nat
    BY <1>2, <1>3, LimiterAssumption DEF TypeOK
  <2> QED
    BY <1>2, <2>1, LimiterAssumption DEF Deny, TypeOK, Answer
<1>5. hits' \in [Callers -> SUBSET (Nat \X Nat)]
  BY <1>1, <1>2 DEF TypeOK
<1>6. ASSUME NEW d \in Callers
      PROVE  hits'[d] \subseteq log'[d] /\ Cardinality(hits'[d]) <= Limit
  <2>1. CASE d = c
    BY <1>1, <1>2, <2>1, LimiterAssumption DEF TypeOK
  <2>2. CASE d # c
    BY <1>1, <2>2 DEF TypeOK
  <2> QED
    BY <2>1, <2>2
<1>7. TypeOK'
  BY <1>1, <1>4, <1>5, <1>6 DEF TypeOK
<1>8. LogInv'
  <2>1. \A x \in hits[c] \ Recent(c) : x[2] <= now - Window
    BY LimiterAssumption DEF Recent, TypeOK
  <2>2. \A x \in log[c] \ Recent(c) : x[2] <= now - Window
    BY <2>1 DEF LogInv
  <2> QED
    BY <1>1, <2>2 DEF LogInv, TypeOK
<1> QED
  BY <1>7, <1>8

(* So do the clock and the answer of the middleware. *)
LEMMA RestLog ==
  ASSUME TypeOK, LogInv, Tick \/ (\E h \in Handlers : Refuse(h)) \/ UNCHANGED vars
  PROVE  TypeOK' /\ LogInv'
<1>1. CASE Tick
  <2>1. TypeOK'
    BY <1>1 DEF Tick, TypeOK
  <2>2. LogInv'
    <3> SUFFICES ASSUME NEW c \in Callers
                 PROVE  /\ IsFiniteSet(log[c])
                        /\ \A x \in log[c] : x[1] < Cardinality(log[c]) /\ x[2] <= now'
                        /\ \A x \in log[c] \ hits[c] : x[2] <= now' - Window
      BY <1>1, RecentFacts DEF Tick, LogInv
    <3>1. now' = now + 1
      BY <1>1 DEF Tick
    <3>2. ASSUME NEW x \in log[c] PROVE x[2] <= now'
      <4>1. x[2] <= now
        BY DEF LogInv
      <4> QED
        BY <3>1, <4>1, LimiterAssumption DEF TypeOK
    <3>3. ASSUME NEW x \in log[c] \ hits[c] PROVE x[2] <= now' - Window
      <4>1. x[2] <= now - Window
        BY DEF LogInv
      <4> QED
        BY <3>1, <4>1, LimiterAssumption DEF TypeOK
    <3>4. /\ IsFiniteSet(log[c])
          /\ \A x \in log[c] : x[1] < Cardinality(log[c])
      BY DEF LogInv
    <3> QED
      BY <3>2, <3>3, <3>4
  <2> QED
    BY <2>1, <2>2
<1>2. ASSUME NEW h \in Handlers, Refuse(h) PROVE TypeOK' /\ LogInv'
  <2>1. Seconds(answer[h].resetAt - now) \in Int
    BY LimiterAssumption DEF Seconds, TypeOK, Answer
  <2>2. now + Second * RetryAfter(answer[h].resetAt) \in Int
    BY <2>1, LimiterAssumption DEF RetryAfter, TypeOK
  <2>3. answer' \in [Handlers -> Answer]
    BY <1>2, <2>2 DEF Refuse, TypeOK, Answer
  <2>4. TypeOK'
    BY <1>2, <2>3 DEF Refuse, TypeOK
  <2> QED
    BY <1>2, <2>4 DEF Refuse, LogInv
<1>3. CASE UNCHANGED vars
  BY <1>3 DEF vars, TypeOK, LogInv
<1> QED
  BY <1>1, <1>2, <1>3

(* Hence every step keeps types and log. *)
LEMMA NextLog == TypeOK /\ LogInv /\ [Next]_vars => TypeOK' /\ LogInv'
  BY AllowLog, DenyLog, RestLog DEF Next

(* Type correctness; what is remembered of a caller stays within Limit.    *)
THEOREM LimiterTypeCorrect == Spec => []TypeOK
<1>1. Init => TypeOK /\ LogInv
  BY InitInv DEF Inv
<1> QED
  BY <1>1, NextLog, PTL DEF Spec

-----------------------------------------------------------------------------
(* The limiter implements the sliding window.                              *)

(* The instance counts as we do. *)
LEMMA SameCount == \A S : Sliding!Cardinality(S) = Cardinality(S)
  BY Zenon DEF Cardinality, Sliding!Cardinality

(* An admission is one of the window, all else but the clock a stutter. *)
LEMMA NextImplements ==
  TypeOK /\ LogInv /\ [Next]_vars => [Sliding!Next]_(Sliding!vars)
<1> SUFFICES ASSUME TypeOK, LogInv, [Next]_vars PROVE [Sliding!Next]_(Sliding!vars)
  OBVIOUS
<1>1. ASSUME NEW h \in Handlers, NEW c \in Callers, Allow(h, c) PROVE Sliding!Admit(c)
  BY <1>1, SameWindow, SameCount DEF Allow, Sliding!Admit
<1>2. ASSUME NEW h \in Handlers, Refuse(h) \/ \E c \in Callers : Deny(h, c)
      PROVE  UNCHANGED Sliding!vars
  BY <1>2 DEF Refuse, Deny, Sliding!vars
<1>3. CASE Tick
  BY <1>3 DEF Tick, Sliding!Tick, Sliding!Next
<1>4. CASE UNCHANGED vars
  BY <1>4 DEF vars, Sliding!vars
<1> QED
  BY <1>1, <1>2, <1>3, <1>4 DEF Next, Sliding!Next

(* Every behaviour of the limiter is one of the window that forgets        *)
(* nothing: a call is refused only if Limit calls of its caller were       *)
(* admitted in the last Window, and admitted only if fewer were.           *)
THEOREM LimiterImplements == Spec => ImplementsWindow
<1>1. Init => Sliding!Init
  BY DEF Init, Sliding!Init
<1>2. Init => TypeOK /\ LogInv
  BY InitInv DEF Inv
<1> QED
  BY <1>1, <1>2, NextLog, NextImplements, PTL DEF Spec, ImplementsWindow, Sliding!Spec

-----------------------------------------------------------------------------
(* The window's own promise.                                               *)

(* The log is finite and holds nothing from the future. *)
WindowLog ==
    \A c \in Callers : IsFiniteSet(log[c]) /\ \A x \in log[c] : x[2] \in Nat /\ x[2] <= now

WindowInv == Sliding!TypeOK /\ WindowLog /\ Sliding!WindowBound

(* A window holds part of the log. *)
LEMMA WindowFinite ==
  ASSUME WindowLog, NEW c \in Callers, NEW t
  PROVE  /\ IsFiniteSet(Sliding!InWindow(log[c], t))
         /\ Cardinality(Sliding!InWindow(log[c], t)) \in Nat
<1>1. Sliding!InWindow(log[c], t) \subseteq log[c]
  BY DEF Sliding!InWindow
<1> QED
  BY <1>1, FS_Subset, FS_CardinalityType DEF WindowLog

(* The window's invariant holds at the start. *)
LEMMA WindowInit ==
  ASSUME Sliding!Init PROVE WindowInv
<1> USE LimiterAssumption
<1>1. Sliding!TypeOK
  BY DEF Sliding!Init, Sliding!TypeOK
<1>2. WindowLog
  BY FS_EmptySet DEF Sliding!Init, WindowLog
<1>3. \A t : Sliding!InWindow({}, t) = {}
  BY DEF Sliding!InWindow
<1>4. Sliding!WindowBound
  BY <1>3, SameCount, FS_EmptySet DEF Sliding!Init, Sliding!WindowBound
<1> QED
  BY <1>1, <1>2, <1>4 DEF WindowInv

(* A window that ends later holds no more of an unchanged log. *)
LEMMA WindowTick ==
  ASSUME WindowInv, Sliding!Tick PROVE WindowInv'
<1> USE LimiterAssumption
<1>1. Sliding!TypeOK' /\ WindowLog'
  BY DEF WindowInv, Sliding!TypeOK, WindowLog, Sliding!Tick
<1>2. Sliding!WindowBound'
  <2> SUFFICES ASSUME NEW c \in Callers, NEW t \in 0..(now + 1)
               PROVE  Cardinality(Sliding!InWindow(log[c], t)) <= Limit
    BY SameCount DEF Sliding!WindowBound, Sliding!Tick, Sliding!InWindow
  <2>1. CASE t \in 0..now
    BY <2>1, SameCount DEF WindowInv, Sliding!WindowBound
  <2>2. CASE t = now + 1
    <3>1. Sliding!InWindow(log[c], t) \subseteq Sliding!InWindow(log[c], now)
      BY <2>2 DEF WindowInv, Sliding!TypeOK, WindowLog, Sliding!InWindow
    <3>2. Cardinality(Sliding!InWindow(log[c], t)) <= Cardinality(Sliding!InWindow(log[c], now))
      BY <3>1, WindowFinite, FS_Subset DEF WindowInv
    <3>3. Cardinality(Sliding!InWindow(log[c], now)) <= Limit
      BY SameCount DEF WindowInv, Sliding!TypeOK, Sliding!WindowBound
    <3> QED
      BY <3>2, <3>3, WindowFinite DEF WindowInv
  <2> QED
    BY <2>1, <2>2 DEF WindowInv, Sliding!TypeOK
<1> QED
  BY <1>1, <1>2 DEF WindowInv

(* An admission adds to the windows that end now, which had room. *)
LEMMA WindowAdmit ==
  ASSUME WindowInv, NEW c \in Callers, Sliding!Admit(c)
  PROVE  WindowInv'
<1> USE LimiterAssumption
<1> DEFINE call == <<Cardinality(log[c]), now>>
<1>0. Sliding!TypeOK /\ WindowLog /\ Sliding!WindowBound
  BY DEF WindowInv
<1>1. /\ log' = [log EXCEPT ![c] = @ \cup {call}] /\ now' = now
      /\ Cardinality(Sliding!InWindow(log[c], now)) < Limit
  BY SameCount DEF Sliding!Admit
<1>2. IsFiniteSet(log[c]) /\ Cardinality(log[c]) \in Nat
  BY <1>0, FS_CardinalityType DEF WindowLog
<1>3. IsFiniteSet(log[c] \cup {call})
  BY <1>2, FS_AddElement
<1>4. Sliding!TypeOK'
  BY <1>0, <1>1, <1>2 DEF Sliding!TypeOK
<1>5. WindowLog'
  BY <1>0, <1>1, <1>3 DEF WindowLog, Sliding!TypeOK
<1>6. Sliding!WindowBound'
  <2> SUFFICES ASSUME NEW d \in Callers, NEW t \in 0..now
               PROVE  Cardinality(Sliding!InWindow(log'[d], t)) <= Limit
    BY <1>1, SameCount DEF Sliding!WindowBound, Sliding!InWindow
  <2>1. Cardinality(Sliding!InWindow(log[d], t)) <= Limit
    BY <1>0, SameCount DEF Sliding!WindowBound
  <2>2. CASE d # c
    BY <1>0, <1>1, <2>1, <2>2 DEF Sliding!TypeOK
  <2>3. CASE d = c /\ t # now
    <3>1. log'[d] = log[d] \cup {call}
      BY <1>0, <1>1, <2>3 DEF Sliding!TypeOK
    <3>2. Sliding!InWindow(log'[d], t) = Sliding!InWindow(log[d], t)
      BY <1>0, <2>3, <3>1 DEF Sliding!InWindow, Sliding!TypeOK
    <3> QED
      BY <2>1, <3>2
  <2>4. CASE d = c /\ t = now
    <3> DEFINE W == Sliding!InWindow(log[c], now)
    <3>1. log'[d] = log[c] \cup {call}
      BY <1>0, <1>1, <2>4 DEF Sliding!TypeOK
    <3>2. Sliding!InWindow(log'[d], t) = W \/ Sliding!InWindow(log'[d], t) = W \cup {call}
      BY <1>0, <2>4, <3>1 DEF Sliding!InWindow
    <3>3. IsFiniteSet(W) /\ Cardinality(W) \in Nat
      BY <1>0, WindowFinite
    <3>4. Cardinality(W \cup {call}) = Cardinality(W)
          \/ Cardinality(W \cup {call}) = Cardinality(W) + 1
      BY <3>3, FS_AddElement
    <3> DEFINE W2 == W \cup {call}
    <3>5. Cardinality(W) < Limit
      BY <1>1
    <3>6. Cardinality(W) <= Limit /\ Cardinality(W2) <= Limit
      <4> HIDE DEF W
      <4> QED
        BY <3>3, <3>4, <3>5
    <3>7. Sliding!InWindow(log'[d], t) = W \/ Sliding!InWindow(log'[d], t) = W2
      BY <3>2
    <3> HIDE DEF W, W2
    <3> QED
      BY <3>6, <3>7
  <2> QED
    BY <2>2, <2>3, <2>4
<1> QED
  BY <1>4, <1>5, <1>6 DEF WindowInv

(* Every step keeps the window's invariant. *)
LEMMA WindowNext == WindowInv /\ [Sliding!Next]_(Sliding!vars) => WindowInv'
<1>1. ASSUME WindowInv, UNCHANGED Sliding!vars PROVE WindowInv'
  BY <1>1 DEF Sliding!vars, WindowInv, Sliding!TypeOK, WindowLog, Sliding!WindowBound, Sliding!InWindow
<1> QED
  BY <1>1, WindowTick, WindowAdmit DEF Sliding!Next

(* Whatever window one looks at, at most Limit calls were admitted in it.  *)
THEOREM WindowCorrect == Sliding!Spec => []Sliding!WindowBound
<1>1. Sliding!Init => WindowInv
  BY WindowInit
<1>2. WindowInv => Sliding!WindowBound
  BY DEF WindowInv
<1> QED
  BY <1>1, <1>2, WindowNext, PTL DEF Sliding!Spec

(* At most Limit calls of a caller are admitted in any Window.             *)
THEOREM LimiterCorrect == Spec => []AdmitsAtMostLimit
  BY WindowCorrect, LimiterImplements, PTL DEF ImplementsWindow, AdmitsAtMostLimit

-----------------------------------------------------------------------------
(* The headers of the answers.                                             *)

(* An admission leaves every answer true: h's own counts the call, and who *)
(* was answered before for the same caller is no longer quiet.             *)
LEMMA AllowAnswer ==
  ASSUME Inv, TypeOK', NEW h \in Handlers, NEW c \in Callers, Allow(h, c)
  PROVE  AnswerInv'
<1> DEFINE call == <<Cardinality(log[c]), now>>
<1>0. TypeOK /\ LogInv /\ AnswerInv
  BY DEF Inv
<1>1. /\ hits' = [hits EXCEPT ![c] = Recent(c) \cup {call}]
      /\ log' = [log EXCEPT ![c] = @ \cup {call}]
      /\ pc' = [pc EXCEPT ![h] = "served"] /\ caller' = [caller EXCEPT ![h] = c]
      /\ answer' = [answer EXCEPT ![h] =
                      [remaining |-> Remaining(c), resetAt |-> now + Window,
                       retryAt |-> 0, admitted |-> Cardinality(log[c]) + 1]]
  BY DEF Allow
<1>2. /\ Cardinality(log[c] \cup {call}) = Cardinality(log[c]) + 1
      /\ Cardinality(Recent(c) \cup {call}) = Cardinality(Recent(c)) + 1
  BY <1>0, Admission
<1>3. Cardinality(Recent(c)) \in Nat /\ Cardinality(log[c]) \in Nat
  BY <1>0, RecentFacts
<1> HIDE DEF call
<1>4. /\ hits'[c] = Recent(c) \cup {call} /\ log'[c] = log[c] \cup {call}
      /\ \A d \in Callers \ {c} : hits'[d] = hits[d] /\ log'[d] = log[d]
  BY <1>0, <1>1 DEF TypeOK
<1>5. /\ Cardinality(log'[c]) = Cardinality(log[c]) + 1 /\ Cardinality(log'[c]) \in Nat
      /\ Cardinality(hits'[c]) = Cardinality(Recent(c)) + 1 /\ Cardinality(hits'[c]) \in Nat
  BY <1>2, <1>3, <1>4
<1> SUFFICES ASSUME NEW g \in Handlers
             PROVE  (Counted(g) /\ PlacesLeft(g) /\ FreedAtReset(g) /\ RetryAfterReset(g))'
  BY DEF AnswerInv
<1>6. CASE g = h
  <2>1. /\ pc'[g] = "served" /\ caller'[g] = c
        /\ answer'[g].remaining = Limit - (Cardinality(Recent(c)) + 1)
        /\ answer'[g].admitted = Cardinality(log[c]) + 1
    BY <1>0, <1>1, <1>6 DEF TypeOK, Remaining
  <2>2. Counted(g)'
    BY <1>5, <2>1 DEF Counted
  <2>3. PlacesLeft(g)'
    BY <1>3, <1>5, <2>1, LimiterAssumption DEF PlacesLeft
  <2> QED
    BY <2>1, <2>2, <2>3 DEF FreedAtReset, RetryAfterReset
<1>7. CASE g # h
  <2>1. pc'[g] = pc[g] /\ caller'[g] = caller[g] /\ answer'[g] = answer[g]
    BY <1>0, <1>1, <1>7 DEF TypeOK
  <2>2. Counted(g) /\ PlacesLeft(g) /\ FreedAtReset(g) /\ RetryAfterReset(g)
    BY <1>0 DEF AnswerInv
  <2>3. answer[g].admitted \in Nat
    BY <1>0 DEF TypeOK, Answer
  <2>4. CASE caller[g] = c
    <3>1. pc[g] # "idle" => answer[g].admitted < Cardinality(log'[c])
      BY <1>3, <1>5, <2>2, <2>3, <2>4 DEF Counted
    <3>2. Counted(g)'
      BY <1>5, <2>1, <2>3, <2>4, <3>1 DEF Counted
    <3>3. pc[g] # "idle" => ~Quiet(g)'
      BY <1>5, <2>1, <2>3, <2>4, <3>1 DEF Quiet
    <3> QED
      BY <2>1, <2>2, <3>2, <3>3 DEF PlacesLeft, FreedAtReset, RetryAfterReset
  <2>5. CASE caller[g] # c
    <3>1. caller[g] \in Callers => hits'[caller[g]] = hits[caller[g]] /\ log'[caller[g]] = log[caller[g]]
      BY <1>4, <2>5
    <3> QED
      BY <2>1, <2>2, <3>1 DEF Counted, PlacesLeft, FreedAtReset, RetryAfterReset, Quiet
  <2> QED
    BY <2>4, <2>5
<1> QED
  BY <1>6, <1>7

(* A refusal forgets calls, which frees places only.                       *)
LEMMA DenyAnswer ==
  ASSUME Inv, NEW h \in Handlers, NEW c \in Callers, Deny(h, c)
  PROVE  AnswerInv'
<1>0. TypeOK /\ LogInv /\ AnswerInv
  BY DEF Inv
<1>1. /\ hits' = [hits EXCEPT ![c] = Recent(c)] /\ log' = log
      /\ pc' = [pc EXCEPT ![h] = "deny"] /\ caller' = [caller EXCEPT ![h] = c]
      /\ answer' = [answer EXCEPT ![h] =
                      [remaining |-> 0, resetAt |-> Oldest(Recent(c))[2] + Window,
                       retryAt |-> 0, admitted |-> Cardinality(log[c])]]
  BY DEF Deny
<1>2. /\ Cardinality(Recent(c)) \in Nat /\ Cardinality(log[c]) \in Nat
      /\ Cardinality(hits[c]) \in Nat /\ Cardinality(Recent(c)) <= Cardinality(hits[c])
      /\ Recent(c) # hits[c] => Cardinality(Recent(c)) < Cardinality(hits[c])
      /\ Recent(c) \subseteq hits[c] /\ Cardinality(hits[c]) <= Limit
  BY <1>0, RecentFacts DEF TypeOK
<1>3. hits'[c] = Recent(c) /\ \A d \in Callers \ {c} : hits'[d] = hits[d]
  BY <1>0, <1>1 DEF TypeOK
<1> SUFFICES ASSUME NEW g \in Handlers
             PROVE  (Counted(g) /\ PlacesLeft(g) /\ FreedAtReset(g) /\ RetryAfterReset(g))'
  BY DEF AnswerInv
<1>4. CASE g = h
  <2>1. /\ pc'[g] = "deny" /\ caller'[g] = c
        /\ answer'[g].resetAt = Oldest(Recent(c))[2] + Window
        /\ answer'[g].admitted = Cardinality(log[c])
    BY <1>0, <1>1, <1>4 DEF TypeOK
  <2>2. Counted(g)'
    BY <1>1, <1>2, <2>1 DEF Counted
  <2>3. FreedAtReset(g)'
    <3>1. Oldest(Recent(c)) \in Recent(c)
      BY <1>0, OldestIsRecent DEF Deny
    <3>2. Oldest(Recent(c))[2] + Window <= answer'[g].resetAt
      BY <1>0, <1>2, <2>1, <3>1, LimiterAssumption DEF TypeOK
    <3> QED
      BY <1>3, <2>1, <3>1, <3>2 DEF FreedAtReset
  <2> QED
    BY <2>1, <2>2, <2>3 DEF PlacesLeft, RetryAfterReset
<1>5. CASE g # h
  <2>1. pc'[g] = pc[g] /\ caller'[g] = caller[g] /\ answer'[g] = answer[g]
    BY <1>0, <1>1, <1>5 DEF TypeOK
  <2>2. Counted(g) /\ PlacesLeft(g) /\ FreedAtReset(g) /\ RetryAfterReset(g)
    BY <1>0 DEF AnswerInv
  <2>3. Counted(g)' /\ RetryAfterReset(g)' /\ (Quiet(g)' <=> Quiet(g))
    BY <1>1, <2>1, <2>2 DEF Counted, RetryAfterReset, Quiet
  <2>4. CASE caller[g] = c
    <3>1. PlacesLeft(g)'
      <4>1. answer[g].remaining \in Int
        BY <1>0 DEF TypeOK, Answer
      <4> QED
        BY <1>2, <1>3, <2>1, <2>2, <2>3, <2>4, <4>1, LimiterAssumption DEF PlacesLeft
    <3>2. FreedAtReset(g)'
      <4> SUFFICES ASSUME pc[g] \in {"deny", "denied"}, Quiet(g)
                   PROVE  \/ Cardinality(Recent(c)) < Limit
                          \/ \E x \in Recent(c) : x[2] + Window <= answer[g].resetAt
        BY <1>3, <2>1, <2>3, <2>4 DEF FreedAtReset
      <4>1. CASE Recent(c) = hits[c]
        BY <2>2, <2>4, <4>1 DEF FreedAtReset
      <4>2. CASE Recent(c) # hits[c]
        BY <1>2, <4>2, LimiterAssumption
      <4> QED
        BY <4>1, <4>2
    <3> QED
      BY <2>3, <3>1, <3>2
  <2>5. CASE caller[g] # c
    <3>1. caller[g] \in Callers => hits'[caller[g]] = hits[caller[g]]
      BY <1>3, <2>5
    <3> QED
      BY <2>1, <2>2, <2>3, <3>1 DEF Counted, PlacesLeft, FreedAtReset
  <2> QED
    BY <2>4, <2>5
<1> QED
  BY <1>4, <1>5

(* Division rounds down by less than the divisor.                          *)
LEMMA DivFacts ==
  ASSUME NEW d \in Nat, NEW s \in Nat \ {0}
  PROVE  /\ d \div s \in Nat
         /\ s * (d \div s) <= d
         /\ d < s * ((d \div s) + 1)
<1>1. d \div s \in Nat
  OBVIOUS
<1>2. d = s * (d \div s) + (d % s) /\ d % s \in 0..(s-1)
  OBVIOUS
<1> QED
  BY <1>1, <1>2

(* Retry-After is later than the time the limiter gave, although the       *)
(* header is in seconds and the clock has gone on: even a negative         *)
(* duration is truncated towards zero, and one second is added.            *)
LEMMA RoundedUp ==
  ASSUME TypeOK, NEW t \in Nat
  PROVE  now + Second * RetryAfter(t) > t
<1>1. Second \in Nat \ {0} /\ now \in Nat
  BY LimiterAssumption DEF TypeOK
<1>2. CASE t >= now
  <2> DEFINE d == t - now
  <2>1. d \in Nat
    BY <1>1, <1>2
  <2>2. RetryAfter(t) = (d \div Second) + 1
    BY <2>1 DEF RetryAfter, Seconds
  <2>3. d < Second * ((d \div Second) + 1) /\ d \div Second \in Nat
    BY <1>1, <2>1, DivFacts
  <2>4. now + d = t
    BY <1>1
  <2> HIDE DEF d
  <2> QED
    BY <1>1, <2>1, <2>2, <2>3, <2>4
<1>3. CASE t < now
  <2> DEFINE d == now - t
  <2>1. d \in Nat /\ d # 0
    BY <1>1, <1>3
  <2>2. t - now = -d /\ ~(t - now >= 0) /\ -(t - now) = d
    BY <1>1, <1>3
  <2>3. RetryAfter(t) = -(d \div Second) + 1
    BY <2>2 DEF RetryAfter, Seconds
  <2>4. Second * (d \div Second) <= d /\ d \div Second \in Nat
    BY <1>1, <2>1, DivFacts
  <2>5. now - d = t
    BY <1>1
  <2> HIDE DEF d
  <2>6. Second * (-(d \div Second) + 1) = Second - Second * (d \div Second)
    BY <1>1, <2>4
  <2> QED
    BY <1>1, <2>1, <2>3, <2>4, <2>5, <2>6
<1> QED
  BY <1>1, <1>2, <1>3

(* Writing a 429 answer makes its promise, and keeps the others.           *)
LEMMA RefuseAnswer ==
  ASSUME Inv, NEW h \in Handlers, Refuse(h)
  PROVE  AnswerInv'
<1>0. TypeOK /\ AnswerInv
  BY DEF Inv
<1>1. /\ pc[h] = "deny" /\ pc' = [pc EXCEPT ![h] = "denied"]
      /\ answer' = [answer EXCEPT ![h].retryAt = now + Second * RetryAfter(answer[h].resetAt)]
      /\ UNCHANGED <<now, hits, log, caller>>
  BY DEF Refuse
<1> SUFFICES ASSUME NEW g \in Handlers
             PROVE  (Counted(g) /\ PlacesLeft(g) /\ FreedAtReset(g) /\ RetryAfterReset(g))'
  BY DEF AnswerInv
<1>2. Counted(g) /\ PlacesLeft(g) /\ FreedAtReset(g) /\ RetryAfterReset(g)
  BY <1>0 DEF AnswerInv
<1>3. CASE g = h
  <2>1. /\ pc'[g] = "denied"
        /\ answer'[g].retryAt = now + Second * RetryAfter(answer[g].resetAt)
        /\ answer'[g].resetAt = answer[g].resetAt /\ answer'[g].admitted = answer[g].admitted
    BY <1>0, <1>1, <1>3 DEF TypeOK, Answer
  <2>2. answer[g].resetAt \in Nat
    BY <1>0 DEF TypeOK, Answer
  <2>3. RetryAfterReset(g)'
    BY <1>0, <2>1, <2>2, RoundedUp DEF RetryAfterReset
  <2> QED
    BY <1>1, <1>2, <1>3, <2>1, <2>3 DEF Counted, PlacesLeft, FreedAtReset, Quiet
<1>4. CASE g # h
  <2>1. pc'[g] = pc[g] /\ answer'[g] = answer[g]
    BY <1>0, <1>1, <1>4 DEF TypeOK
  <2> QED
    BY <1>1, <1>2, <2>1 DEF Counted, PlacesLeft, FreedAtReset, RetryAfterReset, Quiet
<1> QED
  BY <1>3, <1>4

(* Every step of the limiter keeps the invariant. *)
LEMMA NextInv == Inv /\ [Next]_vars => Inv'
<1> SUFFICES ASSUME Inv, [Next]_vars PROVE Inv'
  OBVIOUS
<1>1. TypeOK' /\ LogInv'
  BY NextLog DEF Inv
<1>2. CASE Tick \/ UNCHANGED vars
  <2>1. UNCHANGED <<hits, log, pc, caller, answer>>
    BY <1>2 DEF Tick, vars
  <2>2. ASSUME NEW h \in Handlers
        PROVE  (Counted(h) /\ PlacesLeft(h) /\ FreedAtReset(h) /\ RetryAfterReset(h))'
    BY <2>1 DEF Inv, AnswerInv, Counted, PlacesLeft, FreedAtReset, RetryAfterReset, Quiet
  <2> QED
    BY <1>1, <2>2 DEF Inv, AnswerInv
<1> QED
  BY <1>1, <1>2, AllowAnswer, DenyAnswer, RefuseAnswer DEF Next, Inv

(* A caller told that n calls remain finds n places free until the next    *)
(* call of its address is admitted, however long it waits.                 *)
THEOREM RemainingCorrect == Spec => []RemainingIsFree
<1>1. Inv => RemainingIsFree
  <2> SUFFICES ASSUME Inv, NEW h \in Handlers, pc[h] = "served", Quiet(h)
               PROVE  Cardinality(Recent(caller[h])) + answer[h].remaining <= Limit
    BY DEF RemainingIsFree
  <2>1. caller[h] \in Callers /\ Cardinality(hits[caller[h]]) + answer[h].remaining <= Limit
    BY DEF Inv, AnswerInv, Counted, PlacesLeft
  <2>2. answer[h].remaining \in Int
    BY DEF Inv, TypeOK, Answer
  <2> QED
    BY <2>1, <2>2, RecentFacts, LimiterAssumption DEF Inv
<1> QED
  BY <1>1, InitInv, NextInv, PTL DEF Spec

(* A refused caller that waits for the seconds of Retry-After is admitted, *)
(* if no other call of its address was meanwhile.                          *)
THEOREM RetryAfterCorrect == Spec => []RetryAfterSuffices
<1>1. Inv => RetryAfterSuffices
  <2> SUFFICES ASSUME Inv, NEW h \in Handlers, pc[h] = "denied", Quiet(h), now >= answer[h].retryAt
               PROVE  Cardinality(Recent(caller[h])) < Limit
    BY DEF RetryAfterSuffices
  <2> DEFINE c == caller[h]
  <2>0. TypeOK /\ LogInv
    BY DEF Inv
  <2>1. /\ c \in Callers /\ answer[h].retryAt > answer[h].resetAt
        /\ Cardinality(hits[c]) < Limit \/ \E x \in hits[c] : x[2] + Window <= answer[h].resetAt
    BY DEF Inv, AnswerInv, Counted, FreedAtReset, RetryAfterReset
  <2>2. /\ Cardinality(Recent(c)) \in Nat /\ Cardinality(hits[c]) \in Nat
        /\ Cardinality(Recent(c)) <= Cardinality(hits[c])
        /\ Recent(c) # hits[c] => Cardinality(Recent(c)) < Cardinality(hits[c])
    BY <2>0, <2>1, RecentFacts
  <2>3. Cardinality(hits[c]) <= Limit /\ hits[c] \subseteq Nat \X Nat
    BY <2>0, <2>1 DEF TypeOK
  <2>4. CASE Cardinality(hits[c]) < Limit
    BY <2>2, <2>4, LimiterAssumption
  <2>5. CASE \E x \in hits[c] : x[2] + Window <= answer[h].resetAt
    <3>1. PICK x \in hits[c] : x[2] + Window <= answer[h].resetAt
      BY <2>5
    <3>2. answer[h].resetAt \in Nat /\ answer[h].retryAt \in Int /\ now \in Nat /\ x[2] \in Nat
      BY <2>0, <2>3 DEF TypeOK, Answer
    <3>3. ~(x[2] > now - Window)
      BY <2>1, <3>1, <3>2, LimiterAssumption
    <3>4. Recent(c) # hits[c]
      BY <3>3 DEF Recent
    <3> QED
      BY <2>2, <2>3, <3>4, LimiterAssumption
  <2> QED
    BY <2>1, <2>4, <2>5
<1> QED
  BY <1>1, InitInv, NextInv, PTL DEF Spec
=============================================================================
