-------------------------- MODULE Algorithms_proofs --------------------------
(* Of what runs without anybody in between: a passphrase stands for one    *)
(* key pair, whatever the hash, however many clients make it, stop and     *)
(* begin again; the two readers of a form's answer agree, and the typed    *)
(* getters return what was entered, for any form; and a walk through the   *)
(* pages misses nothing, for any limit and however many requests are       *)
(* created on the way.                                                     *)
EXTENDS Forms, KeyMaterial, Pagination, DidAuth_proofs, SequenceTheorems, TLAPS

-----------------------------------------------------------------------------
(* What a word of the stream does to the search for the primes.            *)

(* The candidates. *)
Odds == {Odd(word) : word \in Words}

(* Where a search begins. *)
Fresh == [candidate |-> Unset, passed |-> 0, primes |-> <<>>]

(* Where p's search stands. *)
Place(p) == [candidate |-> candidate[p], passed |-> passed[p], primes |-> primes[p]]

(* It needs another word. *)
Searching(s) == s.candidate # Unset \/ Len(s.primes) < 2

(* A word for a new candidate. *)
AfterTry(s, word) ==
    [candidate |-> IF PassesSmallPrimeCheck(Odd(word)) THEN Odd(word) ELSE Unset,
     passed |-> 0, primes |-> s.primes]

(* A word for a round of Miller-Rabin. *)
AfterRound(s, word) ==
    LET goes == PassesRound(s.candidate, Witness(word, s.candidate))
        last == s.passed + 1 = Rounds
    IN  [candidate |-> IF goes /\ ~last THEN s.candidate ELSE Unset,
         passed |-> IF goes /\ ~last THEN s.passed + 1 ELSE 0,
         primes |-> IF goes /\ last THEN Append(s.primes, s.candidate) ELSE s.primes]

(* A word for either. *)
After(s, word) == IF s.candidate = Unset THEN AfterTry(s, word) ELSE AfterRound(s, word)

(* The pair that p makes of its primes. *)
Paired(p) == KeyPair(primes[p][1], primes[p][2])

(* The types, and when a pair is made. *)
KeyTypes ==
    /\ stream \in Seq(Words)
    /\ drawn \in [Processes -> Nat]
    /\ candidate \in [Processes -> Odds \cup {Unset}]
    /\ passed \in [Processes -> Nat]
    /\ primes \in [Processes -> Seq(Odds)]
    /\ DOMAIN pair = Processes /\ pair = [p \in Processes |-> pair[p]]
    /\ \A p \in Processes :
         /\ drawn[p] <= Len(stream)
         /\ candidate[p] # Unset => Len(primes[p]) < 2
         /\ pair[p] # Unset => /\ ~Searching(Place(p))
                               /\ pair[p] = Paired(p)

(* f[k] is the place of everybody who has drawn k words. *)
Course(f) ==
    /\ f[0] = Fresh
    /\ \A k \in 0 .. Len(stream) - 1 : f[k + 1] = After(f[k], stream[k + 1]) /\ Searching(f[k])
    /\ \A p \in Processes : Place(p) = f[drawn[p]]

(* All clients are on the one course. *)
KeyInv == KeyTypes /\ \E f : Course(f)

(* The pair of two primes does not change. *)
LEMMA PairedFrame ==
  ASSUME NEW p \in Processes, e' = e, primes'[p] = primes[p]
  PROVE  Paired(p)' = Paired(p)
  BY DEF Paired, KeyPair

(* Who draws a word was searching, and goes where the word leads. *)
LEMMA DrawLemma ==
  ASSUME KeyTypes, NEW p \in Processes, NEW word \in Words, Try(p, word) \/ Round(p, word)
  PROVE  /\ Searching(Place(p)) /\ Place(p)' = After(Place(p), word) /\ GetBytes(p, word)
         /\ \A q \in Processes \ {p} : Place(q)' = Place(q)
         /\ pair' = pair /\ e' = e
         /\ candidate' \in [Processes -> Odds \cup {Unset}]
         /\ passed' \in [Processes -> Nat] /\ primes' \in [Processes -> Seq(Odds)]
         /\ candidate'[p] # Unset => Len(primes'[p]) < 2
<1>1. CASE Try(p, word)
  <2>1. candidate[p] = Unset /\ Len(primes[p]) < 2 /\ GetBytes(p, word) /\ primes' = primes
        /\ pair' = pair /\ e' = e
    BY <1>1 DEF Try
  <2>2. Odd(word) \in Odds
    BY DEF Odds
  <2>3. /\ candidate' \in [Processes -> Odds \cup {Unset}] /\ passed' \in [Processes -> Nat]
        /\ candidate'[p] = IF PassesSmallPrimeCheck(Odd(word)) THEN Odd(word) ELSE Unset
        /\ passed'[p] = 0
        /\ \A q \in Processes \ {p} : candidate'[q] = candidate[q] /\ passed'[q] = passed[q]
    BY <1>1, <2>2 DEF Try, KeyTypes
  <2>4. Place(p)' = After(Place(p), word)
    BY <2>1, <2>3 DEF Place, After, AfterTry
  <2> QED
    BY <2>1, <2>3, <2>4 DEF Place, Searching, KeyTypes
<1>2. CASE Round(p, word)
  <2> DEFINE n == candidate[p]
             goes == PassesRound(n, Witness(word, n))
             last == passed[p] + 1 = Rounds
  <2>1. n # Unset /\ GetBytes(p, word) /\ pair' = pair /\ e' = e
    BY <1>2 DEF Round
  <2>2. n \in Odds /\ primes[p] \in Seq(Odds) /\ Len(primes[p]) < 2
    BY <2>1 DEF KeyTypes
  <2>3. Append(primes[p], n) \in Seq(Odds)
    BY <2>2, AppendProperties
  <2>4. /\ candidate' = [candidate EXCEPT ![p] = IF goes /\ ~last THEN n ELSE Unset]
        /\ passed' = [passed EXCEPT ![p] = IF goes /\ ~last THEN passed[p] + 1 ELSE 0]
        /\ primes' = [primes EXCEPT ![p] = IF goes /\ last THEN Append(primes[p], n) ELSE primes[p]]
    BY <1>2 DEF Round
  <2> HIDE DEF goes, last
  <2>5. /\ candidate' \in [Processes -> Odds \cup {Unset}] /\ passed' \in [Processes -> Nat]
        /\ primes' \in [Processes -> Seq(Odds)]
    BY <2>2, <2>3, <2>4 DEF KeyTypes
  <2>6. /\ candidate'[p] = (IF goes /\ ~last THEN n ELSE Unset)
        /\ passed'[p] = (IF goes /\ ~last THEN passed[p] + 1 ELSE 0)
        /\ primes'[p] = (IF goes /\ last THEN Append(primes[p], n) ELSE primes[p])
        /\ \A q \in Processes \ {p} : /\ candidate'[q] = candidate[q] /\ passed'[q] = passed[q]
                                      /\ primes'[q] = primes[q]
    BY <2>4 DEF KeyTypes
  <2>7. Place(p)' = After(Place(p), word)
    BY <2>1, <2>6 DEF Place, After, AfterRound, goes, last
  <2>8. candidate'[p] # Unset => Len(primes'[p]) < 2
    BY <2>2, <2>6
  <2> QED
    BY <2>1, <2>5, <2>6, <2>7, <2>8 DEF Place, Searching
<1> QED
  BY <1>1, <1>2

(* A word is drawn at the reader's place, and put there if it is new. *)
LEMMA StreamLemma ==
  ASSUME KeyTypes, NEW p \in Processes, NEW word \in Words, GetBytes(p, word)
  PROVE  /\ stream' \in Seq(Words) /\ drawn' \in [Processes -> Nat]
         /\ drawn'[p] = drawn[p] + 1 /\ \A q \in Processes \ {p} : drawn'[q] = drawn[q]
         /\ drawn'[p] <= Len(stream') /\ Len(stream) <= Len(stream') /\ stream'[drawn[p] + 1] = word
         /\ Len(stream') \in Nat /\ Len(stream) \in Nat
         /\ \A k \in 1 .. Len(stream) : stream'[k] = stream[k]
         /\ \/ Len(stream') = Len(stream) /\ drawn[p] < Len(stream)
            \/ Len(stream') = Len(stream) + 1 /\ drawn[p] = Len(stream)
<1>1. /\ drawn[p] \in Nat /\ stream \in Seq(Words) /\ drawn[p] <= Len(stream)
      /\ drawn \in [Processes -> Nat]
  BY DEF KeyTypes
<1>2. Len(stream) \in Nat
  BY <1>1, LenProperties
<1>3. /\ drawn' \in [Processes -> Nat] /\ drawn'[p] = drawn[p] + 1
      /\ \A q \in Processes \ {p} : drawn'[q] = drawn[q]
  BY <1>1 DEF GetBytes
<1>4. CASE drawn[p] < Len(stream)
  <2>1. stream' = stream /\ word = stream[drawn[p] + 1]
    BY <1>4 DEF GetBytes
  <2> QED
    BY <1>1, <1>2, <1>3, <1>4, <2>1
<1>5. CASE ~(drawn[p] < Len(stream))
  <2>1. stream' = Append(stream, word) /\ drawn[p] = Len(stream)
    BY <1>1, <1>2, <1>5 DEF GetBytes
  <2>2. /\ stream' \in Seq(Words) /\ Len(stream') = Len(stream) + 1
        /\ \A k \in 1 .. Len(stream) : stream'[k] = stream[k]
        /\ stream'[Len(stream) + 1] = word
    BY <1>1, <2>1, AppendProperties
  <2> QED
    BY <1>2, <1>3, <2>1, <2>2
<1> QED
  BY <1>4, <1>5

(* The invariant holds at the start, where nothing is drawn, *)
LEMMA InitKeyInv ==
  ASSUME KeyInit
  PROVE  KeyInv
<1> DEFINE f == [k \in Nat |-> Fresh]
<1>1. <<>> \in Seq(Words) /\ <<>> \in Seq(Odds) /\ Len(stream) = 0
  BY EmptySeq DEF KeyInit
<1>2. KeyTypes
  BY <1>1 DEF KeyInit, KeyTypes
<1>3. 0 .. Len(stream) - 1 = {}
  BY <1>1
<1>4. Course(f)
  BY <1>3 DEF KeyInit, Course, Place, Fresh
<1> HIDE DEF f
<1> QED
  BY <1>2, <1>4 DEF KeyInv

(* ... after a draw, whose word everybody finds, *)
LEMMA DrawKeyInv ==
  ASSUME KeyInv, NEW p \in Processes, NEW word \in Words, Try(p, word) \/ Round(p, word)
  PROVE  KeyInv'
<1> DEFINE l == Len(stream)
<1>1. KeyTypes
  BY DEF KeyInv
<1>2. PICK f : Course(f)
  BY DEF KeyInv
<1>3. /\ Searching(Place(p)) /\ Place(p)' = After(Place(p), word) /\ GetBytes(p, word)
      /\ \A q \in Processes \ {p} : Place(q)' = Place(q)
      /\ pair' = pair /\ e' = e
      /\ candidate' \in [Processes -> Odds \cup {Unset}]
      /\ passed' \in [Processes -> Nat] /\ primes' \in [Processes -> Seq(Odds)]
      /\ candidate'[p] # Unset => Len(primes'[p]) < 2
  BY <1>1, DrawLemma
<1>4. /\ stream' \in Seq(Words) /\ drawn' \in [Processes -> Nat]
      /\ drawn'[p] = drawn[p] + 1 /\ \A q \in Processes \ {p} : drawn'[q] = drawn[q]
      /\ drawn'[p] <= Len(stream') /\ l <= Len(stream') /\ stream'[drawn[p] + 1] = word
      /\ Len(stream') \in Nat /\ l \in Nat
      /\ \A k \in 1 .. l : stream'[k] = stream[k]
      /\ \/ Len(stream') = l /\ drawn[p] < l
         \/ Len(stream') = l + 1 /\ drawn[p] = l
  BY <1>1, <1>3, StreamLemma
<1>5. KeyTypes'
  <2>1. ASSUME NEW q \in Processes
        PROVE  /\ drawn'[q] <= Len(stream')
               /\ candidate'[q] # Unset => Len(primes'[q]) < 2
               /\ pair'[q] # Unset => /\ ~Searching(Place(q))'
                                      /\ pair'[q] = Paired(q)'
    <3>1. CASE q = p
      <4>1. pair[p] = Unset
        BY <1>1, <1>3 DEF KeyTypes
      <4> QED
        BY <1>3, <1>4, <3>1, <4>1
    <3>2. CASE q # p
      <4>1. /\ drawn'[q] = drawn[q] /\ candidate'[q] = candidate[q] /\ primes'[q] = primes[q]
            /\ Place(q)' = Place(q)
        BY <1>3, <1>4, <3>2 DEF Place
      <4>2. drawn[q] <= l /\ drawn[q] \in Nat
        BY <1>1 DEF KeyTypes
      <4>3. drawn'[q] <= Len(stream')
        BY <1>4, <4>1, <4>2
      <4>4. candidate'[q] # Unset => Len(primes'[q]) < 2
        BY <1>1, <4>1 DEF KeyTypes
      <4>5. pair'[q] # Unset => ~Searching(Place(q))'
        BY <1>1, <1>3, <4>1 DEF KeyTypes, Searching
      <4>6. pair'[q] # Unset => pair'[q] = Paired(q)'
        BY <1>1, <1>3, <4>1, PairedFrame DEF KeyTypes
      <4> QED
        BY <4>3, <4>4, <4>5, <4>6
    <3> QED
      BY <3>1, <3>2
  <2> QED
    <3>1. DOMAIN pair' = Processes /\ pair' = [q \in Processes |-> pair'[q]]
      BY <1>1, <1>3 DEF KeyTypes
    <3> QED
      BY <1>3, <1>4, <2>1, <3>1 DEF KeyTypes
<1>6. \E g : Course(g)'
  <2>1. PICK g : \A k \in Nat : g[k] = IF k <= l THEN f[k] ELSE After(f[l], word)
    <3> DEFINE h == [k \in Nat |-> IF k <= l THEN f[k] ELSE After(f[l], word)]
    <3>1. \A k \in Nat : h[k] = IF k <= l THEN f[k] ELSE After(f[l], word)
      OBVIOUS
    <3> HIDE DEF h
    <3> QED
      BY <3>1
  <2>2. /\ f[0] = Fresh
        /\ \A k \in 0 .. l - 1 : f[k + 1] = After(f[k], stream[k + 1]) /\ Searching(f[k])
        /\ \A q \in Processes : Place(q) = f[drawn[q]]
    BY <1>2 DEF Course
  <2>3. \A q \in Processes : drawn[q] \in Nat /\ drawn[q] <= l
    BY <1>1 DEF KeyTypes
  <2>4. g[0] = Fresh
    BY <1>4, <2>1, <2>2
  <2>5. ASSUME NEW k \in 0 .. Len(stream') - 1
        PROVE  g[k + 1] = After(g[k], stream'[k + 1]) /\ Searching(g[k])
    <3>1. CASE k < l
      <4>1. k \in 0 .. l - 1 /\ k + 1 \in 1 .. l /\ k \in Nat /\ k + 1 \in Nat /\ k <= l /\ k + 1 <= l
        BY <1>4, <3>1
      <4>2. stream'[k + 1] = stream[k + 1] /\ g[k] = f[k] /\ g[k + 1] = f[k + 1]
        BY <1>4, <2>1, <4>1
      <4> QED
        BY <2>2, <4>1, <4>2
    <3>2. CASE ~(k < l)
      <4>1. k = l /\ drawn[p] = l /\ ~(l + 1 <= l) /\ l + 1 \in Nat
        BY <1>4, <3>2
      <4>2. g[l] = f[l] /\ g[l + 1] = After(f[l], word)
        BY <1>4, <2>1, <4>1
      <4>3. Searching(f[l]) /\ stream'[l + 1] = word
        BY <1>3, <1>4, <2>2, <4>1
      <4> QED
        BY <4>1, <4>2, <4>3
    <3> QED
      BY <3>1, <3>2
  <2>6. ASSUME NEW q \in Processes
        PROVE  Place(q)' = g[drawn'[q]]
    <3>1. CASE q # p
      <4>1. Place(q)' = f[drawn[q]]
        BY <1>3, <2>2, <3>1
      <4>2. g[drawn[q]] = f[drawn[q]]
        BY <2>1, <2>3
      <4>3. drawn'[q] = drawn[q]
        BY <1>4, <3>1
      <4> QED
        BY <4>1, <4>2, <4>3
    <3>2. CASE q = p /\ drawn[p] < l
      <4>1. drawn[p] \in 0 .. l - 1 /\ drawn[p] + 1 \in 1 .. l /\ drawn[p] + 1 \in Nat /\ drawn[p] + 1 <= l
        BY <1>4, <2>3, <3>2
      <4>2. word = stream[drawn[p] + 1]
        BY <1>4, <4>1
      <4>3. f[drawn[p] + 1] = After(f[drawn[p]], word)
        BY <2>2, <4>1, <4>2
      <4> QED
        BY <1>3, <1>4, <2>1, <2>2, <3>2, <4>1, <4>3
    <3>3. CASE q = p /\ drawn[p] = l
      <4>1. ~(l + 1 <= l) /\ l + 1 \in Nat
        BY <1>4
      <4> QED
        BY <1>3, <1>4, <2>1, <2>2, <3>3, <4>1
    <3> QED
      BY <1>4, <3>1, <3>2, <3>3
  <2>7. Course(g)'
    BY <2>4, <2>5, <2>6 DEF Course
  <2> QED
    BY <2>7
<1> QED
  BY <1>5, <1>6 DEF KeyInv

(* ... after a pair has been made, and when a client begins again. *)
LEMMA OtherKeyInv ==
  ASSUME KeyInv, NEW p \in Processes, Finish(p) \/ Restart(p)
  PROVE  KeyInv'
<1>1. KeyTypes
  BY DEF KeyInv
<1>2. PICK f : Course(f)
  BY DEF KeyInv
<1>3. stream' = stream /\ e' = e
  BY DEF Finish, Restart
<1>4. CASE Finish(p)
  <2>1. /\ UNCHANGED <<drawn, candidate, passed, primes>>
        /\ Len(primes[p]) = 2
        /\ pair' = [pair EXCEPT ![p] = Paired(p)]
    BY <1>4 DEF Finish, Paired
  <2>2. /\ pair'[p] = Paired(p) /\ \A q \in Processes \ {p} : pair'[q] = pair[q]
        /\ DOMAIN pair' = Processes /\ pair' = [q \in Processes |-> pair'[q]]
    BY <1>1, <2>1 DEF KeyTypes
  <2>3. ~Searching(Place(p))
    <3>1. ~(Len(primes[p]) < 2)
      BY <2>1
    <3>2. candidate[p] # Unset => Len(primes[p]) < 2
      BY <1>1 DEF KeyTypes
    <3>3. Place(p).candidate = Unset /\ Place(p).primes = primes[p]
      BY <3>1, <3>2 DEF Place
    <3> QED
      BY <3>1, <3>3 DEF Searching
  <2>4. \A q \in Processes : Place(q)' = Place(q) /\ Paired(q)' = Paired(q)
    BY <1>3, <2>1, PairedFrame DEF Place
  <2>5. ASSUME NEW q \in Processes, pair'[q] # Unset
        PROVE  ~Searching(Place(q))' /\ pair'[q] = Paired(q)'
    BY <1>1, <2>2, <2>3, <2>4, <2>5 DEF KeyTypes, Searching
  <2>6. KeyTypes'
    BY <1>1, <1>3, <2>1, <2>2, <2>5 DEF KeyTypes
  <2>7. Course(f)'
    BY <1>2, <1>3, <2>1, <2>4 DEF Course
  <2> QED
    BY <2>6, <2>7 DEF KeyInv
<1>5. CASE Restart(p)
  <2>1. /\ drawn' = [drawn EXCEPT ![p] = 0] /\ candidate' = [candidate EXCEPT ![p] = Unset]
        /\ passed' = [passed EXCEPT ![p] = 0] /\ primes' = [primes EXCEPT ![p] = <<>>]
        /\ pair' = [pair EXCEPT ![p] = Unset]
    BY <1>5 DEF Restart
  <2>2. <<>> \in Seq(Odds) /\ Len(<<>>) = 0
    BY EmptySeq
  <2>3. /\ drawn' \in [Processes -> Nat] /\ candidate' \in [Processes -> Odds \cup {Unset}]
        /\ passed' \in [Processes -> Nat] /\ primes' \in [Processes -> Seq(Odds)]
        /\ DOMAIN pair' = Processes /\ pair' = [q \in Processes |-> pair'[q]]
    BY <1>1, <2>1, <2>2 DEF KeyTypes
  <2>4. /\ drawn'[p] = 0 /\ candidate'[p] = Unset /\ passed'[p] = 0 /\ primes'[p] = <<>>
        /\ pair'[p] = Unset
        /\ \A q \in Processes \ {p} :
             /\ drawn'[q] = drawn[q] /\ candidate'[q] = candidate[q] /\ passed'[q] = passed[q]
             /\ primes'[q] = primes[q] /\ pair'[q] = pair[q]
    BY <1>1, <2>1 DEF KeyTypes
  <2>5. Place(p)' = Fresh /\ \A q \in Processes \ {p} : Place(q)' = Place(q) /\ Paired(q)' = Paired(q)
    BY <1>3, <2>4, PairedFrame DEF Place, Fresh
  <2>6. Len(stream) \in Nat /\ 0 <= Len(stream)
    BY <1>1, LenProperties DEF KeyTypes
  <2>7. ASSUME NEW q \in Processes
        PROVE  /\ drawn'[q] <= Len(stream')
               /\ candidate'[q] # Unset => Len(primes'[q]) < 2
               /\ pair'[q] # Unset => ~Searching(Place(q))' /\ pair'[q] = Paired(q)'
    <3>1. CASE q = p
      BY <1>3, <2>4, <2>6, <3>1
    <3>2. CASE q # p
      BY <1>1, <1>3, <2>4, <2>5, <3>2 DEF KeyTypes, Searching
    <3> QED
      BY <3>1, <3>2
  <2>8. KeyTypes'
    BY <1>1, <1>3, <2>3, <2>7 DEF KeyTypes
  <2>9. \A q \in Processes : Place(q)' = f[drawn'[q]]
    BY <1>2, <2>4, <2>5 DEF Course
  <2>10. Course(f)'
    BY <1>2, <1>3, <2>9 DEF Course
  <2> QED
    BY <2>8, <2>10 DEF KeyInv
<1> QED
  BY <1>4, <1>5

(* The invariant is inductive. *)
LEMMA NextKeyInv ==
  ASSUME KeyInv, [KeyNext]_keyVars
  PROVE  KeyInv'
<1>1. CASE UNCHANGED keyVars
  <2>1. PICK f : Course(f)
    BY DEF KeyInv
  <2>2. \A p \in Processes : Place(p)' = Place(p) /\ Paired(p)' = Paired(p)
    BY <1>1, PairedFrame DEF keyVars, Place
  <2>3. Course(f)'
    BY <1>1, <2>1, <2>2 DEF keyVars, Course
  <2>4. KeyTypes'
    BY <1>1, <2>2 DEF keyVars, KeyTypes, KeyInv, Searching
  <2> QED
    BY <2>3, <2>4 DEF KeyInv
<1> QED
  BY <1>1, DrawKeyInv, OtherKeyInv DEF KeyNext

(* Two finished pairs were made at the same place of the stream. *)
LEMMA KeyInvAgree ==
  ASSUME KeyInv
  PROVE  KeysAgree
<1> SUFFICES ASSUME NEW p \in Processes, NEW q \in Processes, pair[p] # Unset, pair[q] # Unset
             PROVE  pair[p] = pair[q]
  BY DEF KeysAgree
<1>1. PICK f : Course(f)
  BY DEF KeyInv
<1>2. Len(stream) \in Nat
  BY LenProperties DEF KeyInv, KeyTypes
<1>3. ASSUME NEW r \in Processes, pair[r] # Unset
      PROVE  drawn[r] = Len(stream)
  <2>1. drawn[r] \in Nat /\ drawn[r] <= Len(stream) /\ ~Searching(f[drawn[r]])
    BY <1>1, <1>3 DEF KeyInv, KeyTypes, Course
  <2>2. drawn[r] \notin 0 .. Len(stream) - 1
    BY <1>1, <2>1 DEF Course
  <2> QED
    BY <1>2, <2>1, <2>2
<1>4. Place(p) = Place(q)
  BY <1>1, <1>3 DEF Course
<1>5. primes[p] = primes[q]
  BY <1>4 DEF Place
<1> QED
  BY <1>5 DEF KeyInv, KeyTypes, Paired

(* Clients with one passphrase have one pair, in whichever order they make *)
(* it and however often they begin again, and whatever the hash is.        *)
THEOREM KeysCorrect == KeySpec => []KeysAgree
  BY InitKeyInv, NextKeyInv, KeyInvAgree, PTL DEF KeySpec

-----------------------------------------------------------------------------
(* A form's answer, from the entries to the getters.                       *)

(* The function inside FlattenSeq. *)
Flattened(seqs) ==
    CHOOSE flatten : flatten = [i \in 1 .. Len(seqs) |->
        IF i = 1 THEN seqs[i] ELSE flatten[i - 1] \o seqs[i]]

(* Parts of which all but one are empty flatten to that one. *)
LEMMA FlattenOne ==
  ASSUME NEW T, NEW seqs \in Seq(Seq(T)), NEW k \in 1 .. Len(seqs),
         \A j \in 1 .. Len(seqs) : j # k => seqs[j] = <<>>
  PROVE  FlattenSeq(seqs) = seqs[k]
<1> DEFINE n == Len(seqs)
           V == Seq(T)
           step == [i \in 1 .. n - 1 |-> [v \in V |-> v \o seqs[i + 1]]]
           Fits(f) == f = [i \in 1 .. n |-> IF i = 1 THEN seqs[i] ELSE f[i - 1] \o seqs[i]]
           g == Flattened(seqs)
<1>1. n \in Nat /\ n >= 1 /\ n - 1 \in Nat /\ k \in 1 .. n
  <2>1. n \in Nat
    BY LenProperties
  <2> QED
    BY <2>1
<1>2. \A i \in 1 .. n : seqs[i] \in V
  BY ElementOfSeq
<1>3. FlattenSeq(seqs) = g[n]
  BY <1>1 DEF FlattenSeq, Flattened
<1>4. step \in [1 .. n - 1 -> [V -> V]]
  <2> SUFFICES ASSUME NEW i \in 1 .. n - 1, NEW v \in V PROVE v \o seqs[i + 1] \in V
    OBVIOUS
  <2>1. i + 1 \in 1 .. n
    BY <1>1
  <2> QED
    BY <1>2, <2>1, ConcatProperties
<1>5. PICK f \in [0 .. n - 1 -> V] : RecursUpto(f, n - 1, seqs[1], step)
  <2>1. 1 \in 1 .. n
    BY <1>1
  <2> HIDE DEF step, n, V
  <2> QED
    BY <1>1, <1>2, <1>4, <2>1, RecursionUpto
<1>6. Fits([i \in 1 .. n |-> f[i - 1]])
  <2> DEFINE h == [i \in 1 .. n |-> f[i - 1]]
  <2> SUFFICES ASSUME NEW i \in 1 .. n
               PROVE  h[i] = IF i = 1 THEN seqs[i] ELSE h[i - 1] \o seqs[i]
    OBVIOUS
  <2>1. CASE i = 1
    <3>1. i - 1 = 0
      BY <2>1
    <3> QED
      BY <1>5, <2>1, <3>1 DEF RecursUpto
  <2>2. CASE i # 1
    <3>1. i - 1 \in 1 .. n - 1 /\ (i - 1) + 1 = i /\ (i - 1) - 1 \in 0 .. n - 1 /\ i - 1 \in 1 .. n
      BY <1>1, <2>2
    <3>2. f[i - 1] = step[i - 1][f[(i - 1) - 1]]
      BY <1>5, <3>1 DEF RecursUpto
    <3>3. f[(i - 1) - 1] \in V
      <4> HIDE DEF V
      <4> QED
        BY <3>1
    <3>4. f[i - 1] = f[(i - 1) - 1] \o seqs[i]
      BY <3>1, <3>2, <3>3
    <3>5. h[i - 1] = f[(i - 1) - 1]
      BY <3>1
    <3> QED
      BY <2>2, <3>4, <3>5
  <2> QED
    BY <2>1, <2>2
<1>7. Fits(g)
  <2>1. g = CHOOSE h : Fits(h)
    BY DEF Flattened
  <2> HIDE DEF Fits, g
  <2> QED
    BY <1>6, <2>1
<1> HIDE DEF g, n, step
<1>8. g[1] = seqs[1] /\ \A i \in 1 .. n : i # 1 => g[i] = g[i - 1] \o seqs[i]
  <2>1. 1 \in 1 .. n
    BY <1>1
  <2> QED
    BY <1>7, <2>1
<1> DEFINE S == {i \in Nat : i + 1 <= n => g[i + 1] = IF i + 1 < k THEN <<>> ELSE seqs[k]}
<1>9. 0 \in S
  <2>1. 0 + 1 = 1 /\ 1 \in 1 .. n
    BY <1>1
  <2>2. CASE k = 1
    BY <1>8, <2>1, <2>2
  <2>3. CASE k # 1
    <3>1. seqs[1] = <<>> /\ 1 < k
      BY <1>1, <2>1, <2>3 DEF n
    <3> QED
      BY <1>8, <2>1, <3>1
  <2> QED
    BY <2>2, <2>3
<1>10. ASSUME NEW i \in Nat, i \in S PROVE i + 1 \in S
  <2> SUFFICES ASSUME (i + 1) + 1 <= n
               PROVE  g[(i + 1) + 1] = IF (i + 1) + 1 < k THEN <<>> ELSE seqs[k]
    OBVIOUS
  <2> DEFINE j == i + 1
  <2>1. j + 1 \in 1 .. n /\ j \in 1 .. n /\ j + 1 # 1 /\ (j + 1) - 1 = j /\ j <= n
    BY <1>1
  <2>2. g[j] = IF j < k THEN <<>> ELSE seqs[k]
    BY <1>10, <2>1
  <2>3. g[j + 1] = g[j] \o seqs[j + 1]
    BY <1>8, <2>1
  <2>4. seqs[k] \in V /\ <<>> \in V
    <3>1. seqs[k] \in V
      BY <1>1, <1>2
    <3> QED
      BY <3>1, EmptySeq
  <2> HIDE DEF j
  <2>5. CASE j + 1 < k
    <3>1. g[j] = <<>> /\ seqs[j + 1] = <<>>
      BY <1>1, <2>1, <2>2, <2>5 DEF n
    <3>2. <<>> \o <<>> = <<>>
      BY <2>4, ConcatEmptySeq
    <3> QED
      BY <2>3, <2>5, <3>1, <3>2 DEF j
  <2>6. CASE j + 1 = k
    <3>1. g[j] = <<>>
      BY <1>1, <2>1, <2>2, <2>6
    <3>2. <<>> \o seqs[k] = seqs[k]
      BY <2>4, ConcatEmptySeq
    <3> QED
      BY <2>1, <2>3, <2>6, <3>1, <3>2 DEF j
  <2>7. CASE j + 1 > k
    <3>1. g[j] = seqs[k] /\ seqs[j + 1] = <<>>
      BY <1>1, <2>1, <2>2, <2>7 DEF n
    <3>2. seqs[k] \o <<>> = seqs[k]
      BY <2>4, ConcatEmptySeq
    <3>3. ~(j + 1 < k)
      BY <1>1, <2>1, <2>7
    <3> QED
      BY <2>3, <3>1, <3>2, <3>3 DEF j
  <2> QED
    BY <1>1, <2>1, <2>5, <2>6, <2>7
<1> HIDE DEF S
<1>11. Nat \subseteq S
  BY <1>9, <1>10, Induction
<1>12. (n - 1) + 1 = n /\ ~(n < k) /\ n - 1 \in S
  BY <1>1, <1>11
<1> QED
  BY <1>1, <1>3, <1>12 DEF S

(* What the parser reads under the name of one control only. *)
LEMMA FormOne ==
  ASSUME NEW n \in Nat, DOMAIN fields = 1 .. n, NEW i \in 1 .. n, fields[i].inForm,
         NEW name, fields[i].id = name,
         \A j \in 1 .. n : j # i => fields[j].id # name \/ ~fields[j].inForm,
         \A j \in 1 .. n : entry[j] \in Seq(ValueWords)
  PROVE  Form(name) = entry[i]
<1> DEFINE seqs == [j \in 1 .. n |-> IF fields[j].id = name /\ fields[j].inForm THEN entry[j] ELSE <<>>]
<1>1. <<>> \in Seq(ValueWords)
  BY EmptySeq
<1>2. seqs \in [1 .. n -> Seq(ValueWords)]
  BY <1>1
<1>3. seqs \in Seq(Seq(ValueWords))
  BY <1>2, SeqDef
<1>4. Len(seqs) = n
  BY <1>2, <1>3, LenProperties
<1>5. seqs[i] = entry[i] /\ \A j \in 1 .. n : j # i => seqs[j] = <<>>
  OBVIOUS
<1>6. Form(name) = FlattenSeq(seqs)
  BY DEF Form
<1> HIDE DEF seqs
<1> QED
  BY <1>3, <1>4, <1>5, <1>6, FlattenOne

(* Get finds the words of the only control of that name. *)
LEMMA GetOne ==
  ASSUME NEW name, Form(name) \in Seq(ValueWords)
  PROVE  /\ Form(name) = <<>> => Get(name) = ""
         /\ \A word \in ValueWords : Form(name) = <<word>> => Get(name) = word
<1>1. ASSUME NEW word \in ValueWords, Form(name) = <<word>> PROVE Get(name) = word
  <2>1. <<word>> # <<>> /\ Head(<<word>>) = word
    OBVIOUS
  <2> QED
    BY <1>1, <2>1 DEF Get
<1> QED
  BY <1>1 DEF Get

(* The last value under a name. *)
LEMMA ValueAt ==
  ASSUME NEW r, NEW i \in Nat, i \in DOMAIN r.pairs, NEW name,
         r.pairs[i][1] = name, \A j \in DOMAIN r.pairs : j # i => r.pairs[j][1] # name
  PROVE  Value(r, name) = r.pairs[i][2]
<1>1. {j \in DOMAIN r.pairs : r.pairs[j][1] = name} = {i}
  OBVIOUS
<1>2. Max({i}) = i
  BY DEF Max
<1> QED
  BY <1>1, <1>2 DEF Value

(* Value of a name that no pair has is nil. *)
LEMMA ValueNone ==
  ASSUME NEW r, NEW name, \A j \in DOMAIN r.pairs : r.pairs[j][1] # name
  PROVE  Value(r, name) = Absent
  BY DEF Value

-----------------------------------------------------------------------------
(* A sequence of two. *)
LEMMA Two ==
  ASSUME NEW S, NEW a \in S, NEW b \in S
  PROVE  <<a, b>> \in Seq(S)
  OBVIOUS

(* The sequences that are entered are sequences of words. *)
LEMMA WordSeqs ==
  /\ <<>> \in Seq(ValueWords)
  /\ \A word \in ValueWords : <<word>> \in Seq(ValueWords)
  /\ <<"a", "b">> \in Seq(ValueWords)
<1>1. "a" \in ValueWords /\ "b" \in ValueWords
  BY DEF ValueWords
<1> QED
  BY <1>1, EmptySeq, Singleton, Two

(* A value is there. *)
LEMMA ValueIsThere ==
  ASSUME NEW type \in ValueTypes, NEW words \in Seq(ValueWords)
  PROVE  Is(type, words) # Absent /\ Is(type, words).type = type
<1>1. Is(type, words) \in [type : ValueTypes, words : Seq(ValueWords)]
  BY DEF Is
<1> QED
  BY <1>1, FormAssumption DEF Is

(* What the builder's methods add. *)
BuilderFields ==
    [kind : Kinds, id : Ids, value : {Absent}, inForm : {TRUE}]
        \cup [kind : {"hidden"}, id : Ids, value : Presets, inForm : {TRUE}]

(* The type that goes with a field. *)
TypeFor(field) == IF field.kind = "hidden" THEN field.value.type ELSE TypeOfKind(field.kind)

(* What is entered in a field of the builder. *)
LEMMA BuilderEntry ==
  ASSUME NEW f \in BuilderFields, NEW ent \in Entries(f)
  PROVE  /\ f.kind = "hidden" => ent = HiddenAttribute(f.value)
         /\ f.kind \in TextKinds => ent = <<>> \/ ent = <<"">> \/ ent = <<"text">> \/ ent = <<"on">>
         /\ f.kind \in {"number", "slider"} => ent = <<"">> \/ ent = <<"0">> \/ ent = <<"7">>
         /\ f.kind \in {"checkbox", "switch"} => ent = <<>> \/ ent = <<"on">>
         /\ f.kind = "checkbox-group" => ent = <<>> \/ ent = <<"a">> \/ ent = <<"a", "b">>
         /\ ent \in Seq(ValueWords)
<1>1. f.kind \in Kinds \/ (f.kind = "hidden" /\ f.value \in Presets)
  BY DEF BuilderFields
<1>2. /\ <<>> \in Seq(ValueWords) /\ <<"">> \in Seq(ValueWords) /\ <<"text">> \in Seq(ValueWords)
      /\ <<"on">> \in Seq(ValueWords) /\ <<"0">> \in Seq(ValueWords) /\ <<"7">> \in Seq(ValueWords)
      /\ <<"a">> \in Seq(ValueWords) /\ <<"a", "b">> \in Seq(ValueWords)
  BY WordSeqs DEF ValueWords
<1>3. CASE f.kind = "hidden"
  <2>1. ent = HiddenAttribute(f.value)
    BY <1>3 DEF Entries
  <2>2. f.value \in Presets
    BY <1>1, <1>3 DEF Kinds, TextKinds
  <2>3. HiddenAttribute(f.value) = <<"text">> \/ HiddenAttribute(f.value) = <<"">>
    <3>1. CASE f.value = Is("string", <<"text">>)
      <4>1. f.value.type = "string" /\ f.value.words = <<"text">>
        BY <3>1 DEF Is
      <4> QED
        BY <4>1 DEF HiddenAttribute
    <3>2. CASE f.value \in {Is("int", <<"7">>), Is("float", <<"7">>), Is("bool", <<"true">>)}
      <4>1. f.value.type # "string"
        BY <3>2 DEF Is
      <4> QED
        BY <4>1 DEF HiddenAttribute
    <3> QED
      BY <2>2, <3>1, <3>2 DEF Presets
  <2> QED
    BY <1>2, <1>3, <2>1, <2>3 DEF TextKinds
<1>4. CASE f.kind \in TextKinds
  <2>1. ent = <<>> \/ ent = <<"">> \/ ent = <<"text">> \/ ent = <<"on">>
    BY <1>4 DEF Entries, TextKinds
  <2> QED
    BY <1>2, <1>4, <2>1 DEF TextKinds
<1>5. CASE f.kind \in {"number", "slider"}
  <2>1. ent = <<"">> \/ ent = <<"0">> \/ ent = <<"7">>
    BY <1>5 DEF Entries
  <2> QED
    BY <1>2, <1>5, <2>1 DEF TextKinds
<1>6. CASE f.kind \in {"checkbox", "switch"}
  <2>1. ent = <<>> \/ ent = <<"on">>
    BY <1>6 DEF Entries
  <2> QED
    BY <1>2, <1>6, <2>1 DEF TextKinds
<1>7. CASE f.kind = "checkbox-group"
  <2>1. ent = <<>> \/ ent = <<"a">> \/ ent = <<"a", "b">>
    BY <1>7 DEF Entries
  <2> QED
    BY <1>2, <1>7, <2>1 DEF TextKinds
<1> QED
  BY <1>1, <1>3, <1>4, <1>5, <1>6, <1>7 DEF Kinds

(* The getter of a field's type gets out of the parsed value what was      *)
(* meant; of a hidden field only if it holds a string.                     *)
LEMMA ParsedAsMeant ==
  ASSUME NEW f \in BuilderFields, NEW ent \in Entries(f), Form(f.id) = ent,
         f.kind = "hidden" => f.value.type = "string"
  PROVE  Getter(TypeFor(f), ParseFieldValue(f.kind, f.id)) = Meant(f, ent)
<1> DEFINE word == Get(f.id)
           parsed == ParseFieldValue(f.kind, f.id)
<1>1. f.kind \in Kinds \/ (f.kind = "hidden" /\ f.value \in Presets)
  BY DEF BuilderFields
<1>2. /\ ent \in Seq(ValueWords) /\ (ent = <<>> => word = "")
      /\ \A w \in ValueWords : ent = <<w>> => word = w
  BY BuilderEntry, GetOne
<1>3. \A t \in ValueTypes, w \in ValueWords : Is(t, <<w>>) # Absent /\ Is(t, <<w>>).type = t
  BY WordSeqs, ValueIsThere
<1>4. /\ "" \in ValueWords /\ "text" \in ValueWords /\ "on" \in ValueWords /\ "0" \in ValueWords
      /\ "7" \in ValueWords /\ "true" \in ValueWords /\ "false" \in ValueWords
      /\ "string" \in ValueTypes /\ "number" \in ValueTypes /\ "bool" \in ValueTypes /\ "list" \in ValueTypes
  BY DEF ValueWords, ValueTypes
<1> HIDE DEF word
<1>5. CASE f.kind = "hidden"
  <2>1. ent = HiddenAttribute(f.value) /\ f.value \in Presets
    BY <1>1, <1>5, BuilderEntry DEF Kinds, TextKinds
  <2>2. parsed = Is("string", <<word>>)
    BY <1>5 DEF ParseFieldValue, word
  <2>3. f.value = Is("string", <<"text">>)
    <3>1. f.value.type = "string"
      BY <1>5
    <3> QED
      BY <2>1, <3>1 DEF Presets, Is
  <2>4. ent = <<"text">>
    BY <2>1, <2>3 DEF HiddenAttribute, Is
  <2>5. parsed = f.value
    BY <1>2, <1>4, <2>2, <2>3, <2>4
  <2>6. TypeFor(f) = "string" /\ f.value.type = "string"
    BY <1>5, <2>3 DEF TypeFor, Is
  <2>7. f.value # Absent
    BY <1>3, <1>4, <2>3
  <2>8. Zero("string").type = "string"
    BY DEF Zero, Is
  <2>9. Getter("string", f.value) = f.value
    BY <2>6, <2>7, <2>8 DEF Getter
  <2>10. Meant(f, ent) = f.value
    <3>1. Meant(f, ent) = Is("string", f.value.words)
      BY <1>5, <2>6, <2>8 DEF Meant
    <3> QED
      BY <2>3, <3>1 DEF Is
  <2> QED
    BY <2>5, <2>6, <2>9, <2>10
<1>6. CASE f.kind \in TextKinds
  <2>1. parsed = Is("string", <<word>>) /\ TypeFor(f) = "string"
    BY <1>6 DEF ParseFieldValue, TypeFor, TypeOfKind, TextKinds, word
  <2>2. Meant(f, ent) = IF ent = <<>> THEN Zero("string") ELSE Is("string", ent)
    BY <1>6 DEF Meant, TextKinds
  <2>3. ent = <<>> \/ ent = <<word>>
    <3>1. ent = <<>> \/ ent = <<"">> \/ ent = <<"text">> \/ ent = <<"on">>
      BY <1>6, BuilderEntry
    <3> QED
      BY <1>2, <1>4, <3>1
  <2>4. Zero("string") = Is("string", <<"">>) /\ Zero("string").type = "string"
    BY DEF Zero, Is
  <2>5. word \in ValueWords
    <3>1. ent = <<>> \/ ent = <<"">> \/ ent = <<"text">> \/ ent = <<"on">>
      BY <1>6, BuilderEntry
    <3> QED
      BY <1>2, <1>4, <3>1
  <2>6. parsed # Absent /\ parsed.type = "string"
    BY <1>3, <1>4, <2>1, <2>5
  <2>7. Getter("string", parsed) = parsed
    BY <2>4, <2>6 DEF Getter
  <2>8. ent # <<>> => <<word>> = ent
    BY <2>3
  <2> QED
    BY <1>2, <2>1, <2>2, <2>4, <2>7, <2>8
<1>7. CASE f.kind \in {"number", "slider"}
  <2>1. parsed = Float(word) /\ TypeFor(f) = "float"
    BY <1>7 DEF ParseFieldValue, TypeFor, TypeOfKind, TextKinds, word
  <2>2. Meant(f, ent) = IF ent = <<"">> THEN Zero("float") ELSE Is("number", ent)
    BY <1>7 DEF Meant
  <2>3. Zero("float") = Is("number", <<"0">>) /\ Zero("float").type = "number"
    BY DEF Zero, Is
  <2>4. PICK w \in {"", "0", "7"} : ent = <<w>> /\ word = w
    <3>1. ent = <<"">> \/ ent = <<"0">> \/ ent = <<"7">>
      BY <1>7, BuilderEntry
    <3> QED
      BY <1>2, <1>4, <3>1
  <2>5. parsed = Is("number", <<IF w = "" THEN "0" ELSE w>>)
    BY <2>1, <2>4 DEF Float
  <2>6. parsed # Absent /\ parsed.type = "number"
    <3>1. parsed = Is("number", <<"0">>) \/ parsed = Is("number", <<"7">>)
      <4>1. CASE w = ""
        BY <2>5, <4>1
      <4>2. CASE w # ""
        BY <2>4, <2>5, <4>2
      <4> QED
        BY <4>1, <4>2
    <3>2. /\ Is("number", <<"0">>) # Absent /\ Is("number", <<"0">>).type = "number"
          /\ Is("number", <<"7">>) # Absent /\ Is("number", <<"7">>).type = "number"
      BY <1>3, <1>4
    <3> HIDE DEF parsed
    <3> QED
      BY <3>1, <3>2
  <2>7. (ent = <<"">>) = (w = "")
    <3>1. \A c, d : <<c>> = <<d>> => c = d
      OBVIOUS
    <3>2. ent = <<"">> => w = ""
      BY <2>4, <3>1
    <3> QED
      BY <2>4, <3>2
  <2>8. Getter("float", parsed) = parsed
    BY <2>3, <2>6 DEF Getter
  <2> QED
    BY <2>1, <2>2, <2>3, <2>4, <2>5, <2>7, <2>8
<1>8. CASE f.kind \in {"checkbox", "switch"}
  <2>1. /\ parsed = Is("bool", <<IF word \in {"on", "true"} THEN "true" ELSE "false">>)
        /\ TypeFor(f) = "bool"
    BY <1>8 DEF ParseFieldValue, TypeFor, TypeOfKind, TextKinds, word
  <2>2. Meant(f, ent) = Is("bool", <<IF ent = <<>> THEN "false" ELSE "true">>)
    BY <1>8 DEF Meant
  <2>3. Zero("bool").type = "bool"
    BY DEF Zero, Is
  <2>4. parsed # Absent /\ parsed.type = "bool"
    <3>1. parsed = Is("bool", <<"true">>) \/ parsed = Is("bool", <<"false">>)
      BY <2>1
    <3>2. /\ Is("bool", <<"true">>) # Absent /\ Is("bool", <<"true">>).type = "bool"
          /\ Is("bool", <<"false">>) # Absent /\ Is("bool", <<"false">>).type = "bool"
      BY <1>3, <1>4
    <3> HIDE DEF parsed
    <3> QED
      BY <3>1, <3>2
  <2>5. (word \in {"on", "true"}) = (ent # <<>>)
    <3>1. ent = <<>> \/ ent = <<"on">>
      BY <1>8, BuilderEntry
    <3>2. CASE ent = <<>>
      <4>1. word = ""
        BY <1>2, <3>2
      <4>2. ~(word \in {"on", "true"})
        BY <4>1
      <4> QED
        BY <3>2, <4>2
    <3>3. CASE ent = <<"on">>
      <4>1. word = "on"
        BY <1>2, <1>4, <3>3
      <4>2. <<"on">> # <<>>
        OBVIOUS
      <4> QED
        BY <3>3, <4>1, <4>2
    <3> QED
      BY <3>1, <3>2, <3>3
  <2> QED
    BY <2>1, <2>2, <2>3, <2>4, <2>5 DEF Getter
<1>9. CASE f.kind = "checkbox-group"
  <2>1. parsed = ListOrNull(ent) /\ TypeFor(f) = "list"
    BY <1>9 DEF ParseFieldValue, TypeFor, TypeOfKind, TextKinds
  <2>2. Meant(f, ent) = Is("list", ent)
    BY <1>9 DEF Meant
  <2>3. Zero("list") = Is("list", <<>>) /\ Zero("list").type = "list" /\ Null.type = "null"
    BY DEF Zero, Is, Null
  <2>4. CASE ent = <<>>
    BY <2>1, <2>2, <2>3, <2>4 DEF Getter, ListOrNull
  <2>5. CASE ent # <<>>
    <3>1. parsed = Is("list", ent) /\ parsed.type = "list"
      BY <2>1, <2>5 DEF ListOrNull, Is
    <3>2. parsed # Absent
      BY <1>2, <1>4, <3>1, ValueIsThere
    <3> QED
      BY <2>1, <2>2, <2>3, <3>1, <3>2 DEF Getter
  <2> QED
    BY <2>4, <2>5
<1> QED
  BY <1>1, <1>5, <1>6, <1>7, <1>8, <1>9 DEF Kinds

-----------------------------------------------------------------------------
(* What is entered in a control of a fixed page. *)
LEMMA FixedEntry ==
  ASSUME NEW f, NEW ent \in Entries(f)
  PROVE  /\ f.kind = "textarea" => \E w \in {"", "text", "on"} : ent = <<w>>
         /\ f.kind = "button" => \E w \in f.value : ent = <<w>>
         /\ f.kind = "json" => \E w \in {"", "object", "null", "garbage"} : ent = <<w>>
         /\ f.kind = "checkbox-group" => ent = <<>> \/ ent = <<"a">> \/ ent = <<"a", "b">>
<1>1. CASE f.kind = "textarea"
  <2>1. ent = <<"">> \/ ent = <<"text">> \/ ent = <<"on">>
    BY <1>1 DEF Entries
  <2> QED
    BY <1>1, <2>1
<1>2. CASE f.kind = "button"
  <2>1. ent \in {<<v>> : v \in f.value}
    BY <1>2 DEF Entries
  <2> QED
    BY <1>2, <2>1
<1>3. CASE f.kind = "json"
  <2>1. ent = <<"">> \/ ent = <<"object">> \/ ent = <<"null">> \/ ent = <<"garbage">>
    BY <1>3 DEF Entries
  <2> QED
    BY <1>3, <2>1
<1>4. CASE f.kind = "checkbox-group"
  <2>1. ent = <<>> \/ ent = <<"a">> \/ ent = <<"a", "b">>
    BY <1>4 DEF Entries
  <2> QED
    BY <1>4, <2>1
<1> QED
  BY <1>1, <1>2, <1>3, <1>4

(* What one of a group of buttons sends. *)
LEMMA ButtonEntry ==
  ASSUME NEW f, f.kind = "button", NEW ent \in Entries(f)
  PROVE  \E w \in f.value : ent = <<w>>
BY FixedEntry

(* A string that is there is read back ... *)
LEMMA ReadString ==
  ASSUME NEW word \in ValueWords
  PROVE  Getter("string", Is("string", <<word>>)) = Is("string", <<word>>)
<1>1. "string" \in ValueTypes /\ <<word>> \in Seq(ValueWords)
  BY WordSeqs DEF ValueTypes
<1>2. Is("string", <<word>>) # Absent /\ Is("string", <<word>>).type = "string"
  BY <1>1, ValueIsThere
<1>3. Zero("string").type = "string"
  BY DEF Zero, Is
<1> QED
  BY <1>2, <1>3 DEF Getter

(* A sequence of two has two elements. *)
LEMMA OneAndOne ==
  ASSUME NEW a, NEW b
  PROVE  <<a>> \o <<>> = <<a>> /\ <<a>> \o <<b>> = <<a, b>>
<1>1. <<a>> \o <<>> = <<a>>
  OBVIOUS
<1>2. <<a>> \o <<b>> = <<a, b>>
  <2> DEFINE c == <<a>> \o <<b>>
             d == <<a, b>>
  <2>1. <<a>> \in Seq({a, b}) /\ <<b>> \in Seq({a, b}) /\ Len(<<a>>) = 1 /\ Len(<<b>>) = 1
    OBVIOUS
  <2>2. c \in Seq({a, b}) /\ Len(c) = 2
    BY <2>1, ConcatProperties
  <2>3. c[1] = a /\ c[2] = b
    OBVIOUS
  <2>4. d \in Seq({a, b}) /\ Len(d) = 2 /\ d[1] = a /\ d[2] = b
    OBVIOUS
  <2> HIDE DEF c, d
  <2>5. \A i \in 1 .. 2 : c[i] = d[i]
    <3>1. \A i \in 1 .. 2 : i = 1 \/ i = 2
      OBVIOUS
    <3> QED
      BY <2>3, <2>4, <3>1
  <2>6. c = d
    BY <2>2, <2>4, <2>5, SeqEqual
  <2> QED
    BY <2>6 DEF c, d
<1> QED
  BY <1>1, <1>2

(* The values under the names of one pair, and of two. *)
LEMMA ReadPairs ==
  ASSUME NEW r, NEW a, NEW b, a[1] # b[1]
  PROVE  /\ r.pairs = <<a>> => Value(r, a[1]) = a[2] /\ Value(r, b[1]) = Absent
         /\ r.pairs = <<a, b>> => Value(r, a[1]) = a[2] /\ Value(r, b[1]) = b[2]
<1> DEFINE p == r.pairs
<1>1. 1 \in Nat /\ 2 \in Nat
  OBVIOUS
<1>2. CASE p = <<a>>
  <2>1. DOMAIN p = {1} /\ p[1] = a
    BY <1>2
  <2>2. Value(r, a[1]) = a[2]
    BY <1>1, <2>1, ValueAt
  <2>3. Value(r, b[1]) = Absent
    BY <2>1, ValueNone
  <2>4. p # <<a, b>>
    <3>1. DOMAIN <<a, b>> # {1}
      OBVIOUS
    <3> QED
      BY <2>1, <3>1
  <2> QED
    BY <1>2, <2>2, <2>3, <2>4
<1>3. CASE p = <<a, b>>
  <2>1. DOMAIN p = {1, 2} /\ p[1] = a /\ p[2] = b
    BY <1>3
  <2> HIDE DEF p
  <2>2. \A j \in DOMAIN p : (j # 1 => p[j] = b) /\ (j # 2 => p[j] = a)
    BY <2>1
  <2>3. Value(r, a[1]) = a[2]
    BY <1>1, <2>1, <2>2, ValueAt DEF p
  <2>4. Value(r, b[1]) = b[2]
    BY <1>1, <2>1, <2>2, ValueAt DEF p
  <2>5. p # <<a>>
    <3>1. DOMAIN <<a>> # {1, 2}
      OBVIOUS
    <3> QED
      BY <2>1, <3>1
  <2> QED
    BY <2>3, <2>4, <2>5 DEF p
<1> QED
  BY <1>2, <1>3

(* A member and an optional one after it. *)
HoldsTwo(r, req, opt) == r.pairs = Member(req) \o Optional(opt)

(* Two names that differ are both read from a form of two controls. *)
LEMMA ReadTwo ==
  ASSUME NEW req, NEW opt, req # opt, Get(req) \in ValueWords, Get(opt) \in ValueWords,
         NEW r, HoldsTwo(r, req, opt)
  PROVE  /\ Getter("string", Value(r, req)) = Is("string", <<Get(req)>>)
         /\ Getter("string", Value(r, opt)) = Is("string", <<Get(opt)>>)
<1> DEFINE w == Get(req)
           o == Get(opt)
           a == <<req, Is("string", <<w>>)>>
           b == <<opt, Is("string", <<o>>)>>
<1>1. a[1] = req /\ b[1] = opt /\ a[2] = Is("string", <<w>>) /\ b[2] = Is("string", <<o>>)
  OBVIOUS
<1>2. Member(req) = <<a>> /\ Optional(opt) = IF o = "" THEN <<>> ELSE <<b>>
  BY DEF Member, Optional
<1> HIDE DEF a, b, o, w
<1>3. r.pairs = IF o = "" THEN <<a>> ELSE <<a, b>>
  BY <1>2, OneAndOne DEF HoldsTwo
<1>4. Getter("string", a[2]) = a[2] /\ Getter("string", b[2]) = b[2]
  BY <1>1, ReadString DEF o, w
<1>5. Value(r, req) = a[2] /\ Value(r, opt) = IF o = "" THEN Absent ELSE b[2]
  <2>1. a[1] # b[1]
    BY <1>1
  <2>2. /\ r.pairs = <<a>> => Value(r, a[1]) = a[2] /\ Value(r, b[1]) = Absent
        /\ r.pairs = <<a, b>> => Value(r, a[1]) = a[2] /\ Value(r, b[1]) = b[2]
    BY <2>1, ReadPairs
  <2>3. CASE o = ""
    BY <1>1, <1>3, <2>2, <2>3
  <2>4. CASE o # ""
    BY <1>1, <1>3, <2>2, <2>4
  <2> QED
    BY <2>3, <2>4
<1>6. Getter("string", Absent) = Is("string", <<"">>)
  BY DEF Getter, Zero
<1> QED
  BY <1>1, <1>4, <1>5, <1>6 DEF o, w

(* Two controls with their own names. *)
LEMMA FormTwo ==
  ASSUME DOMAIN fields = 1 .. 2, fields[1].inForm, fields[2].inForm, fields[1].id # fields[2].id,
         entry[1] \in Seq(ValueWords), entry[2] \in Seq(ValueWords)
  PROVE  Form(fields[1].id) = entry[1] /\ Form(fields[2].id) = entry[2]
<1>1. \A j \in 1 .. 2 : j = 1 \/ j = 2
  OBVIOUS
<1>2. 1 \in 1 .. 2 /\ 2 \in 1 .. 2 /\ 2 \in Nat
  OBVIOUS
<1>3. \A j \in 1 .. 2 : entry[j] \in Seq(ValueWords)
  BY <1>1
<1>4. \A j \in 1 .. 2 : j # 1 => fields[j].id # fields[1].id \/ ~fields[j].inForm
  BY <1>1
<1>5. \A j \in 1 .. 2 : j # 2 => fields[j].id # fields[2].id \/ ~fields[j].inForm
  BY <1>1
<1> QED
  BY <1>2, <1>3, <1>4, <1>5, FormOne

(* Every control has an entry that it can have. *)
Entered == \A i \in DOMAIN fields : entry[i] \in Entries(fields[i])

(* A text area and buttons: approval and plan-review. *)
IsTextAndButtons(opt, req, choices) ==
    /\ DOMAIN fields = 1 .. 2 /\ opt # req /\ choices \subseteq ValueWords
    /\ fields[1].kind = "textarea" /\ fields[1].id = opt /\ fields[1].inForm
    /\ fields[2].kind = "button" /\ fields[2].id = req /\ fields[2].inForm /\ fields[2].value = choices

(* So it is with every page of one text and its buttons. *)
LEMMA TextAndButtons ==
  ASSUME NEW opt, NEW req, NEW choices, IsTextAndButtons(opt, req, choices),
         Entered,
         NEW r, HoldsTwo(r, req, opt)
  PROVE  \A i \in DOMAIN fields :
            Getter("string", Value(r, fields[i].id)) = Meant(fields[i], entry[i])
<1>1. \A i \in 1 .. 2 : i = 1 \/ i = 2
  OBVIOUS
<1>2. 1 \in DOMAIN fields /\ 2 \in DOMAIN fields /\ opt # req
  BY DEF IsTextAndButtons
<1>3. entry[1] \in Entries(fields[1]) /\ entry[2] \in Entries(fields[2])
  BY <1>2 DEF Entered
<1>4. PICK o \in {"", "text", "on"} : entry[1] = <<o>>
  <2>1. fields[1].kind = "textarea"
    BY DEF IsTextAndButtons
  <2> QED
    BY <1>3, <2>1, FixedEntry
<1>5. PICK w \in choices : entry[2] = <<w>>
  <2>1. \E w \in fields[2].value : entry[2] = <<w>>
    <3>1. fields[2].kind = "button"
      BY DEF IsTextAndButtons
    <3> QED
      BY <1>3, <3>1, ButtonEntry
  <2> QED
    BY <2>1 DEF IsTextAndButtons
<1>6. o \in ValueWords /\ w \in ValueWords
  BY DEF ValueWords, IsTextAndButtons
<1>7. Form(opt) = <<o>> /\ Form(req) = <<w>>
  <2>1. entry[1] \in Seq(ValueWords) /\ entry[2] \in Seq(ValueWords)
    BY <1>4, <1>5, <1>6, WordSeqs
  <2>2. Form(fields[1].id) = entry[1] /\ Form(fields[2].id) = entry[2]
    BY <2>1, FormTwo DEF IsTextAndButtons
  <2> QED
    BY <1>4, <1>5, <2>2 DEF IsTextAndButtons
<1>8. Get(opt) = o /\ Get(req) = w
  BY <1>6, <1>7, WordSeqs, GetOne
<1>9. /\ Getter("string", Value(r, req)) = Is("string", <<w>>)
      /\ Getter("string", Value(r, opt)) = Is("string", <<o>>)
  <2>1. req # opt
    BY <1>2
  <2> QED
    BY <1>6, <1>8, <2>1, ReadTwo
<1>10. Meant(fields[1], entry[1]) = Is("string", <<o>>)
  <2>1. Meant(fields[1], <<o>>) = IF <<o>> = <<>> THEN Zero("string") ELSE Is("string", <<o>>)
    BY DEF Meant, IsTextAndButtons
  <2> QED
    BY <1>4, <2>1
<1>11. Meant(fields[2], entry[2]) = Is("string", <<w>>)
  <2>1. Meant(fields[2], <<w>>) = IF <<w>> = <<>> THEN Zero("string") ELSE Is("string", <<w>>)
    BY DEF Meant, IsTextAndButtons
  <2> QED
    BY <1>5, <2>1
<1> SUFFICES ASSUME NEW i \in DOMAIN fields
             PROVE  Getter("string", Value(r, fields[i].id)) = Meant(fields[i], entry[i])
  OBVIOUS
<1>12. CASE i = 1
  BY <1>9, <1>10, <1>12 DEF IsTextAndButtons
<1>13. CASE i = 2
  BY <1>9, <1>11, <1>13 DEF IsTextAndButtons
<1> QED
  BY <1>1, <1>12, <1>13 DEF IsTextAndButtons

-----------------------------------------------------------------------------
(* The indices of one and of none. *)
LEMMA Domains ==
  ASSUME NEW a
  PROVE  DOMAIN <<a>> = {1} /\ <<a>>[1] = a /\ DOMAIN <<>> = {}
<1>1. DOMAIN <<a>> = {1} /\ <<a>>[1] = a
  OBVIOUS
<1>2. DOMAIN <<>> = {}
  OBVIOUS
<1> QED
  BY <1>1, <1>2

(* Two indices before the last of three. *)
LEMMA TwoAndOne ==
  ASSUME NEW a, NEW c, NEW b
  PROVE  (<<a>> \o <<c>>) \o <<>> = <<a, c>> /\ (<<a>> \o <<c>>) \o <<b>> = <<a, c, b>>
<1>1. <<a>> \o <<c>> = <<a, c>>
  BY OneAndOne
<1>2. <<a, c>> \o <<>> = <<a, c>>
  <2>1. <<a, c>> \in Seq({a, c})
    OBVIOUS
  <2> QED
    BY <2>1, ConcatEmptySeq
<1>3. <<a, c>> \o <<b>> = <<a, c, b>>
  <2> DEFINE S == {a, b, c}
             u == <<a, c>> \o <<b>>
             v == <<a, c, b>>
  <2>1. <<a, c>> \in Seq(S) /\ <<b>> \in Seq(S) /\ Len(<<a, c>>) = 2 /\ Len(<<b>>) = 1
    OBVIOUS
  <2>2. u \in Seq(S) /\ Len(u) = 3
    BY <2>1, ConcatProperties
  <2>3. u[1] = a /\ u[2] = c /\ u[3] = b
    OBVIOUS
  <2>4. v \in Seq(S) /\ Len(v) = 3 /\ v[1] = a /\ v[2] = c /\ v[3] = b
    OBVIOUS
  <2> HIDE DEF u, v
  <2>5. \A i \in 1 .. 3 : u[i] = v[i]
    <3>1. \A i \in 1 .. 3 : i = 1 \/ i = 2 \/ i = 3
      OBVIOUS
    <3> QED
      BY <2>3, <2>4, <3>1
  <2>6. u = v
    BY <2>2, <2>4, <2>5, SeqEqual
  <2> QED
    BY <2>6 DEF u, v
<1> QED
  BY <1>1, <1>2, <1>3

(* The same with a pair of another name between the two. *)
LEMMA ReadAround ==
  ASSUME NEW r, NEW a, NEW c, NEW b, a[1] # b[1], a[1] # c[1], c[1] # b[1]
  PROVE  /\ r.pairs = <<a, c>> => Value(r, a[1]) = a[2] /\ Value(r, b[1]) = Absent
         /\ r.pairs = <<a, c, b>> => Value(r, a[1]) = a[2] /\ Value(r, b[1]) = b[2]
<1> DEFINE p == r.pairs
<1>1. 1 \in Nat /\ 3 \in Nat
  OBVIOUS
<1>2. CASE p = <<a, c>>
  <2>1. DOMAIN p = {1, 2} /\ p[1] = a /\ p[2] = c
    BY <1>2
  <2> HIDE DEF p
  <2>2. \A j \in DOMAIN p : (j # 1 => p[j] = c) /\ (p[j] = a \/ p[j] = c)
    BY <2>1
  <2>3. Value(r, a[1]) = a[2]
    BY <1>1, <2>1, <2>2, ValueAt DEF p
  <2>4. Value(r, b[1]) = Absent
    BY <2>2, ValueNone DEF p
  <2>5. p # <<a, c, b>>
    <3>1. DOMAIN <<a, c, b>> # {1, 2}
      <4>1. 3 \in DOMAIN <<a, c, b>>
        OBVIOUS
      <4> QED
        BY <4>1
    <3> QED
      BY <2>1, <3>1
  <2> QED
    BY <2>3, <2>4, <2>5 DEF p
<1>3. CASE p = <<a, c, b>>
  <2>1. DOMAIN p = {1, 2, 3} /\ p[1] = a /\ p[2] = c /\ p[3] = b
    BY <1>3
  <2> HIDE DEF p
  <2>2. \A j \in DOMAIN p : (j # 1 => p[j] \in {b, c}) /\ (j # 3 => p[j] \in {a, c})
    BY <2>1
  <2>3. Value(r, a[1]) = a[2]
    <3>1. \A j \in DOMAIN p : j # 1 => p[j][1] # a[1]
      BY <2>2
    <3> QED
      BY <1>1, <2>1, <3>1, ValueAt DEF p
  <2>4. Value(r, b[1]) = b[2]
    <3>1. \A j \in DOMAIN p : j # 3 => p[j][1] # b[1]
      BY <2>2
    <3> QED
      BY <1>1, <2>1, <3>1, ValueAt DEF p
  <2>5. p # <<a, c>>
    <3>1. DOMAIN <<a, c>> # {1, 2, 3}
      <4>1. 3 \notin DOMAIN <<a, c>>
        OBVIOUS
      <4> QED
        BY <4>1
    <3> QED
      BY <2>1, <3>1
  <2> QED
    BY <2>3, <2>4, <2>5 DEF p
<1> QED
  BY <1>2, <1>3

(* A review: the findings stand before the form, and between the members. *)
IsReview(choices) ==
    /\ DOMAIN fields = 1 .. 3 /\ choices \subseteq ValueWords
    /\ fields[1].kind = "checkbox-group" /\ fields[1].id = "findings_to_post" /\ ~fields[1].inForm
    /\ fields[2].kind = "textarea" /\ fields[2].id = "instructions" /\ fields[2].inForm
    /\ fields[3].kind = "button" /\ fields[3].id = "action" /\ fields[3].inForm /\ fields[3].value = choices

(* r is what the plan review sends. *)
HoldsReview(r) ==
    r.pairs = Member("action") \o <<<<"findings_to_post", ListOrNull(Form("findings_to_post"))>>>>
                 \o Optional("instructions")

(* The members of a review are read back. *)
LEMMA ReadReview ==
  ASSUME Get("action") \in ValueWords, Get("instructions") \in ValueWords, NEW r, HoldsReview(r)
  PROVE  /\ Getter("string", Value(r, "action")) = Is("string", <<Get("action")>>)
         /\ Getter("string", Value(r, "instructions")) = Is("string", <<Get("instructions")>>)
<1> DEFINE w == Get("action")
           o == Get("instructions")
           a == <<"action", Is("string", <<w>>)>>
           c == <<"findings_to_post", ListOrNull(Form("findings_to_post"))>>
           b == <<"instructions", Is("string", <<o>>)>>
<1>1. /\ a[1] = "action" /\ b[1] = "instructions" /\ c[1] = "findings_to_post"
      /\ a[2] = Is("string", <<w>>) /\ b[2] = Is("string", <<o>>)
  OBVIOUS
<1>2. Member("action") = <<a>> /\ Optional("instructions") = IF o = "" THEN <<>> ELSE <<b>>
  BY DEF Member, Optional
<1>3. r.pairs = (<<a>> \o <<c>>) \o Optional("instructions")
  BY <1>2 DEF HoldsReview
<1>4. Getter("string", a[2]) = a[2] /\ Getter("string", b[2]) = b[2]
  BY <1>1, ReadString
<1> HIDE DEF a, b, c, o, w
<1>5. a[1] # b[1] /\ a[1] # c[1] /\ c[1] # b[1]
  BY <1>1
<1>6. Getter("string", Absent) = Is("string", <<"">>)
  BY DEF Getter, Zero
<1>7. CASE o = ""
  <2>1. r.pairs = <<a, c>>
    BY <1>2, <1>3, <1>7, TwoAndOne
  <2>2. Value(r, a[1]) = a[2] /\ Value(r, b[1]) = Absent
    BY <1>5, <2>1, ReadAround
  <2> QED
    BY <1>1, <1>4, <1>6, <1>7, <2>2 DEF o, w
<1>8. CASE o # ""
  <2>1. r.pairs = <<a, c, b>>
    BY <1>2, <1>3, <1>8, TwoAndOne
  <2>2. Value(r, a[1]) = a[2] /\ Value(r, b[1]) = b[2]
    BY <1>5, <2>1, ReadAround
  <2> QED
    BY <1>1, <1>4, <2>2 DEF o, w
<1> QED
  BY <1>7, <1>8

(* Every value of a plan review is read as it was meant. *)
LEMMA Review ==
  ASSUME NEW choices, IsReview(choices), Entered,
         NEW r, HoldsReview(r)
  PROVE  \A i \in DOMAIN fields : fields[i].inForm =>
            Getter("string", Value(r, fields[i].id)) = Meant(fields[i], entry[i])
<1>1. \A i \in 1 .. 3 : i = 1 \/ i = 2 \/ i = 3
  OBVIOUS
<1>2. 1 \in 1 .. 3 /\ 2 \in 1 .. 3 /\ 3 \in 1 .. 3 /\ 3 \in Nat
  OBVIOUS
<1>3. entry[1] \in Entries(fields[1]) /\ entry[2] \in Entries(fields[2]) /\ entry[3] \in Entries(fields[3])
  BY <1>2 DEF IsReview, Entered
<1>4. PICK o \in {"", "text", "on"} : entry[2] = <<o>>
  <2>1. fields[2].kind = "textarea"
    BY DEF IsReview
  <2> QED
    BY <1>3, <2>1, FixedEntry
<1>5. PICK w \in choices : entry[3] = <<w>>
  <2>1. \E w \in fields[3].value : entry[3] = <<w>>
    <3>1. fields[3].kind = "button"
      BY DEF IsReview
    <3>2. entry[3] \in Entries(fields[3])
      BY <1>3
    <3> QED
      BY <3>1, <3>2, ButtonEntry
  <2> QED
    BY <2>1 DEF IsReview
<1>6. o \in ValueWords /\ w \in ValueWords
  BY DEF ValueWords, IsReview
<1>7. \A j \in 1 .. 3 : entry[j] \in Seq(ValueWords)
  <2>1. entry[2] \in Seq(ValueWords) /\ entry[3] \in Seq(ValueWords)
    BY <1>4, <1>5, <1>6, WordSeqs
  <2>2. entry[1] \in Seq(ValueWords)
    <3>1. fields[1].kind = "checkbox-group"
      BY DEF IsReview
    <3>2. entry[1] = <<>> \/ entry[1] = <<"a">> \/ entry[1] = <<"a", "b">>
      BY <1>3, <3>1, FixedEntry
    <3> QED
      BY <3>2, WordSeqs DEF ValueWords
  <2> QED
    BY <1>1, <2>1, <2>2
<1>8. Form("instructions") = <<o>>
  <2>1. \A j \in 1 .. 3 : j # 2 => fields[j].id # "instructions" \/ ~fields[j].inForm
    BY <1>1 DEF IsReview
  <2>2. Form("instructions") = entry[2]
    BY <1>2, <1>7, <2>1, FormOne DEF IsReview
  <2> QED
    BY <1>4, <2>2
<1>9. Form("action") = <<w>>
  <2>1. \A j \in 1 .. 3 : j # 3 => fields[j].id # "action" \/ ~fields[j].inForm
    BY <1>1 DEF IsReview
  <2>2. Form("action") = entry[3]
    BY <1>2, <1>7, <2>1, FormOne DEF IsReview
  <2> QED
    BY <1>5, <2>2
<1>10. Get("instructions") = o /\ Get("action") = w
  BY <1>6, <1>8, <1>9, WordSeqs, GetOne
<1>11. /\ Getter("string", Value(r, "action")) = Is("string", <<w>>)
       /\ Getter("string", Value(r, "instructions")) = Is("string", <<o>>)
  BY <1>6, <1>10, ReadReview
<1>12. Meant(fields[2], entry[2]) = Is("string", <<o>>)
  <2>1. Meant(fields[2], <<o>>) = IF <<o>> = <<>> THEN Zero("string") ELSE Is("string", <<o>>)
    BY DEF Meant, IsReview
  <2> QED
    BY <1>4, <2>1
<1>13. Meant(fields[3], entry[3]) = Is("string", <<w>>)
  <2>1. Meant(fields[3], <<w>>) = IF <<w>> = <<>> THEN Zero("string") ELSE Is("string", <<w>>)
    BY DEF Meant, IsReview
  <2> QED
    BY <1>5, <2>1
<1> SUFFICES ASSUME NEW i \in DOMAIN fields, fields[i].inForm
             PROVE  Getter("string", Value(r, fields[i].id)) = Meant(fields[i], entry[i])
  OBVIOUS
<1>14. CASE i = 2
  BY <1>11, <1>12, <1>14 DEF IsReview
<1>15. CASE i = 3
  BY <1>11, <1>13, <1>15 DEF IsReview
<1> QED
  BY <1>1, <1>14, <1>15 DEF IsReview

(* A generic answer: text that is an object is kept, and null is no answer. *)
IsGeneric ==
    /\ DOMAIN fields = 1 .. 1
    /\ fields[1].kind = "json" /\ fields[1].id = "_generic_json" /\ fields[1].inForm

(* r is what the page of an unknown type sends. *)
HoldsGeneric(r) ==
    r.pairs = IF Get("_generic_json") = "object"
              THEN <<<<"_generic_json", Is("string", <<"object">>)>>>> ELSE <<>>

(* The page of an unknown type comes back as it was meant. *)
LEMMA Generic ==
  ASSUME IsGeneric, Entered,
         NEW r, HoldsGeneric(r)
  PROVE  \A i \in DOMAIN fields :
            Getter("string", Value(r, fields[i].id)) = Meant(fields[i], entry[i])
<1>1. 1 \in 1 .. 1 /\ 1 \in Nat /\ \A i \in 1 .. 1 : i = 1
  OBVIOUS
<1>2. entry[1] \in Entries(fields[1])
  BY <1>1 DEF IsGeneric, Entered
<1>3. PICK w \in {"", "object", "null", "garbage"} : entry[1] = <<w>>
  <2>1. fields[1].kind = "json"
    BY DEF IsGeneric
  <2> QED
    BY <1>2, <2>1, FixedEntry
<1>4. w \in ValueWords /\ "object" \in ValueWords
  BY DEF ValueWords
<1>5. Form("_generic_json") = <<w>>
  <2>1. \A j \in 1 .. 1 : entry[j] \in Seq(ValueWords)
    BY <1>1, <1>3, <1>4, WordSeqs
  <2>2. \A j \in 1 .. 1 : j # 1 => fields[j].id # "_generic_json" \/ ~fields[j].inForm
    BY <1>1
  <2> DEFINE n == 1
             name == "_generic_json"
  <2>3. /\ n \in Nat /\ DOMAIN fields = 1 .. n /\ n \in 1 .. n
        /\ fields[n].inForm /\ fields[n].id = name
        /\ \A j \in 1 .. n : j # n => fields[j].id # name \/ ~fields[j].inForm
        /\ \A j \in 1 .. n : entry[j] \in Seq(ValueWords)
    BY <1>1, <2>1, <2>2 DEF IsGeneric
  <2> HIDE DEF n, name
  <2>4. Form(name) = entry[n]
    BY <2>3, FormOne
  <2>5. Form("_generic_json") = entry[1]
    BY <2>4 DEF n, name
  <2> QED
    BY <1>3, <2>5
<1>6. Get("_generic_json") = w
  BY <1>4, <1>5, WordSeqs, GetOne
<1>7. Meant(fields[1], entry[1]) = IF entry[1] = <<"object">> THEN Is("string", entry[1]) ELSE Zero("string")
  BY DEF Meant, IsGeneric
<1>8. CASE w = "object"
  <2> DEFINE a == <<"_generic_json", Is("string", <<"object">>)>>
  <2>1. r.pairs = <<a>>
    BY <1>6, <1>8 DEF HoldsGeneric
  <2>2. a[1] = "_generic_json" /\ a[2] = Is("string", <<"object">>)
    OBVIOUS
  <2> HIDE DEF a
  <2>3. DOMAIN r.pairs = {1} /\ r.pairs[1] = a
    <3>1. DOMAIN <<a>> = {1} /\ <<a>>[1] = a
      BY Domains
    <3> QED
      BY <2>1, <3>1
  <2>4. Value(r, "_generic_json") = a[2]
    BY <1>1, <2>2, <2>3, ValueAt
  <2>5. Getter("string", a[2]) = a[2]
    BY <1>4, <2>2, ReadString
  <2>6. Meant(fields[1], entry[1]) = a[2]
    BY <1>3, <1>7, <1>8, <2>2
  <2> QED
    BY <1>1, <2>4, <2>5, <2>6 DEF IsGeneric
<1>9. CASE w # "object"
  <2>1. r.pairs = <<>>
    BY <1>6, <1>9 DEF HoldsGeneric
  <2>2. DOMAIN r.pairs = {}
    <3>1. DOMAIN <<>> = {}
      BY Domains
    <3> QED
      BY <2>1, <3>1
  <2>3. Value(r, "_generic_json") = Absent
    BY <2>2, ValueNone
  <2>4. Getter("string", Absent) = Zero("string")
    BY DEF Getter
  <2>5. entry[1] # <<"object">>
    <3>1. \A c, d : <<c>> = <<d>> => c = d
      OBVIOUS
    <3> QED
      BY <1>3, <1>9, <3>1
  <2> QED
    BY <1>1, <1>7, <2>3, <2>4, <2>5 DEF IsGeneric
<1> QED
  BY <1>8, <1>9

-----------------------------------------------------------------------------
(* The form's answer: what is stored, and for whom it is encrypted.        *)

(* Only who has keys has its answers encrypted. *)
FormInv ==
    stage = "answered" => /\ stored.enc \in {"no", "whole"}
                          /\ stored.enc = "whole" => client # "none"

(* An answer is encrypted as a whole or not at all. *)
LEMMA StoreLemma ==
  ASSUME NEW answer, NEW fits
  PROVE  LET s == Store(answer, fits)
         IN  s.enc \in {"no", "whole"} /\ (s.enc = "whole" => client # "none")
  BY DEF Store, Encryption

(* The invariant is inductive, *)
LEMMA NextFormInv ==
  ASSUME FormInv, [FormNext]_formVars
  PROVE  FormInv'
<1>1. CASE \E answer \in {"page", "admin"}, fits \in BOOLEAN : Answer(answer, fits)
  BY <1>1, StoreLemma DEF Answer, FormInv
<1>2. CASE stage' # "answered" \/ UNCHANGED formVars
  BY <1>2 DEF FormInv, formVars
<1>3. FormNext => \/ \E answer \in {"page", "admin"}, fits \in BOOLEAN : Answer(answer, fits)
                  \/ stage' # "answered"
  BY DEF FormNext, Add, Hidden, AddField, Ask, Enter
<1> QED
  BY <1>1, <1>2, <1>3

(* ... and with it the two readers agree. *)
LEMMA FormInvAgree ==
  ASSUME FormInv
  PROVE  PollAndWebhookAgree
  BY DEF FormInv, PollAndWebhookAgree, DecryptResponseField, ParseEvent

(* An agent that polls and one that handles request.completed read the     *)
(* same response, whatever the form, the answer and their keys.            *)
THEOREM ReadersCorrect == FormSpec => []PollAndWebhookAgree
<1>1. FormInit => FormInv
  BY DEF FormInit, FormInv
<1> QED
  BY <1>1, NextFormInv, FormInvAgree, PTL DEF FormSpec

-----------------------------------------------------------------------------
(* The types of the builder.                                               *)

(* The builder's last word about an id. *)
Known(id) ==
    \/ types[id] = Absent /\ \A i \in DOMAIN fields : fields[i].id # id
    \/ \E i \in DOMAIN fields :
        /\ fields[i].id = id /\ \A j \in DOMAIN fields : j > i => fields[j].id # id
        /\ types[id] = TypeFor(fields[i])

(* The fields, and of which kinds they are. *)
BuildInv ==
    /\ FormTypeOK
    /\ DOMAIN types = Ids /\ types = [id \in Ids |-> types[id]]
    /\ stage = "build" => page = "form-builder"
    /\ IF page = "form-builder" THEN fields \in Seq(BuilderFields) ELSE fields = ResponseForm(page)

(* Every method of the builder adds a field with the type that goes with it. *)
LEMMA AddedLemma ==
  ASSUME FormInv, NEW id \in Ids,
         \/ \E kind \in Kinds : Add(kind, id)
         \/ \E value \in Presets : Hidden(id, value)
  PROVE  \E field \in BuilderFields : AddField(field, TypeFor(field))
<1>1. ASSUME NEW kind \in Kinds, Add(kind, id)
      PROVE  \E field \in BuilderFields : AddField(field, TypeFor(field))
  <2> DEFINE field == Control(kind, id, Absent, TRUE)
  <2>1. field \in BuilderFields
    BY DEF BuilderFields, Control
  <2>2. kind # "hidden"
    BY DEF Kinds, TextKinds
  <2>3. TypeFor(field) = TypeOfKind(kind)
    BY <2>2 DEF TypeFor, Control
  <2> QED
    BY <1>1, <2>1, <2>3 DEF Add
<1>2. ASSUME NEW value \in Presets, Hidden(id, value)
      PROVE  \E field \in BuilderFields : AddField(field, TypeFor(field))
  <2> DEFINE field == Control("hidden", id, value, TRUE)
  <2>1. field \in BuilderFields
    BY DEF BuilderFields, Control
  <2>2. TypeFor(field) = InferHiddenType(value)
    BY DEF TypeFor, Control, InferHiddenType
  <2> QED
    BY <1>2, <2>1, <2>2 DEF Hidden
<1> QED
  BY <1>1, <1>2

(* The field that is added has the last word about its id. *)
LEMMA AddFieldLemma ==
  ASSUME BuildInv, NEW field \in BuilderFields, AddField(field, TypeFor(field))
  PROVE  BuildInv'
<1> DEFINE l == Len(fields)
<1>1. /\ stage = "build" /\ page = "form-builder" /\ fields \in Seq(BuilderFields)
      /\ fields' = Append(fields, field) /\ types' = [types EXCEPT ![field.id] = TypeFor(field)]
      /\ UNCHANGED <<stage, page, client, entry, stored>>
  BY DEF AddField, BuildInv
<1>2. /\ fields' \in Seq(BuilderFields) /\ Len(fields') = l + 1
      /\ \A i \in 1 .. l : fields'[i] = fields[i]
      /\ fields'[l + 1] = field
  BY <1>1, AppendProperties
<1>3. DOMAIN fields' = 1 .. l + 1 /\ DOMAIN fields = 1 .. l /\ l \in Nat
  BY <1>1, <1>2, LenProperties
<1>4. field.id \in Ids
  BY DEF BuilderFields
<1>5. /\ DOMAIN types' = Ids /\ types' = [id \in Ids |-> types'[id]]
      /\ types'[field.id] = TypeFor(field)
      /\ \A id \in Ids \ {field.id} : types'[id] = types[id]
  BY <1>1, <1>4 DEF BuildInv
<1> HIDE DEF l
<1>6. ASSUME NEW id \in Ids
      PROVE  Known(id)'
  <2>1. CASE id = field.id
    <3>1. l + 1 \in DOMAIN fields' /\ \A j \in DOMAIN fields' : ~(j > l + 1)
      BY <1>3
    <3> QED
      BY <1>2, <1>5, <2>1, <3>1 DEF Known, TypeFor
  <2>2. CASE id # field.id /\ types[id] = Absent /\ \A i \in DOMAIN fields : fields[i].id # id
    <3>1. \A i \in DOMAIN fields' : fields'[i].id # id
      <4> TAKE i \in DOMAIN fields'
      <4>1. i \in 1 .. l \/ i = l + 1
        BY <1>3
      <4> QED
        BY <1>2, <1>3, <2>2, <4>1
    <3> QED
      BY <1>5, <2>2, <3>1 DEF Known
  <2>3. CASE /\ id # field.id
             /\ \E i \in DOMAIN fields :
                  /\ fields[i].id = id /\ \A j \in DOMAIN fields : j > i => fields[j].id # id
                  /\ types[id] = TypeFor(fields[i])
    <3>1. PICK i \in 1 .. l :
             /\ fields[i].id = id /\ \A j \in DOMAIN fields : j > i => fields[j].id # id
             /\ types[id] = TypeFor(fields[i])
      BY <1>3, <2>3
    <3>2. i \in DOMAIN fields' /\ fields'[i] = fields[i]
      BY <1>2, <1>3
    <3>3. ASSUME NEW j \in DOMAIN fields', j > i
          PROVE  fields'[j].id # id
      <4>1. j \in 1 .. l \/ j = l + 1
        BY <1>3
      <4> QED
        BY <1>2, <1>3, <2>3, <3>1, <3>3, <4>1
    <3>4. types'[id] = TypeFor(fields'[i])
      BY <1>5, <2>3, <3>1, <3>2
    <3> QED
      BY <3>1, <3>2, <3>3, <3>4 DEF Known, TypeFor
  <2>4. Known(id)
    BY <1>1 DEF BuildInv, FormTypeOK, Known, TypeFor
  <2> QED
    BY <2>1, <2>2, <2>3, <2>4 DEF Known
<1>7. FormTypeOK'
  BY <1>1, <1>6 DEF BuildInv, FormTypeOK, Known, TypeFor
<1> QED
  BY <1>1, <1>2, <1>5, <1>7 DEF BuildInv

(* The types of the builder are kept by every step. *)
LEMMA NextBuildInv ==
  ASSUME FormInv, BuildInv, [FormNext]_formVars
  PROVE  BuildInv'
<1>1. CASE \E id \in Ids : \/ \E kind \in Kinds : Add(kind, id)
                           \/ \E value \in Presets : Hidden(id, value)
  BY <1>1, AddedLemma, AddFieldLemma
<1>2. ASSUME NEW t \in Pages, NEW c \in Clients, Ask(t, c)
      PROVE  BuildInv'
  BY <1>2 DEF Ask, BuildInv, FormTypeOK
<1>3. CASE Enter
  <2>1. DOMAIN entry' = DOMAIN fields
    BY <1>3 DEF Enter
  <2> QED
    BY <1>3, <2>1 DEF Enter, BuildInv, FormTypeOK
<1>4. ASSUME NEW answer \in {"page", "admin"}, NEW fits \in BOOLEAN, Answer(answer, fits)
      PROVE  BuildInv'
  <2>1. stored'.nil \in BOOLEAN
    BY <1>4 DEF Answer, Store, Nil
  <2> QED
    BY <1>4, <2>1 DEF Answer, BuildInv, FormTypeOK
<1>5. CASE UNCHANGED formVars
  BY <1>5 DEF formVars, BuildInv, FormTypeOK
<1> QED
  BY <1>1, <1>2, <1>3, <1>4, <1>5 DEF FormNext

(* They are right at the beginning. *)
LEMMA InitForm ==
  ASSUME FormInit
  PROVE  FormInv /\ BuildInv
<1>1. <<>> \in Seq(BuilderFields) /\ DOMAIN <<>> = {}
  BY EmptySeq
<1> QED
  BY <1>1 DEF FormInit, FormInv, BuildInv, FormTypeOK, Pages, Clients

(* The builder knows the type of each of its fields, for any form. *)
THEOREM FormTypeCorrect == FormSpec => []FormTypeOK
<1>1. FormInit => FormInv /\ BuildInv
  BY InitForm
<1>2. BuildInv => FormTypeOK
  BY DEF BuildInv
<1> QED
  BY <1>1, <1>2, NextFormInv, NextBuildInv, PTL DEF FormSpec

-----------------------------------------------------------------------------
(* From the entries to the getters.                                        *)

(* What is stored once the human has answered. *)
AnswerInv ==
    /\ stage \in {"entered", "answered"} => Entered
    /\ stage = "answered" => \E answer \in {"page", "admin"}, fits \in BOOLEAN : stored = Store(answer, fits)

(* What would be stored depends on the form, the key and the entries. *)
LEMMA StoreFrame ==
  ASSUME UNCHANGED <<page, fields, client, entry>>
  PROVE  \A answer, fits : Store(answer, fits)' = Store(answer, fits)
  BY DEF Store, Nil, Encryption, Response, Get, Form, Member, Optional, ParseFieldValue

(* The entries and the answer are kept by every step. *)
LEMMA NextAnswerInv ==
  ASSUME AnswerInv, BuildInv, [FormNext]_formVars
  PROVE  AnswerInv'
<1>1. ASSUME NEW id \in Ids, NEW kind \in Kinds, Add(kind, id) PROVE AnswerInv'
  BY <1>1 DEF Add, AddField, AnswerInv
<1>2. ASSUME NEW id \in Ids, NEW value \in Presets, Hidden(id, value) PROVE AnswerInv'
  BY <1>2 DEF Hidden, AddField, AnswerInv
<1>3. ASSUME NEW t \in Pages, NEW c \in Clients, Ask(t, c) PROVE AnswerInv'
  BY <1>3 DEF Ask, AnswerInv
<1>4. CASE Enter
  <2>1. stage' = "entered" /\ UNCHANGED fields /\ \A i \in DOMAIN fields : entry'[i] \in Entries(fields[i])
    BY <1>4 DEF Enter
  <2>2. Entered'
    BY <2>1 DEF Entered, Entries, HiddenAttribute
  <2> QED
    BY <2>1, <2>2 DEF AnswerInv
<1>5. ASSUME NEW answer \in {"page", "admin"}, NEW fits \in BOOLEAN, Answer(answer, fits) PROVE AnswerInv'
  <2>1. /\ stage = "entered" /\ stored' = Store(answer, fits)
        /\ UNCHANGED <<page, fields, client, entry>>
    BY <1>5 DEF Answer
  <2>2. Entered'
    BY <2>1 DEF AnswerInv, Entered
  <2>3. Store(answer, fits)' = Store(answer, fits)
    BY <2>1, StoreFrame
  <2> QED
    BY <2>1, <2>2, <2>3 DEF AnswerInv
<1>6. CASE UNCHANGED formVars
  <2>1. UNCHANGED <<stage, page, fields, client, entry, stored>>
    BY <1>6 DEF formVars
  <2>2. Entered' = Entered
    BY <2>1 DEF Entered
  <2>3. \A answer, fits : Store(answer, fits)' = Store(answer, fits)
    BY <2>1, StoreFrame
  <2> QED
    BY <2>1, <2>2, <2>3 DEF AnswerInv
<1> QED
  BY <1>1, <1>2, <1>3, <1>4, <1>5, <1>6 DEF FormNext

(* What can be read is the response that the parser has built. *)
LEMMA ReadableLemma ==
  ASSUME AnswerInv, Readable
  PROVE  /\ Entered /\ DecryptResponseField.pairs = Response
         /\ ParseEvent = DecryptResponseField
<1>1. PICK answer \in {"page", "admin"}, fits \in BOOLEAN : stored = Store(answer, fits)
  BY DEF AnswerInv, Readable
<1>2. stored = [nil |-> Nil(answer), pairs |-> IF Nil(answer) THEN <<>> ELSE Response, enc |-> Encryption(fits)]
  BY <1>1 DEF Store
<1>3. stored.pairs = Response
  BY <1>2 DEF Readable
<1>4. Plain.pairs = stored.pairs
  BY <1>2 DEF Plain
<1>5. DecryptResponseField.pairs = stored.pairs
  BY <1>4 DEF DecryptResponseField, Readable
<1>6. stored.enc \in {"no", "whole"}
  BY <1>2 DEF Encryption
<1>7. ParseEvent = DecryptResponseField
  BY <1>6 DEF ParseEvent, DecryptResponseField, Readable
<1> QED
  BY <1>3, <1>5, <1>7 DEF AnswerInv, Readable

(* A field of the builder with an id of its own, read in either way. *)
LEMMA BuilderRoundTrip ==
  ASSUME BuildInv, AnswerInv, Readable, page = "form-builder", NEW i \in DOMAIN fields,
         HasOwnId(i), fields[i].kind = "hidden" => fields[i].value.type = "string",
         NEW r \in {DecryptResponseField, ParseEvent}
  PROVE  Field(r, fields[i].id) = Meant(fields[i], entry[i])
<1> DEFINE n == Len(fields)
           f == fields[i]
<1>1. Entered /\ r.pairs = Response
  BY ReadableLemma
<1> USE DEF HasOwnId
<1>2. fields \in Seq(BuilderFields)
  BY DEF BuildInv
<1>3. n \in Nat /\ DOMAIN fields = 1 .. n /\ \A j \in 1 .. n : fields[j] \in BuilderFields
  BY <1>2, LenProperties, ElementOfSeq
<1>4. \A j \in 1 .. n : fields[j].inForm /\ fields[j].id \in Ids
  BY <1>3 DEF BuilderFields
<1>5. \A j \in 1 .. n : entry[j] \in Entries(fields[j]) /\ entry[j] \in Seq(ValueWords)
  BY <1>1, <1>3, BuilderEntry DEF Entered
<1> HIDE DEF n
<1>6. Form(f.id) = entry[i]
  <2>1. i \in 1 .. n /\ f.inForm /\ \A j \in 1 .. n : j # i => fields[j].id # f.id \/ ~fields[j].inForm
    BY <1>3, <1>4
  <2> QED
    BY <1>3, <1>5, <2>1, FormOne
<1>7. Value(r, f.id) = ParseFieldValue(f.kind, f.id)
  <2>1. r.pairs = [j \in DOMAIN fields |-> <<fields[j].id, ParseFieldValue(fields[j].kind, fields[j].id)>>]
    BY <1>1 DEF Response
  <2>2. /\ DOMAIN r.pairs = DOMAIN fields
        /\ \A j \in DOMAIN fields : r.pairs[j][1] = fields[j].id
        /\ r.pairs[i][2] = ParseFieldValue(f.kind, f.id)
    BY <2>1
  <2>3. i \in Nat
    BY <1>3
  <2>4. \A j \in DOMAIN r.pairs : j # i => r.pairs[j][1] # f.id
    BY <2>2
  <2> QED
    BY <2>2, <2>3, <2>4, ValueAt
<1>8. types[f.id] = TypeFor(f)
  <2>1. Known(f.id)
    BY <1>3, <1>4 DEF BuildInv, FormTypeOK, Known, TypeFor
  <2>2. PICK k \in DOMAIN fields : fields[k].id = f.id /\ types[f.id] = TypeFor(fields[k])
    BY <2>1 DEF Known
  <2>3. k = i
    BY <2>2
  <2> QED
    BY <2>2, <2>3
<1>9. f \in BuilderFields /\ entry[i] \in Entries(f)
  BY <1>3, <1>5
<1>10. Getter(TypeFor(f), ParseFieldValue(f.kind, f.id)) = Meant(f, entry[i])
  <2>1. f.kind = "hidden" => f.value.type = "string"
    OBVIOUS
  <2> HIDE DEF f
  <2> QED
    BY <1>6, <1>9, <2>1, ParsedAsMeant
<1> QED
  BY <1>7, <1>8, <1>10 DEF Field

(* The controls of a fixed page, read in either way. *)
LEMMA FixedRoundTrip ==
  ASSUME BuildInv, AnswerInv, Readable, page # "form-builder", NEW i \in DOMAIN fields, fields[i].inForm,
         NEW r \in {DecryptResponseField, ParseEvent}
  PROVE  Getter("string", Value(r, fields[i].id)) = Meant(fields[i], entry[i])
<1>1. Entered /\ r.pairs = Response
  BY ReadableLemma
<1>2. page \in Pages /\ fields = ResponseForm(page)
  BY DEF BuildInv, FormTypeOK
<1>3. CASE page = "approval"
  <2>1. fields = <<Control("textarea", "comment", Absent, TRUE),
                   Control("button", "decision", {"approve", "deny"}, TRUE)>>
    BY <1>2, <1>3 DEF ResponseForm, ApprovalForm
  <2>2. IsTextAndButtons("comment", "decision", {"approve", "deny"})
    BY <2>1 DEF IsTextAndButtons, Control, ValueWords
  <2>3. HoldsTwo(r, "decision", "comment")
    BY <1>1, <1>3 DEF HoldsTwo, Response
  <2> QED
    BY <1>1, <2>2, <2>3, TextAndButtons
<1>4. CASE page = "plan-review"
  <2>1. fields = <<Control("textarea", "feedback", Absent, TRUE),
                   Control("button", "decision", {"approve", "request_changes"}, TRUE)>>
    BY <1>2, <1>4 DEF ResponseForm, PlanReviewForm
  <2>2. IsTextAndButtons("feedback", "decision", {"approve", "request_changes"})
    BY <2>1 DEF IsTextAndButtons, Control, ValueWords
  <2>3. HoldsTwo(r, "decision", "feedback")
    BY <1>1, <1>4 DEF HoldsTwo, Response
  <2> QED
    BY <1>1, <2>2, <2>3, TextAndButtons
<1>5. CASE page = "pr-review"
  <2>1. fields = <<Control("checkbox-group", "findings_to_post", Absent, FALSE),
                   Control("textarea", "instructions", Absent, TRUE),
                   Control("button", "action", {"post_selected", "rerun", "reject"}, TRUE)>>
    BY <1>2, <1>5 DEF ResponseForm, PraFReviewForm
  <2>2. IsReview({"post_selected", "rerun", "reject"})
    BY <2>1 DEF IsReview, Control, ValueWords
  <2>3. HoldsReview(r)
    BY <1>1, <1>5 DEF HoldsReview, Response
  <2> QED
    BY <1>1, <2>2, <2>3, Review
<1>6. CASE page = "generic"
  <2>1. fields = <<Control("json", "_generic_json", Absent, TRUE)>>
    BY <1>2, <1>6 DEF ResponseForm, GenericForm
  <2>2. IsGeneric
    BY <2>1 DEF IsGeneric, Control
  <2>3. HoldsGeneric(r)
    BY <1>1, <1>6 DEF HoldsGeneric, Response
  <2> QED
    BY <1>1, <2>2, <2>3, Generic
<1> QED
  BY <1>2, <1>3, <1>4, <1>5, <1>6 DEF Pages

(* What the human enters is what the agent's typed getters return, polled  *)
(* or from the event: for forms of any length each field with an id of its *)
(* own that is no hidden int, float or bool, and on the fixed pages each   *)
(* control in the <form>, which the findings of a PR review are not.       *)
THEOREM RoundTripCorrect == FormSpec => []RoundTrip
<1>1. FormInit => FormInv /\ BuildInv /\ AnswerInv
  BY InitForm DEF FormInit, AnswerInv
<1>2. BuildInv /\ AnswerInv => RoundTrip
  BY BuilderRoundTrip, FixedRoundTrip DEF RoundTrip
<1> QED
  BY <1>1, <1>2, NextFormInv, NextBuildInv, NextAnswerInv, PTL DEF FormSpec

-----------------------------------------------------------------------------
(* Pages.                                                                  *)

(* NoGaps from before the walk begins. *)
SeenSoFar == pc # "done" => seen = 1..before

(* The inductive invariant of the walk. *)
WalkInv == TypeOK /\ SeenSoFar

(* A page goes on where the requests before it end, and stops where the    *)
(* next one begins or at the end of the list.                              *)
LEMMA PageJoins ==
  ASSUME NEW all \in Nat, NEW b \in 0..all, NEW n \in Nat \ {0}
  PROVE  LET cut == Page(all, b, n) IN
         /\ cut.next \in b..all
         /\ (1..b) \cup cut.items = 1..cut.next
         /\ cut.more \in BOOLEAN
         /\ ~cut.more => cut.next = all
<1> DEFINE start == IF b \in 1..all THEN b - 1 ELSE 0
           end == IF all - start > n THEN start + n ELSE all
<1>1. start \in Nat /\ start <= b /\ b <= start + 1 /\ start <= all
  OBVIOUS
<1>2. end \in Nat /\ b <= end /\ end <= all
  BY <1>1
<1>3. Page(all, b, n) = [items |-> (start + 1) .. end, more |-> end < all, next |-> end]
  BY DEF Page, Cut
<1> HIDE DEF start, end
<1>4. (1..b) \cup ((start + 1) .. end) = 1..end
  <2>1. ASSUME NEW i \in Int
        PROVE  (1 <= i /\ i <= b) \/ (start + 1 <= i /\ i <= end) <=> 1 <= i /\ i <= end
    BY <1>1, <1>2
  <2>2. \A i : i \in (1..b) \cup ((start + 1) .. end) <=> i \in 1..end
    BY <1>1, <1>2, <2>1
  <2> QED
    BY <2>2
<1>5. end \in b..all /\ (end < all) \in BOOLEAN /\ (~(end < all) => end = all)
  BY <1>2
<1>6. /\ Page(all, b, n).items = (start + 1) .. end /\ Page(all, b, n).next = end
      /\ Page(all, b, n).more = (end < all)
  BY <1>3
<1> QED
  BY <1>4, <1>5, <1>6

(* A page extends what was seen up to the new cursor, or to the end. *)
LEMMA FetchInv ==
  ASSUME WalkInv, Fetch
  PROVE  WalkInv' /\ (pc' = "done" => seen' = 1..created)
<1> DEFINE cut == Page(created, before, limit)
<1>1. /\ created \in Nat /\ before \in 0..created /\ limit \in Nat \ {0}
      /\ pc = "walk" /\ seen = 1..before
  BY PaginationAssumption DEF WalkInv, TypeOK, SeenSoFar, Fetch
<1>2. /\ cut.next \in before..created /\ (1..before) \cup cut.items = 1..cut.next
      /\ ~cut.more => cut.next = created
  BY <1>1, PageJoins
<1>3. /\ seen' = 1..cut.next /\ created' = created /\ limit' = limit
      /\ \/ cut.more /\ before' = cut.next /\ pc' = pc
         \/ ~cut.more /\ before' = before /\ pc' = "done"
  BY <1>1, <1>2 DEF Fetch
<1> HIDE DEF cut
<1> QED
  BY <1>1, <1>2, <1>3 DEF WalkInv, TypeOK, SeenSoFar

(* Every step keeps the invariant: requests are only appended. *)
LEMMA NextWalkInv == WalkInv /\ [Next]_vars => WalkInv'
<1> SUFFICES ASSUME WalkInv, [Next]_vars PROVE WalkInv'
  OBVIOUS
<1>1. CASE Create
  BY <1>1 DEF Create, WalkInv, TypeOK, SeenSoFar
<1>2. CASE Begin
  <2>1. \A q \in Queries : LimitOf(q) \in 1..MaxLimit
    BY PaginationAssumption DEF LimitOf
  <2> QED
    BY <1>2, <2>1 DEF Begin, WalkInv, TypeOK, SeenSoFar
<1>3. CASE UNCHANGED vars
  BY <1>3 DEF vars, WalkInv, TypeOK, SeenSoFar
<1> QED
  BY <1>1, <1>2, <1>3, FetchInv DEF Next

(* The invariant holds for ever. *)
LEMMA WalkInvariant == Spec => []WalkInv
<1>1. Init => WalkInv
  BY PaginationAssumption DEF Init, WalkInv, TypeOK, SeenSoFar
<1> QED
  BY <1>1, NextWalkInv, PTL DEF Spec

(* Type correctness of the specification: cursors and pages stay within    *)
(* the list.                                                               *)
THEOREM WalkTypeCorrect == Spec => []TypeOK
<1>1. WalkInv => TypeOK
  BY DEF WalkInv
<1> QED
  BY <1>1, WalkInvariant, PTL

(* A walk under way has seen all the requests up to its cursor.            *)
THEOREM NoGapsCorrect == Spec => []NoGaps
<1>1. WalkInv => NoGaps
  BY DEF WalkInv, SeenSoFar, NoGaps
<1> QED
  BY <1>1, WalkInvariant, PTL

(* A walk that ends has seen every request that was created then.          *)
THEOREM LastPageCorrect == Spec => LastPageCompletes
<1>1. WalkInv /\ [Next]_vars => [pc = "walk" /\ pc' = "done" => seen' = 1..created]_vars
  BY FetchInv DEF Next, Create, Begin, vars
<1> QED
  BY <1>1, WalkInvariant, PTL DEF Spec, LastPageCompletes
=============================================================================
