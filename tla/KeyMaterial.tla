----------------------------- MODULE KeyMaterial -----------------------------
(***************************************************************************)
(* The RSA key pair that a passphrase stands for (src/crypto.go): the      *)
(* seeded stream of bytes, the search for two primes, and the numbers of   *)
(* the key.  A client that has been restarted makes its key again, and     *)
(* reads what was encrypted for the first one.                             *)
(*                                                                         *)
(* SHA-256 of the state and the counter is an arbitrary word for each      *)
(* place of the stream, the same for every reader of the same seed.        *)
(***************************************************************************)
EXTENDS Integers, SequencesExt

CONSTANTS
    Processes,    \* clients with one passphrase
    Words,        \* the words that the hash may return
    Bits,         \* bits of a prime: 1024
    SmallPrimes,  \* smallPrimes
    Rounds,       \* rounds of Miller-Rabin: 40
    Exponents,    \* candidates for rsaPublicExponent
    MaxDraws,     \* bound on the length of the stream
    Unset

ASSUME KeyAssumption ==
    /\ Bits \in Nat /\ Bits > 2 /\ Rounds \in Nat \ {0} /\ MaxDraws \in Nat
    /\ Words \subseteq Nat /\ SmallPrimes \subseteq Nat /\ Exponents \subseteq Nat \ {0, 1}

VARIABLES
    e,          \* rsaPublicExponent
    stream,     \* the words of the seed that somebody has drawn
    drawn,      \* how many of them each process has drawn
    candidate,  \* what generatePrime tries, or Unset
    passed,     \* the rounds that it has passed
    primes,     \* what generatePrime has returned: none, p, or p and q
    pair        \* the result of GenerateKeyPair, "error", or Unset

keyVars == <<e, stream, drawn, candidate, passed, primes, pair>>

Failed == [n |-> 0]

-----------------------------------------------------------------------------
(* The test of a candidate.                                                *)

TwoTo(k) == FoldLeft(LAMBDA y, i : 2 * y, 1, [i \in 1 .. k |-> i])

(* Exp: y to the power k modulo n. *)
PowerMod(y, k, n) ==
    LET power[i \in Nat] ==
            IF i = 0 THEN 1 % n
            ELSE LET half == power[i \div 2]
                 IN  (half * half * (IF i % 2 = 1 THEN y ELSE 1)) % n
    IN  power[k]

(* The most and the least significant bit are set. *)
Odd(word) == LET low == word % TwoTo(Bits - 1)
             IN  TwoTo(Bits - 1) + low + 1 - (low % 2)

PassesSmallPrimeCheck(n) ==
    n \in SmallPrimes \/ \A s \in SmallPrimes : n % s # 0

(* The r of n - 1 = 2^r d. *)
Twos(n) == CHOOSE r \in 1 .. Bits : (n - 1) % TwoTo(r) = 0 /\ ((n - 1) \div TwoTo(r)) % 2 = 1

Witness(word, n) == (word % (n - 3)) + 2

(* Mutant of PassesRound: the last square is forgotten. *)
PassesRoundEarly(n, a) ==
    LET r == Twos(n)
        d == (n - 1) \div TwoTo(r)
    IN  \/ PowerMod(a, d, n) = 1
        \/ \E j \in 0 .. r - 2 : PowerMod(a, d * TwoTo(j), n) = n - 1

(* One round of millerRabin. *)
PassesRound(n, a) ==
    LET r == Twos(n)
        d == (n - 1) \div TwoTo(r)
    IN  \/ PowerMod(a, d, n) = 1
        \/ \E j \in 0 .. r - 1 : PowerMod(a, d * TwoTo(j), n) = n - 1

-----------------------------------------------------------------------------
(* The numbers of the key.                                                 *)

(* ModInverse, or 0. *)
ModInverse(y, n) ==
    IF \E i \in 1 .. n - 1 : (i * y) % n = 1
    THEN CHOOSE i \in 1 .. n - 1 : (i * y) % n = 1
    ELSE 0

(* Mutant of KeyPair: it is not seen that both primes are the same. *)
KeyPairSquare(first, second) ==
    LET p   == IF first < second THEN second ELSE first
        q   == IF first < second THEN first ELSE second
        d   == ModInverse(e, (p - 1) * (q - 1))
    IN  IF d = 0 THEN Failed
        ELSE [n |-> p * q, e |-> e, d |-> d, p |-> p, q |-> q,
              dp |-> d % (p - 1), dq |-> d % (q - 1), qi |-> ModInverse(q, p)]

(* The end of GenerateKeyPair; big.Int's ModInverse is nil, here 0, when   *)
(* there is none. *)
KeyPair(first, second) ==
    LET p   == IF first < second THEN second ELSE first
        q   == IF first < second THEN first ELSE second
        d   == ModInverse(e, (p - 1) * (q - 1))
        qi  == ModInverse(q, p)
    IN  IF d = 0 \/ qi = 0 THEN Failed
        ELSE [n |-> p * q, e |-> e, d |-> d, p |-> p, q |-> q,
              dp |-> d % (p - 1), dq |-> d % (q - 1), qi |-> qi]

(* EncryptOAEP and DecryptOAEP without their padding: the library decrypts *)
(* with each prime apart. *)
Encrypt(key, m) == PowerMod(m, key.e, key.n)

Decrypt(key, c) ==
    LET m1 == PowerMod(c, key.dp, key.p)
        m2 == PowerMod(c, key.dq, key.q)
    IN  m2 + ((key.qi * (m1 - m2)) % key.p) * key.q

-----------------------------------------------------------------------------
KeyInit ==
    /\ e \in Exponents
    /\ stream = <<>>
    /\ drawn = [p \in Processes |-> 0]
    /\ candidate = [p \in Processes |-> Unset]
    /\ passed = [p \in Processes |-> 0]
    /\ primes = [p \in Processes |-> <<>>]
    /\ pair = [p \in Processes |-> Unset]

(* Mutant of GetBytes: witnesses are drawn from crypto/rand. *)
GetBytesWitnessElsewhere(p, word) ==
    IF candidate[p] # Unset
    THEN /\ word \in Words
         /\ UNCHANGED <<stream, drawn>>
    ELSE /\ drawn[p] < MaxDraws
         /\ drawn' = [drawn EXCEPT ![p] = @ + 1]
         /\ IF drawn[p] < Len(stream)
            THEN word = stream[drawn[p] + 1] /\ UNCHANGED stream
            ELSE stream' = Append(stream, word)

(* The next word of the stream, which is as long as a prime: the hash of a *)
(* place that nobody has drawn may be any word. *)
GetBytes(p, word) ==
    /\ drawn[p] < MaxDraws
    /\ drawn' = [drawn EXCEPT ![p] = @ + 1]
    /\ IF drawn[p] < Len(stream)
       THEN word = stream[drawn[p] + 1] /\ UNCHANGED stream
       ELSE stream' = Append(stream, word)

(* generatePrime draws a candidate. *)
Try(p, word) ==
    /\ candidate[p] = Unset /\ Len(primes[p]) < 2
    /\ GetBytes(p, word)
    /\ candidate' = [candidate EXCEPT ![p] =
                        IF PassesSmallPrimeCheck(Odd(word)) THEN Odd(word) ELSE Unset]
    /\ passed' = [passed EXCEPT ![p] = 0]
    /\ UNCHANGED <<e, primes, pair>>

(* A round of millerRabin. *)
Round(p, word) ==
    /\ candidate[p] # Unset
    /\ GetBytes(p, word)
    /\ LET n == candidate[p]
           passes == PassesRound(n, Witness(word, n))
           last == passed[p] + 1 = Rounds
       IN  /\ candidate' = [candidate EXCEPT ![p] = IF passes /\ ~last THEN @ ELSE Unset]
           /\ passed' = [passed EXCEPT ![p] = IF passes /\ ~last THEN @ + 1 ELSE 0]
           /\ primes' = [primes EXCEPT ![p] = IF passes /\ last THEN Append(@, n) ELSE @]
    /\ UNCHANGED <<e, pair>>

Finish(p) ==
    /\ Len(primes[p]) = 2 /\ pair[p] = Unset
    /\ pair' = [pair EXCEPT ![p] = KeyPair(primes[p][1], primes[p][2])]
    /\ UNCHANGED <<e, stream, drawn, candidate, passed, primes>>

(* A client stops, and begins again with its passphrase. *)
Restart(p) ==
    /\ drawn[p] > 0
    /\ drawn' = [drawn EXCEPT ![p] = 0]
    /\ candidate' = [candidate EXCEPT ![p] = Unset]
    /\ passed' = [passed EXCEPT ![p] = 0]
    /\ primes' = [primes EXCEPT ![p] = <<>>]
    /\ pair' = [pair EXCEPT ![p] = Unset]
    /\ UNCHANGED <<e, stream>>

KeyNext ==
    \E p \in Processes :
        \/ \E word \in Words : Try(p, word) \/ Round(p, word)
        \/ Finish(p)
        \/ Restart(p)

KeySpec == KeyInit /\ [][KeyNext]_keyVars

-----------------------------------------------------------------------------
IsPrime(n) == n > 1 /\ \A i \in 2 .. n - 1 : n % i # 0

Passing ==
    [n \in {Odd(word) : word \in Words} |->
        {a \in {Witness(word, n) : word \in 0 .. TwoTo(Bits) - 1} : PassesRound(n, a)}]

(* Whatever is under test, a prime passes with every witness, and a        *)
(* composite with a quarter of them at most: no prime is passed over, and  *)
(* each round divides the chance of a wrong one by four. *)
WitnessesTell ==
    \A p \in Processes : candidate[p] # Unset =>
        LET n == candidate[p]
        IN  IF IsPrime(n) THEN Passing[n] = 2 .. n - 2 ELSE 4 * Cardinality(Passing[n]) < n

(* A pair of two primes decrypts what it encrypts, whatever that is; and   *)
(* there is a pair unless both primes are the same, or the exponent has    *)
(* no inverse. *)
PairDecrypts ==
    \A p \in Processes :
        pair[p] # Unset /\ IsPrime(primes[p][1]) /\ IsPrime(primes[p][2]) =>
            /\ (pair[p] = Failed) = \/ primes[p][1] = primes[p][2]
                                   \/ \E i \in 1 .. 2 : \E k \in 2 .. e :
                                         e % k = 0 /\ (primes[p][i] - 1) % k = 0
            /\ pair[p] # Failed =>
                \A m \in 0 .. pair[p].n - 1 : Decrypt(pair[p], Encrypt(pair[p], m)) = m

(* Clients with one passphrase have one pair, in whichever order they make *)
(* it and however often they begin again: what was encrypted for one of    *)
(* them can be read by another, and after a restart. *)
KeysAgree ==
    \A p, q \in Processes : pair[p] # Unset /\ pair[q] # Unset => pair[p] = pair[q]

=============================================================================
