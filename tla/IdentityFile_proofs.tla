------------------------ MODULE IdentityFile_proofs ------------------------
(* The identity of a client that ran alone stays, and a stored identity is *)
(* destroyed only by a process that was already looking for one: for any   *)
(* number of processes, whatever files their options name.                 *)
EXTENDS IdentityFile, SequenceTheorems, TLAPS

-----------------------------------------------------------------------------
(* The files to try.                                                       *)

Among(f, s) == \E i \in 1..Len(s) : s[i] = f

(* One-element sequences. *)
LEMMA Single ==
  ASSUME NEW S, NEW f \in S
  PROVE  <<f>> \in Seq(S) /\ Len(<<f>>) = 1 /\ <<f>>[1] = f
  OBVIOUS

(* The sequence of a file that may not be named. *)
LEMMA NamedLemma ==
  ASSUME NEW f \in Paths
  PROVE  /\ Named(f) \in Seq(Files)
         /\ f = "" => Len(Named(f)) = 0
         /\ f # "" => Len(Named(f)) = 1 /\ Named(f)[1] = f
<1>1. CASE f = ""
  <2>1. Named(f) = <<>>
    BY <1>1 DEF Named
  <2> QED
    BY <1>1, <2>1, EmptySeq
<1>2. CASE f # ""
  <2>1. Named(f) = <<f>> /\ f \in Files
    BY <1>2 DEF Named, Files
  <2> QED
    BY <1>2, <2>1, Single
<1> QED
  BY <1>1, <1>2

(* What a concatenation of three holds, by length and place. *)
LEMMA Concat3 ==
  ASSUME NEW S, NEW a \in Seq(S), NEW b \in Seq(S), NEW d \in Seq(S)
  PROVE  /\ a \o b \o d \in Seq(S)
         /\ Len(a \o b \o d) = Len(a) + Len(b) + Len(d)
         /\ \A i \in 1..Len(a) : (a \o b \o d)[i] = a[i]
         /\ \A i \in 1..Len(b) : (a \o b \o d)[Len(a) + i] = b[i]
         /\ \A i \in 1..Len(d) : (a \o b \o d)[Len(a) + Len(b) + i] = d[i]
<1> DEFINE x == a \o b
<1>1. /\ x \in Seq(S) /\ Len(x) = Len(a) + Len(b)
      /\ \A i \in 1..Len(a) + Len(b) : x[i] = IF i <= Len(a) THEN a[i] ELSE b[i - Len(a)]
  BY ConcatProperties
<1>2. Len(a) \in Nat /\ Len(b) \in Nat /\ Len(d) \in Nat
  BY LenProperties
<1>x. x \in Seq(S)
  BY <1>1
<1> HIDE DEF x
<1>3. /\ x \o d \in Seq(S) /\ Len(x \o d) = Len(x) + Len(d)
      /\ \A i \in 1..Len(x) + Len(d) : (x \o d)[i] = IF i <= Len(x) THEN x[i] ELSE d[i - Len(x)]
  BY <1>x, ConcatProperties, Zenon
<1>4. \A i \in 1..Len(a) : (x \o d)[i] = a[i]
  BY <1>1, <1>2, <1>3
<1>5. ASSUME NEW i \in 1..Len(b)
      PROVE  (x \o d)[Len(a) + i] = b[i]
  <2> DEFINE k == Len(a) + i
  <2>1. k \in 1..Len(a) + Len(b) /\ ~(k <= Len(a)) /\ k - Len(a) = i /\ k \in 1..Len(x) + Len(d)
    BY <1>1, <1>2
  <2> HIDE DEF k
  <2>2. (x \o d)[k] = x[k]
    BY <1>1, <1>2, <1>3, <2>1
  <2>3. x[k] = b[i]
    BY <1>1, <2>1
  <2> QED
    BY <2>2, <2>3 DEF k
<1>6. ASSUME NEW i \in 1..Len(d)
      PROVE  (x \o d)[Len(a) + Len(b) + i] = d[i]
  <2> DEFINE k == Len(a) + Len(b) + i
  <2>1. k \in 1..Len(x) + Len(d) /\ ~(k <= Len(x)) /\ k - Len(x) = i
    BY <1>1, <1>2
  <2> HIDE DEF k
  <2>2. (x \o d)[k] = d[i]
    BY <1>3, <2>1
  <2> QED
    BY <2>2 DEF k
<1> QED
  BY <1>1, <1>3, <1>4, <1>5, <1>6 DEF x

(* The candidates are the named files and, at the end, the default one. *)
LEMMA CandidateParts ==
  ASSUME env \in Paths, NEW g \in Paths
  PROVE  /\ Candidates(g) \in Seq(Files)
         /\ Len(Candidates(g)) = Len(Named(g)) + Len(Named(env)) + 1
         /\ Candidates(g)[Len(Named(g)) + Len(Named(env)) + 1] = Default
         /\ g # "" => Candidates(g)[1] = g
         /\ env # "" => Candidates(g)[Len(Named(g)) + 1] = env
<1>1. /\ <<Default>> \in Seq(Files) /\ Len(<<Default>>) = 1 /\ <<Default>>[1] = Default
  <2>1. Default \in Files
    BY DEF Files
  <2> QED
    BY <2>1, Single
<1>2. /\ Candidates(g) \in Seq(Files)
      /\ Len(Candidates(g)) = Len(Named(g)) + Len(Named(env)) + Len(<<Default>>)
      /\ \A i \in 1..Len(Named(g)) : Candidates(g)[i] = Named(g)[i]
      /\ \A i \in 1..Len(Named(env)) : Candidates(g)[Len(Named(g)) + i] = Named(env)[i]
      /\ \A i \in 1..Len(<<Default>>) :
           Candidates(g)[Len(Named(g)) + Len(Named(env)) + i] = <<Default>>[i]
  <2>1. Named(g) \in Seq(Files) /\ Named(env) \in Seq(Files)
    BY NamedLemma
  <2> QED
    BY <1>1, <2>1, Concat3 DEF Candidates
<1>3. ASSUME g # ""
      PROVE  1 \in 1..Len(Named(g)) /\ Named(g)[1] = g
  <2>1. Len(Named(g)) = 1 /\ Named(g)[1] = g
    BY <1>3, NamedLemma
  <2>2. 1 \in 1..1
    OBVIOUS
  <2> QED
    BY <2>1, <2>2
<1>4. ASSUME env # ""
      PROVE  1 \in 1..Len(Named(env)) /\ Named(env)[1] = env
  <2>1. Len(Named(env)) = 1 /\ Named(env)[1] = env
    BY <1>4, NamedLemma
  <2>2. 1 \in 1..1
    OBVIOUS
  <2> QED
    BY <2>1, <2>2
<1>5. 1 \in 1..Len(<<Default>>)
  BY <1>1
<1>6. Candidates(g)[Len(Named(g)) + Len(Named(env)) + 1] = Default
  BY <1>1, <1>2, <1>5
<1> QED
  BY <1>1, <1>2, <1>3, <1>4, <1>6

(* All candidates but the first are candidates of everybody. *)
LEMMA CandidateLemma ==
  ASSUME env \in Paths, NEW g \in Paths
  PROVE  /\ Candidates(g) \in Seq(Files) /\ Candidates(g) # <<>>
         /\ DOMAIN Candidates(g) = 1..Len(Candidates(g))
         /\ Head(Candidates(g)) = Candidates(g)[1] /\ Len(Candidates(g)) >= 1
         /\ \A i \in 1..Len(Candidates(g)) : Candidates(g)[i] \in Files
         /\ \A i \in 1..Len(Candidates(g)) : i > 1 =>
              \A h \in Paths : Among(Candidates(g)[i], Candidates(h))
<1> DEFINE c == Candidates(g)
           m == Len(Named(g))
           n == Len(Named(env))
<1>1. /\ c \in Seq(Files) /\ Len(c) = m + n + 1 /\ c[m + n + 1] = Default
      /\ env # "" => c[m + 1] = env
  BY CandidateParts
<1>2. m \in {0, 1} /\ n \in {0, 1} /\ (env = "" => n = 0)
  BY NamedLemma
<1>3. \A h \in Paths : Among(Default, Candidates(h)) /\ (env # "" => Among(env, Candidates(h)))
  <2> TAKE h \in Paths
  <2> DEFINE l == Len(Named(h))
  <2>1. l \in {0, 1}
    BY NamedLemma
  <2>2. /\ Len(Candidates(h)) = l + n + 1 /\ Candidates(h)[l + n + 1] = Default
        /\ env # "" => Candidates(h)[l + 1] = env
    BY CandidateParts
  <2>a. n \in {0, 1}
    BY <1>2
  <2> HIDE DEF l, n
  <2>b. l + n + 1 \in 1..(l + n + 1) /\ l + 1 \in 1..(l + n + 1)
    BY <2>1, <2>a
  <2>3. l + n + 1 \in 1..Len(Candidates(h)) /\ l + 1 \in 1..Len(Candidates(h))
    BY <2>2, <2>b
  <2> QED
    BY <2>2, <2>3 DEF Among
<1> HIDE DEF m, n
<1>a. m \in {0, 1} /\ n \in {0, 1}
  BY <1>2
<1>b. m + n + 1 \in Nat /\ m + n + 1 >= 1
  BY <1>a
<1>4. Len(c) \in Nat /\ Len(c) >= 1
  BY <1>1, <1>b
<1>5. /\ DOMAIN c = 1..Len(c) /\ \A i \in 1..Len(c) : c[i] \in Files
  BY <1>1, LenProperties, ElementOfSeq
<1>6. c # <<>>
  BY <1>4, EmptySeq
<1>7. Head(c) = c[1]
  <2>1. c \in Seq(Files)
    BY <1>1
  <2> HIDE DEF c
  <2> QED
    BY <2>1, <1>6
<1>8. ASSUME NEW i \in 1..Len(c), i > 1, NEW h \in Paths
      PROVE  Among(c[i], Candidates(h))
  <2>a. i \in 1..(m + n + 1) /\ i > 1
    BY <1>1, <1>8
  <2>b. i = m + n + 1 \/ (i = m + 1 /\ n # 0)
    BY <1>a, <2>a
  <2>1. i = m + n + 1 \/ (i = m + 1 /\ env # "")
    BY <1>2, <2>b
  <2> QED
    BY <1>1, <1>3, <2>1
<1> QED
  BY <1>1, <1>4, <1>5, <1>6, <1>7, <1>8

(* What is not at the head is in the tail. *)
LEMMA TailLemma ==
  ASSUME NEW S, NEW s \in Seq(S), s # <<>>
  PROVE  /\ Head(s) = s[1] /\ Head(s) \in S /\ Tail(s) \in Seq(S) /\ Len(s) >= 1
         /\ Len(Tail(s)) = Len(s) - 1 /\ \A i \in 1..Len(s) - 1 : Tail(s)[i] = s[i + 1]
         /\ \A f : Among(f, s) /\ Head(s) # f => Among(f, Tail(s)) /\ Tail(s) # <<>>
<1>1. /\ Head(s) = s[1] /\ Head(s) \in S /\ Tail(s) \in Seq(S) /\ Len(s) \in Nat /\ Len(s) >= 1
      /\ Len(Tail(s)) = Len(s) - 1 /\ \A i \in 1..Len(s) - 1 : Tail(s)[i] = s[i + 1]
  OBVIOUS
<1>2. ASSUME NEW f, Among(f, s), Head(s) # f
      PROVE  Among(f, Tail(s)) /\ Tail(s) # <<>>
  <2>1. PICK i \in 1..Len(s) : s[i] = f
    BY <1>2 DEF Among
  <2> DEFINE k == i - 1
  <2>2. k \in 1..Len(s) - 1 /\ i = k + 1
    BY <1>1, <1>2, <2>1
  <2>3. Tail(s)[k] = f /\ k \in 1..Len(Tail(s))
    <3>1. k \in 1..Len(Tail(s))
      BY <1>1, <2>2
    <3>2. Tail(s)[k] = s[k + 1]
      BY <1>1, <2>2
    <3> HIDE DEF k
    <3> QED
      BY <2>1, <2>2, <3>1, <3>2
  <2>4. Len(Tail(s)) \in Nat /\ Len(Tail(s)) # 0
    BY <1>1, <2>3
  <2>5. Tail(s) # <<>>
    BY <2>4, EmptySeq
  <2> QED
    BY <2>3, <2>5 DEF Among
<1> QED
  BY <1>1, <1>2
-----------------------------------------------------------------------------
(* The inductive invariant.                                                *)

(* The files that p knows. *)
Own(p) == Candidates(given[p])

(* q has still to look into f. *)
Looks(q, f) == pc[q] = "load" /\ Among(f, todo[q])

(* Who is alone is the only one that runs. *)
AloneInv == \A p \in Running : alone[p] => Running = {p}

(* Only a client that is done has an identity. *)
ReturnedInv == \A p \in Processes : returned[p] # None => pc[p] = "done"

(* p has tried the first k files, and found nothing if nobody interfered. *)
Tried(p, k) ==
    /\ Len(Own(p)) = k + Len(todo[p])
    /\ \A m \in 1..Len(todo[p]) : todo[p][m] = Own(p)[k + m]
    /\ alone[p] => \A j \in 1..k : ~Readable(Own(p)[j])

LoadInv == \A p \in Processes : pc[p] = "load" => \E k \in Nat : Tried(p, k)

(* p's identity is in its i-th file, and whoever runs and knows that file  *)
(* has still to look there.                                                *)
Kept(p, i) ==
    /\ file[Own(p)[i]] = returned[p]
    /\ \A j \in 1..i-1 : ~Readable(Own(p)[j])
    /\ \A q \in Running : Among(Own(p)[i], Own(q)) => Looks(q, Own(p)[i])

StableInv ==
    \A p \in Processes :
        alone[p] /\ returned[p] # None => \E i \in 1..Len(Own(p)) : Kept(p, i)

(* Whoever runs, knows a stored identity's file and is past it, ran when it *)
(* was stored.                                                             *)
RaceInv ==
    \A f \in Files, q \in Running :
        Readable(f) /\ Among(f, Own(q)) => q \in rivals[f] \/ Looks(q, f)

IInv == TypeOK /\ AloneInv /\ ReturnedInv /\ LoadInv /\ StableInv /\ RaceInv
-----------------------------------------------------------------------------
(* What a step is: whose, and what it leaves.                              *)

(* The file to mint to, and the loading process's next file. *)
LEMMA PathLemma ==
  ASSUME TypeOK, NEW p \in Processes
  PROVE  /\ Own(p) \in Seq(Files) /\ Len(Own(p)) \in Nat
         /\ \A i \in 1..Len(Own(p)) : Own(p)[i] \in Files
         /\ 1 \in 1..Len(Own(p)) /\ MintPath(p) = Own(p)[1] /\ MintPath(p) \in Files
         /\ Among(MintPath(p), Own(p))
<1>1. given[p] \in Paths /\ env \in Paths
  BY DEF TypeOK
<1> DEFINE c == Own(p)
<1>2. Head(c) = c[1] /\ Len(c) >= 1 /\ c \in Seq(Files) /\ \A i \in 1..Len(c) : c[i] \in Files
  BY <1>1, CandidateLemma DEF Own
<1>3. Len(c) \in Nat
  BY <1>2, LenProperties
<1>4. 1 \in 1..Len(c)
  BY <1>2, <1>3
<1> QED
  BY <1>2, <1>3, <1>4 DEF MintPath, Among, Own

(* Every step keeps the types. *)
LEMMA NextTypeOK ==
  ASSUME TypeOK, [Next]_vars
  PROVE  TypeOK'
<1>1. ASSUME NEW p \in Processes, NEW g \in Paths, NEW key \in BOOLEAN, NewClient(p, g, key)
      PROVE  TypeOK'
  <2>1. Candidates(g) \in Seq(Files) /\ Candidates(g) # <<>>
    BY CandidateLemma DEF TypeOK
  <2>2. todo' \in [Processes -> Seq(Files)]
    BY <1>1, <2>1 DEF NewClient, TypeOK
  <2>3. \A q \in Processes : pc'[q] = "load" => todo'[q] # <<>>
    BY <1>1, <2>1 DEF NewClient, Goto, TypeOK
  <2> QED
    BY <1>1, <2>2, <2>3 DEF NewClient, Goto, TypeOK
<1>2. ASSUME NEW p \in Processes, Load(p)
      PROVE  TypeOK'
  <2>1. todo[p] \in Seq(Files) /\ todo[p] # <<>>
    BY <1>2 DEF Load, TypeOK
  <2>2. Head(todo[p]) \in Files /\ Tail(todo[p]) \in Seq(Files)
    BY <2>1, TailLemma
  <2>3. todo' \in [Processes -> Seq(Files)]
    BY <1>2, <2>2 DEF Load, TypeOK
  <2>4. ASSUME NEW q \in Processes, pc'[q] = "load"
        PROVE  todo'[q] # <<>>
    <3>1. CASE q # p
      BY <1>2, <2>4, <3>1 DEF Load, Goto, TypeOK
    <3>2. CASE q = p
      <4>1. todo'[p] = Tail(todo[p]) /\ Tail(todo[p]) # <<>>
        BY <1>2, <2>4, <3>2 DEF Load, Goto, TypeOK
      <4> QED
        BY <3>2, <4>1
    <3> QED
      BY <3>1, <3>2
  <2>5. pc' \in [Processes -> {"idle", "load", "open", "write", "done", "failed"}]
    <3>1. \E place \in {"load", "open", "done"} : Goto(p, place)
      BY <1>2 DEF Load
    <3> QED
      BY <3>1 DEF Goto, TypeOK
  <2>6. returned' \in [Processes -> Processes \cup {None}]
    BY <1>2, <2>2 DEF Load, TypeOK, Readable
  <2> QED
    BY <1>2, <2>3, <2>4, <2>5, <2>6 DEF Load, TypeOK
<1>3. ASSUME NEW p \in Processes, Truncate(p)
      PROVE  TypeOK'
  BY <1>3, PathLemma DEF Truncate, Goto, TypeOK
<1>4. ASSUME NEW p \in Processes, Write(p)
      PROVE  TypeOK'
  <2>1. rivals' \in [Files -> SUBSET Processes]
    BY <1>4 DEF Write, TypeOK, Running
  <2> QED
    BY <1>4, <2>1 DEF Write, Goto, TypeOK
<1>5. ASSUME NEW p \in Processes, Fail(p)
      PROVE  TypeOK'
  BY <1>5 DEF Fail, Goto, TypeOK, Running
<1>6. CASE UNCHANGED vars
  BY <1>6 DEF vars, TypeOK
<1> QED
  BY <1>1, <1>2, <1>3, <1>4, <1>5, <1>6 DEF Next

(* At the start. *)
LEMMA InitIInv ==
  ASSUME Init
  PROVE  IInv
<1>1. Running = {} /\ \A p \in Processes : pc[p] = "idle" /\ returned[p] = None
  BY DEF Init, Running
<1>2. <<>> \in Seq(Files)
  BY EmptySeq
<1>3. todo \in [Processes -> Seq(Files)] /\ \A p \in Processes : pc[p] # "load"
  BY <1>2 DEF Init
<1>4. TypeOK
  BY <1>3, IdentityAssumption DEF Init, TypeOK
<1> QED
  BY <1>1, <1>4 DEF IInv, AloneInv, ReturnedInv, LoadInv, StableInv, RaceInv

(* Nobody starts to run but a new client. *)
LEMMA RunningLemma ==
  ASSUME TypeOK, NEW p \in Processes
  PROVE  /\ \A g \in Paths, key \in BOOLEAN : NewClient(p, g, key) => Running' = Running \cup {p}
         /\ Load(p) => Running' = IF pc'[p] = "done" THEN Running \ {p} ELSE Running
         /\ Truncate(p) => Running' = Running
         /\ Write(p) \/ Fail(p) => Running' = Running \ {p}
<1>1. ASSUME NEW g \in Paths, NEW key \in BOOLEAN, NewClient(p, g, key)
      PROVE  Running' = Running \cup {p}
  BY <1>1 DEF NewClient, Goto, TypeOK, Running
<1>2. ASSUME Load(p)
      PROVE  Running' = IF pc'[p] = "done" THEN Running \ {p} ELSE Running
  <2>1. pc' = [pc EXCEPT ![p] = pc'[p]] /\ pc'[p] \in {"load", "open", "done"} /\ pc[p] = "load"
    BY <1>2 DEF Load, Goto, TypeOK
  <2> QED
    BY <2>1 DEF TypeOK, Running
<1>3. ASSUME Truncate(p)
      PROVE  Running' = Running
  BY <1>3 DEF Truncate, Goto, TypeOK, Running
<1>4. ASSUME Write(p) \/ Fail(p)
      PROVE  Running' = Running \ {p}
  BY <1>4 DEF Write, Fail, Goto, TypeOK, Running
<1> QED
  BY <1>1, <1>2, <1>3, <1>4

(* A step of q. *)
Step(q) ==
    \/ \E g \in Paths, key \in BOOLEAN : NewClient(q, g, key)
    \/ Load(q) \/ Truncate(q) \/ Write(q) \/ Fail(q)

(* A step leaves the others alone, and the options of who runs. *)
LEMMA OtherLemma ==
  ASSUME TypeOK, NEW q \in Processes, Step(q)
  PROVE  /\ \A p \in Processes : pc[p] # "idle" => Own(p)' = Own(p)
         /\ \A p \in Processes \ {q} :
              /\ pc'[p] = pc[p] /\ Own(p)' = Own(p) /\ todo'[p] = todo[p]
              /\ returned'[p] = returned[p] /\ (alone'[p] => alone[p])
         /\ pc[q] # "idle" => alone' = alone
         /\ \A g \in Paths, key \in BOOLEAN : NewClient(q, g, key) =>
              pc'[q] = "load" /\ todo'[q] = Own(q)' /\ returned' = returned
<1>1. env' = env
  BY DEF Step, NewClient, Load, Truncate, Write, Fail
<1>2. ASSUME NEW p \in Processes, given'[p] = given[p]
      PROVE  Own(p)' = Own(p)
  BY <1>1, <1>2 DEF Own, Candidates, Named
<1>3. ASSUME NEW p \in Processes \ {q}
      PROVE  /\ pc'[p] = pc[p] /\ given'[p] = given[p] /\ todo'[p] = todo[p]
             /\ returned'[p] = returned[p] /\ (alone'[p] => alone[p])
  <2>1. CASE \E g \in Paths, key \in BOOLEAN : NewClient(q, g, key)
    BY <2>1, <1>3 DEF NewClient, Goto, TypeOK
  <2>2. CASE Load(q)
    BY <2>2, <1>3 DEF Load, Goto, TypeOK
  <2>3. CASE Truncate(q)
    BY <2>3, <1>3 DEF Truncate, Goto, TypeOK
  <2>4. CASE Write(q)
    BY <2>4, <1>3 DEF Write, Goto, TypeOK
  <2>5. CASE Fail(q)
    BY <2>5, <1>3 DEF Fail, Goto, TypeOK
  <2> QED
    BY <2>1, <2>2, <2>3, <2>4, <2>5 DEF Step
<1>4. pc[q] # "idle" => given'[q] = given[q] /\ alone' = alone
  BY DEF Step, NewClient, Load, Truncate, Write, Fail
<1>5. ASSUME NEW g \in Paths, NEW key \in BOOLEAN, NewClient(q, g, key)
      PROVE  pc'[q] = "load" /\ todo'[q] = Own(q)' /\ returned' = returned
  <2>1. todo'[q] = Candidates(g) /\ given'[q] = g /\ pc'[q] = "load" /\ returned' = returned
    BY <1>5 DEF NewClient, Goto, TypeOK
  <2>2. Own(q)' = Candidates(g)
    BY <1>1, <2>1 DEF Own, Candidates, Named
  <2> QED
    BY <2>1, <2>2
<1>6. ASSUME NEW p \in Processes, pc[p] # "idle"
      PROVE  Own(p)' = Own(p)
  <2>1. given'[p] = given[p]
    BY <1>3, <1>4, <1>6
  <2> QED
    BY <1>2, <2>1
<1> QED
  BY <1>2, <1>3, <1>4, <1>5, <1>6

(* Files change only where a process mints. *)
LEMMA FileLemma ==
  ASSUME TypeOK, NEW q \in Processes, Step(q), NEW f \in Files
  PROVE  \/ file'[f] = file[f] /\ rivals'[f] = rivals[f]
         \/ f = MintPath(q) /\ Truncate(q) /\ ~Readable(f)'
         \/ f = MintPath(q) /\ Write(q) /\ rivals'[f] = Running \ {q}
<1>1. CASE \E g \in Paths, key \in BOOLEAN : NewClient(q, g, key)
  BY <1>1 DEF NewClient
<1>2. CASE Load(q) \/ Fail(q)
  BY <1>2 DEF Load, Fail
<1>3. CASE Truncate(q)
  BY <1>3, IdentityAssumption DEF Truncate, TypeOK, Readable
<1>4. CASE Write(q)
  BY <1>4 DEF Write, TypeOK
<1> QED
  BY <1>1, <1>2, <1>3, <1>4 DEF Step

(* Who starts has all files before it, and nobody who runs passes a file   *)
(* that it could read.                                                     *)
LEMMA LooksLemma ==
  ASSUME TypeOK, NEW q \in Processes, Step(q), NEW f \in Files, Readable(f),
         NEW r \in Running', r \in Running => Looks(r, f), Among(f, Own(r))'
  PROVE  Looks(r, f)'
<1>1. r \in Processes
  BY DEF Running
<1>2. CASE r # q
  <2>1. pc'[r] = pc[r] /\ todo'[r] = todo[r]
    BY <1>1, <1>2, OtherLemma
  <2>2. r \in Running
    BY <1>1, <2>1 DEF Running
  <2> QED
    BY <2>1, <2>2 DEF Looks, Among
<1>3. CASE r = q
  <2>1. CASE \E g \in Paths, key \in BOOLEAN : NewClient(q, g, key)
    <3>1. todo'[q] = Own(q)' /\ pc'[q] = "load"
      BY <2>1, OtherLemma
    <3> QED
      BY <1>3, <3>1 DEF Looks, Among
  <2>2. CASE Load(q)
    <3>1. pc[q] = "load" /\ q \in Running /\ todo[q] \in Seq(Files) /\ todo[q] # <<>>
      BY <2>2 DEF Load, Running, TypeOK
    <3>2. Among(f, todo[q])
      BY <1>3, <3>1 DEF Looks
    <3>3. ~Readable(Head(todo[q]))
      BY <1>3, <2>2 DEF Load, Goto, Running, TypeOK
    <3>4. Among(f, Tail(todo[q])) /\ Tail(todo[q]) # <<>>
      BY <3>1, <3>2, <3>3, TailLemma
    <3>5. todo'[q] = Tail(todo[q]) /\ pc'[q] = "load"
      BY <2>2, <3>3, <3>4 DEF Load, Goto, TypeOK
    <3> QED
      BY <1>3, <3>4, <3>5 DEF Looks, Among
  <2>3. CASE Truncate(q) \/ Write(q)
    BY <1>3, <2>3 DEF Truncate, Write, Running, Looks
  <2>4. CASE Fail(q)
    BY <1>3, <2>4, RunningLemma
  <2> QED
    BY <2>1, <2>2, <2>3, <2>4 DEF Step
<1> QED
  BY <1>2, <1>3
-----------------------------------------------------------------------------
(* The parts of the invariant, one by one.                                 *)

(* Who is alone stays so until somebody starts. *)
LEMMA NextAlone ==
  ASSUME TypeOK, AloneInv, NEW q \in Processes, Step(q)
  PROVE  AloneInv'
<1> SUFFICES ASSUME NEW p \in Running', alone'[p]
             PROVE  Running' = {p}
  BY DEF AloneInv
<1>1. p \in Processes
  BY DEF Running
<1>2. CASE \E g \in Paths, key \in BOOLEAN : NewClient(q, g, key)
  <2>1. /\ Running' = Running \cup {q}
        /\ alone'[p] = IF p = q THEN Running = {} ELSE alone[p] /\ p \notin Running
    BY <1>1, <1>2, RunningLemma DEF NewClient
  <2>2. CASE p = q
    BY <2>1, <2>2
  <2>3. CASE p # q
    BY <2>1, <2>3
  <2> QED
    BY <2>2, <2>3
<1>3. CASE Load(q) \/ Truncate(q) \/ Write(q) \/ Fail(q)
  <2>1. Running' \subseteq Running
    BY <1>3, RunningLemma
  <2>2. alone' = alone
    BY <1>3 DEF Load, Truncate, Write, Fail
  <2> QED
    BY <2>1, <2>2 DEF AloneInv
<1> QED
  BY <1>2, <1>3 DEF Step

(* An identity is returned as the last step. *)
LEMMA NextReturned ==
  ASSUME TypeOK, ReturnedInv, NEW q \in Processes, Step(q)
  PROVE  ReturnedInv'
<1> SUFFICES ASSUME NEW p \in Processes, returned'[p] # None
             PROVE  pc'[p] = "done"
  BY DEF ReturnedInv
<1>1. CASE p # q
  BY <1>1, OtherLemma DEF ReturnedInv
<1>2. CASE p = q
  BY <1>2 DEF Step, NewClient, Load, Truncate, Write, Fail, Goto, Running, ReturnedInv, TypeOK
<1> QED
  BY <1>1, <1>2

(* A process that was overtaken by nobody has tried its files in order.    *)
LEMMA NextLoad ==
  ASSUME TypeOK, AloneInv, LoadInv, NEW q \in Processes, Step(q)
  PROVE  LoadInv'
<1> SUFFICES ASSUME NEW p \in Processes, pc'[p] = "load"
             PROVE  \E k \in Nat : Tried(p, k)'
  BY DEF LoadInv
<1>1. CASE p # q
  <2>1. /\ pc[p] = "load" /\ Own(p)' = Own(p) /\ todo'[p] = todo[p] /\ (alone'[p] => alone[p])
    BY <1>1, OtherLemma
  <2>2. PICK k \in Nat : Tried(p, k)
    BY <2>1 DEF LoadInv
  <2>3. ASSUME alone'[p], NEW j \in 1..k
        PROVE  ~Readable(Own(p)[j])'
    <3>1. Running = {p}
      BY <2>1, <2>3 DEF AloneInv, Running
    <3>2. ~Truncate(q) /\ ~Write(q)
      BY <1>1, <3>1 DEF Truncate, Write, Running
    <3>3. file' = file
      BY <3>2 DEF Step, NewClient, Load, Fail
    <3>4. ~Readable(Own(p)[j])
      BY <2>1, <2>2, <2>3 DEF Tried
    <3> QED
      BY <2>1, <3>3, <3>4 DEF Readable
  <2>4. Tried(p, k)'
    BY <2>1, <2>2, <2>3 DEF Tried, Readable
  <2> QED
    BY <2>4
<1>2. CASE p = q
  <2>1. CASE \E g \in Paths, key \in BOOLEAN : NewClient(q, g, key)
    <3>1. todo'[q] = Own(q)'
      BY <2>1, OtherLemma
    <3>2. Len(Own(q))' \in Nat
      BY NextTypeOK, PathLemma DEF Step, Next
    <3>3. Tried(q, 0)'
      BY <3>1, <3>2 DEF Tried
    <3> QED
      BY <1>2, <3>3
  <2>2. CASE Load(q)
    <3> DEFINE c == Own(q)
               s == todo[q]
    <3>1. /\ pc[q] = "load" /\ s \in Seq(Files) /\ s # <<>>
      BY <2>2 DEF Load, TypeOK
    <3>2. /\ ~Readable(Head(s)) /\ todo'[q] = Tail(s) /\ UNCHANGED <<file, given, alone>>
      BY <1>2, <2>2 DEF Load, Goto, TypeOK
    <3>3. PICK k \in Nat : Tried(q, k)
      BY <3>1 DEF LoadInv
    <3>4. /\ Len(c) = k + Len(s)
          /\ \A m \in 1..Len(s) : s[m] = c[k + m]
          /\ alone[q] => \A j \in 1..k : ~Readable(c[j])
      BY <3>3 DEF Tried
    <3>5. /\ Head(s) = s[1] /\ Len(s) \in Nat /\ Len(s) >= 1 /\ Len(Tail(s)) = Len(s) - 1
          /\ \A m \in 1..Len(s) - 1 : Tail(s)[m] = s[m + 1]
      BY <3>1, TailLemma, LenProperties
    <3> HIDE DEF c, s
    <3>6. Len(c) = (k + 1) + Len(Tail(s))
      <4>1. \A n \in Nat : k + n = (k + 1) + (n - 1)
        OBVIOUS
      <4> QED
        BY <3>4, <3>5, <4>1
    <3>7. ASSUME NEW m \in 1..Len(Tail(s))
          PROVE  Tail(s)[m] = c[(k + 1) + m]
      <4>1. m \in 1..Len(s) - 1 /\ m + 1 \in 1..Len(s) /\ k + (m + 1) = (k + 1) + m
        BY <3>5
      <4>2. Tail(s)[m] = s[m + 1]
        BY <3>5, <4>1
      <4>3. s[m + 1] = c[k + (m + 1)]
        BY <3>4, <4>1
      <4> QED
        BY <4>1, <4>2, <4>3
    <3>8. ASSUME alone[q], NEW j \in 1..k + 1
          PROVE  ~Readable(c[j])
      <4>1. CASE j = k + 1
        <5>1. 1 \in 1..Len(s)
          BY <3>5
        <5>2. s[1] = c[j]
          BY <3>4, <4>1, <5>1
        <5> QED
          BY <3>2, <3>5, <5>2
      <4>2. CASE j # k + 1
        <5>1. j \in 1..k
          BY <4>2
        <5> QED
          BY <3>4, <3>8, <5>1
      <4> QED
        BY <4>1, <4>2
    <3>9. Own(q)' = c
      BY <3>1, OtherLemma DEF c
    <3>10. k + 1 \in Nat
      OBVIOUS
    <3>11. Tried(q, k + 1)'
      BY <3>2, <3>6, <3>7, <3>8, <3>9 DEF Tried, Readable
    <3> QED
      BY <1>2, <3>10, <3>11
  <2>3. CASE Truncate(q) \/ Write(q) \/ Fail(q)
    BY <1>2, <2>3 DEF Truncate, Write, Fail, Goto, TypeOK
  <2> QED
    BY <2>1, <2>2, <2>3 DEF Step
<1> QED
  BY <1>1, <1>2

(* The identity that a lone client got stays where its options lead. *)
LEMMA NextStable ==
  ASSUME TypeOK, AloneInv, ReturnedInv, LoadInv, StableInv, NEW q \in Processes, Step(q)
  PROVE  StableInv'
<1> SUFFICES ASSUME NEW p \in Processes, alone'[p], returned'[p] # None
             PROVE  \E i \in 1..Len(Own(p)') : Kept(p, i)'
  BY DEF StableInv
<1>1. CASE alone[p] /\ returned[p] # None
  <2>1. pc[p] = "done" /\ returned[p] \in Processes
    BY <1>1 DEF ReturnedInv, TypeOK
  <2>2. p \notin Running /\ returned'[p] = returned[p] /\ Own(p)' = Own(p)
    <3>1. p # q
      BY <2>1 DEF Step, NewClient, Load, Truncate, Write, Fail, Running
    <3> QED
      BY <2>1, <3>1, OtherLemma DEF Running
  <2>3. PICK i \in 1..Len(Own(p)) : Kept(p, i)
    BY <1>1 DEF StableInv
  <2> DEFINE f == Own(p)[i]
  <2>4. f \in Files /\ file[f] = returned[p] /\ Readable(f) /\ f' = f
    BY <2>1, <2>2, <2>3, PathLemma DEF Kept, Readable
  <2>5. ASSUME NEW r \in Running, Among(f, Own(r))
        PROVE  Looks(r, f)
    BY <2>3, <2>5 DEF Kept
  <2>6. \A j \in 1..i-1 : ~Readable(Own(p)[j])
    BY <2>3 DEF Kept
  <2>7. ASSUME Truncate(q) \/ Write(q)
        PROVE  q \in Running /\ ~Among(f, Own(q)) /\ MintPath(q) # f
    <3>1. q \in Running /\ pc[q] # "load"
      BY <2>7 DEF Truncate, Write, Running
    <3>2. ~Among(f, Own(q))
      BY <2>5, <3>1 DEF Looks
    <3> QED
      BY <3>1, <3>2, PathLemma
  <2>8. \A x \in Files : file'[x] = file[x] \/ (x = MintPath(q) /\ (Truncate(q) \/ Write(q)))
    BY FileLemma
  <2>9. file'[f] = file[f]
    BY <2>4, <2>7, <2>8
  <2>10. ASSUME NEW j \in 1..i-1
         PROVE  ~Readable(Own(p)[j])'
    <3> DEFINE x == Own(p)[j]
    <3>1. x \in Files /\ x' = x /\ ~Readable(x)
      BY <2>2, <2>3, <2>6, PathLemma
    <3>2. CASE file'[x] = file[x]
      BY <3>1, <3>2 DEF Readable
    <3>3. CASE file'[x] # file[x] /\ Truncate(q)
      BY <3>1, <3>3, FileLemma DEF Truncate, Write, Readable
    <3>4. CASE file'[x] # file[x] /\ Write(q)
      <4>1. Among(f, Own(q))
        <5>1. i > 1
          BY <2>10
        <5> QED
          BY <5>1, CandidateLemma DEF Own, TypeOK
      <4> QED
        BY <2>7, <3>4, <4>1
    <3> QED
      BY <2>8, <3>1, <3>2, <3>3, <3>4
  <2>11. ASSUME NEW r \in Running', Among(f, Own(r))'
         PROVE  Looks(r, f)'
    <3>1. ASSUME r \in Running
          PROVE  Looks(r, f)
      <4>1. r \in Processes /\ pc[r] # "idle"
        BY <3>1 DEF Running
      <4>2. Own(r)' = Own(r)
        BY <4>1, OtherLemma
      <4> QED
        BY <2>4, <2>5, <2>11, <3>1, <4>2 DEF Among
    <3> HIDE DEF f
    <3> QED
      BY <2>4, <2>11, <3>1, LooksLemma
  <2>12. Kept(p, i)'
    BY <2>2, <2>4, <2>9, <2>10, <2>11 DEF Kept
  <2> QED
    BY <2>2, <2>12
<1>2. CASE ~(alone[p] /\ returned[p] # None)
  <2>1. p = q
    BY <1>2, OtherLemma
  <2>2. CASE Load(q)
    <3>1. /\ pc[p] = "load" /\ todo[p] \in Seq(Files) /\ todo[p] # <<>> /\ p \in Running
          /\ returned[p] = None
      BY <2>1, <2>2 DEF Load, TypeOK, Running, ReturnedInv
    <3>2. /\ Readable(Head(todo[p])) /\ returned'[p] = file[Head(todo[p])] /\ pc'[p] = "done"
          /\ file' = file
      BY <2>1, <2>2, <3>1 DEF Load, Goto, TypeOK
    <3>3. alone[p] /\ Own(p)' = Own(p)
      BY <2>1, <3>1, OtherLemma
    <3>4. Running' = {}
      <4>1. Running = {p}
        BY <3>1, <3>3 DEF AloneInv
      <4> QED
        BY <2>1, <2>2, <3>2, <4>1, RunningLemma
    <3>5. PICK k \in Nat : Tried(p, k)
      BY <3>1 DEF LoadInv
    <3>6. Head(todo[p]) = todo[p][1] /\ Len(todo[p]) \in Nat /\ Len(todo[p]) >= 1
      BY <3>1, TailLemma, LenProperties
    <3>7. 1 \in 1..Len(todo[p])
      BY <3>6
    <3>8. todo[p][1] = Own(p)[k + 1] /\ \A j \in 1..k : ~Readable(Own(p)[j])
      BY <3>3, <3>5, <3>7 DEF Tried
    <3>9. k + 1 \in 1..Len(Own(p))
      <4>1. \A n \in Nat : n >= 1 => k + 1 \in 1..(k + n)
        OBVIOUS
      <4>2. Len(Own(p)) = k + Len(todo[p])
        BY <3>5 DEF Tried
      <4> QED
        BY <3>6, <4>1, <4>2
    <3>10. (k + 1) - 1 = k
      OBVIOUS
    <3>11. Kept(p, k + 1)'
      BY <3>2, <3>3, <3>4, <3>6, <3>8, <3>10 DEF Kept, Readable
    <3> QED
      BY <3>3, <3>9, <3>11
  <2>3. CASE Write(q)
    <3>1. p \in Running /\ returned'[p] = p /\ Own(p)' = Own(p) /\ alone[p]
      BY <2>1, <2>3, OtherLemma DEF Write, TypeOK, Running
    <3>2. Running' = {}
      <4>1. Running = {p}
        BY <3>1 DEF AloneInv
      <4> QED
        BY <2>1, <2>3, <4>1, RunningLemma
    <3>3. /\ 1 \in 1..Len(Own(p)) /\ MintPath(p) = Own(p)[1] /\ MintPath(p) \in Files
      BY PathLemma
    <3>4. file'[Own(p)[1]] = p
      BY <2>1, <2>3, <3>3 DEF Write, TypeOK
    <3>5. 1..1 - 1 = {}
      OBVIOUS
    <3>6. Kept(p, 1)'
      BY <3>1, <3>2, <3>4, <3>5 DEF Kept
    <3> QED
      BY <3>1, <3>3, <3>6
  <2>4. CASE (\E g \in Paths, key \in BOOLEAN : NewClient(q, g, key)) \/ Truncate(q) \/ Fail(q)
    <3>1. returned' = returned /\ pc[p] # "done"
      BY <2>1, <2>4 DEF NewClient, Truncate, Fail, Running
    <3> QED
      BY <3>1 DEF ReturnedInv
  <2> QED
    BY <2>2, <2>3, <2>4 DEF Step
<1> QED
  BY <1>1, <1>2

(* Whoever is past a file that it knows ran when an identity came there.   *)
LEMMA NextRace ==
  ASSUME TypeOK, RaceInv, NEW q \in Processes, Step(q)
  PROVE  RaceInv'
<1> SUFFICES ASSUME NEW f \in Files, NEW r \in Running', Readable(f)', Among(f, Own(r))'
             PROVE  r \in rivals'[f] \/ Looks(r, f)'
  BY DEF RaceInv
<1>1. CASE file'[f] = file[f] /\ rivals'[f] = rivals[f]
  <2>1. Readable(f)
    BY <1>1 DEF Readable
  <2>2. CASE r \in Running
    <3>1. r \in Processes /\ pc[r] # "idle"
      BY <2>2 DEF Running
    <3>2. Among(f, Own(r))
      BY <3>1, OtherLemma DEF Among
    <3>3. r \in rivals[f] \/ Looks(r, f)
      BY <2>1, <2>2, <3>2 DEF RaceInv
    <3> QED
      BY <1>1, <2>1, <3>3, LooksLemma
  <2>3. CASE r \notin Running
    BY <2>1, <2>3, LooksLemma
  <2> QED
    BY <2>2, <2>3
<1>2. CASE Write(q) /\ rivals'[f] = Running \ {q}
  BY <1>2, RunningLemma
<1> QED
  BY <1>1, <1>2, FileLemma

(* The invariant is inductive. *)
LEMMA NextIInv ==
  ASSUME IInv, [Next]_vars
  PROVE  IInv'
<1>1. TypeOK'
  BY NextTypeOK DEF IInv
<1>2. ASSUME NEW q \in Processes, Step(q)
      PROVE  IInv'
  BY <1>1, <1>2, NextAlone, NextReturned, NextLoad, NextStable, NextRace DEF IInv
<1>3. CASE UNCHANGED vars
  <2>1. \A p \in Processes : Own(p)' = Own(p)
    BY <1>3 DEF vars, Own, Candidates, Named
  <2>2. Running' = Running
    BY <1>3 DEF vars, Running
  <2>3. \A p \in Processes : \A f : Looks(p, f)' <=> Looks(p, f)
    BY <1>3 DEF vars, Looks, Among
  <2>4. AloneInv' /\ ReturnedInv'
    BY <1>3, <2>2 DEF vars, AloneInv, ReturnedInv, IInv
  <2>5. \A p \in Processes, k \in Nat : Tried(p, k)' <=> Tried(p, k)
    BY <1>3, <2>1 DEF vars, Tried, Readable
  <2>6. LoadInv'
    BY <1>3, <2>5 DEF vars, LoadInv, IInv
  <2>7. \A p \in Processes : \A i \in 1..Len(Own(p)) : Kept(p, i) => Kept(p, i)'
    <3> SUFFICES ASSUME NEW p \in Processes, NEW i \in 1..Len(Own(p)), Kept(p, i)
                 PROVE  Kept(p, i)'
      OBVIOUS
    <3>1. \A r \in Running : r \in Processes
      BY DEF Running
    <3> QED
      BY <1>3, <2>1, <2>2, <2>3, <3>1 DEF vars, Kept, Readable, Among
  <2>8. StableInv'
    BY <1>3, <2>1, <2>7 DEF vars, StableInv, IInv
  <2>9. RaceInv'
    BY <1>3, <2>1, <2>2, <2>3 DEF vars, RaceInv, IInv, Readable, Running, Among
  <2> QED
    BY <1>1, <2>4, <2>6, <2>8, <2>9 DEF IInv
<1> QED
  BY <1>2, <1>3 DEF Next, Step

(* The invariant says that the identity is stable, *)
LEMMA IInvStable ==
  ASSUME IInv
  PROVE  IdentityIsStable
<1> SUFFICES ASSUME NEW p \in Processes, alone[p], returned[p] # None
             PROVE  \E i \in DOMAIN Candidates(given[p]) : FindsAt(given[p], returned[p], i)
  BY DEF IdentityIsStable
<1>1. PICK i \in 1..Len(Own(p)) : Kept(p, i)
  BY DEF IInv, StableInv
<1>2. DOMAIN Candidates(given[p]) = 1..Len(Own(p))
  BY CandidateLemma DEF IInv, TypeOK, Own
<1> QED
  BY <1>1, <1>2 DEF Kept, FindsAt, Own

(* ... and, of a step, that it destroys no identity but in a race. *)
LEMMA IInvRace ==
  ASSUME IInv, Next, NEW f \in Files, Readable(f), file'[f] # file[f]
  PROVE  \E p \in rivals[f] : pc[p] \in {"open", "write"} /\ pc'[p] # pc[p]
<1>1. PICK q \in Processes : Step(q)
  BY DEF Next, Step
<1>2. f = MintPath(q) /\ (Truncate(q) \/ Write(q))
  BY <1>1, FileLemma DEF IInv
<1>3. q \in Running /\ pc[q] \in {"open", "write"} /\ pc'[q] # pc[q]
  BY <1>2 DEF Truncate, Write, Goto, Running, IInv, TypeOK
<1>4. Among(f, Own(q))
  BY <1>2, PathLemma DEF IInv
<1>5. q \in rivals[f]
  BY <1>3, <1>4 DEF IInv, RaceInv, Looks
<1> QED
  BY <1>3, <1>5
-----------------------------------------------------------------------------
(* The variables keep their types. *)
THEOREM TypeCorrect == Spec => []TypeOK
<1>1. Init => TypeOK
  BY InitIInv DEF IInv
<1>2. TypeOK /\ [Next]_vars => TypeOK'
  BY NextTypeOK
<1> QED
  BY <1>1, <1>2, PTL DEF Spec

(* An identity that a client got while no other process ran is the one     *)
(* that its options lead to ever after.                                    *)
THEOREM StableCorrect == Spec => []IdentityIsStable
<1>1. Init => IInv
  BY InitIInv
<1>2. IInv /\ [Next]_vars => IInv'
  BY NextIInv
<1>3. IInv => IdentityIsStable
  BY IInvStable
<1> QED
  BY <1>1, <1>2, <1>3, PTL DEF Spec

(* A stored identity is only ever destroyed by a process that was already  *)
(* looking when it was stored.                                             *)
THEOREM OverwrittenCorrect == Spec => OverwrittenOnlyInRace
<1>1. Init => IInv
  BY InitIInv
<1>2. IInv /\ [Next]_vars => IInv'
  BY NextIInv
<1>3. IInv /\ [Next]_vars =>
        [\A f \in Files : Readable(f) /\ file'[f] # file[f] =>
            \E p \in rivals[f] : pc[p] \in {"open", "write"} /\ pc'[p] # pc[p]]_vars
  BY IInvRace
<1> QED
  BY <1>1, <1>2, <1>3, PTL DEF Spec, OverwrittenOnlyInRace
=============================================================================
