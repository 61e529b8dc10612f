------------------------ MODULE RequestStore_proofs ------------------------
(* Proofs of the safety properties of RequestStore, for every value of the *)
(* constants: any number of requests, of HTTP calls and of clock ticks.    *)
EXTENDS RequestStore, TLAPS

(* The lengths of the statuses. *)
LEMMA WidthType == \A s \in Status : Width(s) \in {4, 6, 7, 9}
  BY DEF Status, Width

(* A read of a status yields a status or Torn. *)
LEMMA StatusOfType ==
  ASSUME TypeOK, NEW r \in Requests
  PROVE  StatusOf(r) \in Status \cup {Torn}
  BY DEF StatusOf, TypeOK

(* A read yields the status whose pointer is stored, if it yields any. *)
LEMMA StatusOfPtr ==
  ASSUME NEW r \in Requests, StatusOf(r) # Torn
  PROVE  ptr[r] = StatusOf(r)
  BY DEF StatusOf

(* Reading on keeps the type of a snapshot. *)
LEMMA ReadOnType ==
  ASSUME TypeOK, NEW x \in Snapshot, NEW r \in Requests
  PROVE  ReadOn(x, r) \in Snapshot
<1>1. StatusOf(r) \in Status \cup {Torn}
  BY StatusOfType
<1>2. resp[r] \in Response
  BY DEF TypeOK
<1> QED
  BY <1>1, <1>2 DEF ReadOn, Snapshot

-----------------------------------------------------------------------------
(* The types hold at the start. *)
LEMMA InitTypeOK == Init => TypeOK
<1> SUFFICES ASSUME Init PROVE TypeOK
  OBVIOUS
<1>1. Width("pending") = 7
  BY DEF Width
<1>2. NoSnap \in Snapshot
  BY DEF NoSnap, NewEvent, Snapshot, Response
<1> QED
  BY <1>1, <1>2 DEF Init, TypeOK, Status, Response, PCs

(* The effect of one assignment is well typed. *)
LEMMA WriteTypeOK ==
  ASSUME TypeOK, JobInv, NEW h \in Handlers, NEW s \in Stores, MayStore(h, s), Write(h, s)
  PROVE  /\ ptr' \in [Requests -> Status]
         /\ len' \in [Requests -> {4, 6, 7, 9}]
         /\ resp' \in [Requests -> Response]
         /\ by' \in [Requests -> AllOps \cup {None}]
         /\ todo' \in [Handlers -> SUBSET Stores]
<1>1. s \in todo[h] /\ want[h] \in Status /\ op[h] \in AllOps
  BY DEF MayStore, JobInv, Job
<1>2. Width(want[h]) \in {4, 6, 7, 9}
  BY <1>1, WidthType
<1>3. Given(h, TRUE) \in Response /\ Given(h, FALSE) \in Response /\ None \in Response
  BY DEF Given, Response, Answer
<1>4. ptr' \in [Requests -> Status]
  BY <1>1 DEF Write, TypeOK
<1>5. len' \in [Requests -> {4, 6, 7, 9}]
  BY <1>2 DEF Write, TypeOK
<1>6. resp' \in [Requests -> Response]
  BY <1>3 DEF Write, TypeOK
<1>7. by' \in [Requests -> AllOps \cup {None}]
  BY <1>1 DEF Write, TypeOK
<1>8. todo' \in [Handlers -> SUBSET Stores]
  BY DEF Write, TypeOK
<1> QED
  BY <1>4, <1>5, <1>6, <1>7, <1>8

(* Every step keeps the types; JobInv is what makes the stores well typed. *)
LEMMA NextTypeOK == TypeOK /\ JobInv /\ [Next]_vars => TypeOK'
<1> SUFFICES ASSUME TypeOK, JobInv, [Next]_vars PROVE TypeOK'
  OBVIOUS
<1>1. CASE Tick
  BY <1>1 DEF Tick, TypeOK, reqVars, jobVars, outVars
<1>2. ASSUME NEW h \in Handlers, NEW r \in Requests, NEW s \in Shapes, Create(h, r, s)
      PROVE  TypeOK'
  <2>1. Width("held") = 4 /\ Width("pending") = 7
    BY DEF Width
  <2>2. [deadline |-> IF s.life = None THEN None ELSE now + s.life,
         key |-> s.key, url |-> s.url, delivery |-> s.delivery, held |-> s.held] \in Attr
    BY ConstantsAssumption DEF Attr, ShapeType, TypeOK
  <2>3. attr' \in [Requests -> Attr \cup {None}]
    BY <1>2, <2>2 DEF Create, TypeOK
  <2>4. /\ ptr' \in [Requests -> Status]
        /\ len' \in [Requests -> {4, 6, 7, 9}]
    BY <1>2, <2>1 DEF Create, TypeOK, Status
  <2> QED
    BY <1>2, <2>3, <2>4 DEF Create, TypeOK, PCs, AllOps, outVars
<1>3. ASSUME NEW h \in Handlers, NEW r \in Requests, NEW o \in LockOps, GetAndExpire(h, o, r)
      PROVE  TypeOK'
  BY <1>3 DEF GetAndExpire, TypeOK, PCs, AllOps, reqVars, outVars, AfterGet
<1>4. ASSUME NEW h \in Handlers, NEW o \in SweepOps, NEW S \in SUBSET Stored, Sweep(h, o, S)
      PROVE  TypeOK'
  BY <1>4 DEF Sweep, TypeOK, PCs, AllOps, Stored, reqVars, outVars
<1>5. ASSUME NEW h \in Handlers, CheckClock(h)
      PROVE  TypeOK'
  BY <1>5 DEF CheckClock, TypeOK, PCs, Status, StatusWords, Stores, reqVars, outVars, AfterGet
<1>6. ASSUME NEW h \in Handlers, MarkOpened(h)
      PROVE  TypeOK'
  BY <1>6 DEF MarkOpened, TypeOK, PCs, Status, StatusWords, Stores, reqVars, outVars
<1>7. ASSUME NEW h \in Handlers, NEW r \in Requests, Visit(h, r)
      PROVE  TypeOK'
  BY SMTT(30), <1>7 DEF Visit, TypeOK, PCs, Status, StatusWords, Stores, reqVars, outVars
<1>8. ASSUME NEW h \in Handlers, SweepEnd(h)
      PROVE  TypeOK'
  BY <1>8 DEF SweepEnd, TypeOK, PCs, Stored, reqVars, outVars
<1>9. ASSUME NEW h \in Handlers, NEW s \in Stores, LockedStore(h, s)
      PROVE  TypeOK'
  <2>1. MayStore(h, s) /\ Write(h, s)
    BY <1>9 DEF LockedStore
  <2>2. pc' \in [Handlers -> PCs] /\ mu' \in Handlers \cup {None}
    BY <1>9 DEF LockedStore, TypeOK, PCs, AfterGet
  <2>3. attr' = attr
    BY <2>1 DEF Write
  <2> QED
    BY <1>9, <2>1, <2>2, <2>3, WriteTypeOK DEF LockedStore, TypeOK, outVars
<1>10. ASSUME NEW h \in Handlers, Reject(h)
       PROVE  TypeOK'
  BY <1>10 DEF Reject, TypeOK, PCs, reqVars, outVars
<1>11. ASSUME NEW h \in Handlers, NEW b \in {"short", "long", "empty"}, Respond(h, b)
       PROVE  TypeOK'
  BY <1>11 DEF Respond, AnswerStores, TypeOK, PCs, Status, Stores, reqVars, outVars
<1>12. ASSUME NEW h \in Handlers, NEW s \in PatchStatuses \cup {None}, Patch(h, s)
       PROVE  TypeOK'
  BY <1>12, ConstantsAssumption DEF Patch, TypeOK, PCs, StatusWords, Stores, reqVars, outVars
<1>13. ASSUME NEW h \in Handlers, NEW s \in Stores, UnlockedStore(h, s)
       PROVE  TypeOK'
  <2>1. MayStore(h, s) /\ Write(h, s)
    BY <1>13 DEF UnlockedStore
  <2> QED
    BY <1>13, <2>1, WriteTypeOK DEF UnlockedStore, Write, TypeOK, PCs, outVars
<1>14. ASSUME NEW h \in Handlers, Dispatch(h)
       PROVE  TypeOK'
  <2>1. NewEvent(EventType(op[h])) \in Snapshot
    BY DEF NewEvent, EventType, Snapshot, Response
  <2> QED
    BY <1>14, <2>1 DEF Dispatch, TypeOK, PCs, reqVars
<1>15. ASSUME NEW h \in Handlers, ReadReply(h)
       PROVE  TypeOK'
  <2>1. ReadOn(reply[h], tgt[h]) \in Snapshot
    BY <1>15, ReadOnType DEF ReadReply, TypeOK, JobInv, Job, PCs, Stored
  <2> QED
    BY <1>15, <2>1 DEF ReadReply, TypeOK, PCs, reqVars
<1>16. ASSUME NEW h \in Handlers, SendWebhook(h)
       PROVE  TypeOK'
  <2>1. ReadOn(event[h], tgt[h]) \in Snapshot
    BY <1>16, ReadOnType DEF SendWebhook, TypeOK, JobInv, Job, Stored
  <2> QED
    BY <1>16, <2>1 DEF SendWebhook, TypeOK, reqVars, jobVars
<1>17. CASE UNCHANGED vars
  BY <1>17 DEF vars, reqVars, jobVars, outVars, TypeOK
<1> QED
  BY <1>1, <1>2, <1>3, <1>4, <1>5, <1>6, <1>7, <1>8, <1>9, <1>10, <1>11, <1>12, <1>13,
     <1>14, <1>15, <1>16, <1>17 DEF Next, Arrive, Proceed
-----------------------------------------------------------------------------
(* The locked sections exclude one another: whoever enters one finds the   *)
(* mutex free, and gives it up when it leaves.                             *)
LEMMA NextMutexInv == TypeOK /\ MutexInv /\ [Next]_vars => MutexInv'
<1> SUFFICES ASSUME TypeOK, MutexInv, [Next]_vars PROVE MutexInv'
  OBVIOUS
<1> USE ConstantsAssumption
<1>1. CASE Tick
  BY <1>1 DEF Tick, MutexInv, jobVars
<1>2. ASSUME NEW h \in Handlers, NEW r \in Requests, NEW s \in Shapes, Create(h, r, s)
      PROVE  MutexInv'
  BY <1>2 DEF Create, MutexInv, TypeOK
<1>3. ASSUME NEW h \in Handlers, NEW r \in Requests, NEW o \in LockOps, GetAndExpire(h, o, r)
      PROVE  MutexInv'
  BY <1>3 DEF GetAndExpire, MutexInv, TypeOK, AfterGet
<1>4. ASSUME NEW h \in Handlers, NEW o \in SweepOps, NEW S \in SUBSET Stored, Sweep(h, o, S)
      PROVE  MutexInv'
  BY <1>4 DEF Sweep, MutexInv, TypeOK
<1>5. ASSUME NEW h \in Handlers, CheckClock(h)
      PROVE  MutexInv'
  BY <1>5 DEF CheckClock, MutexInv, TypeOK, AfterGet
<1>6. ASSUME NEW h \in Handlers, MarkOpened(h)
      PROVE  MutexInv'
  BY <1>6 DEF MarkOpened, MutexInv, TypeOK
<1>7. ASSUME NEW h \in Handlers, NEW r \in Requests, Visit(h, r)
      PROVE  MutexInv'
  BY <1>7 DEF Visit, MutexInv, TypeOK
<1>8. ASSUME NEW h \in Handlers, SweepEnd(h)
      PROVE  MutexInv'
  BY <1>8 DEF SweepEnd, MutexInv, TypeOK
<1>9. ASSUME NEW h \in Handlers, NEW s \in Stores, LockedStore(h, s)
      PROVE  MutexInv'
  BY <1>9 DEF LockedStore, MutexInv, TypeOK, AfterGet
<1>10. ASSUME NEW h \in Handlers, Reject(h)
       PROVE  MutexInv'
  BY <1>10 DEF Reject, MutexInv, TypeOK
<1>11. ASSUME NEW h \in Handlers, NEW b \in {"short", "long", "empty"}, Respond(h, b)
       PROVE  MutexInv'
  BY <1>11 DEF Respond, MutexInv, TypeOK
<1>12. ASSUME NEW h \in Handlers, NEW s \in PatchStatuses \cup {None}, Patch(h, s)
       PROVE  MutexInv'
  BY <1>12 DEF Patch, MutexInv, TypeOK
<1>13. ASSUME NEW h \in Handlers, NEW s \in Stores, UnlockedStore(h, s)
       PROVE  MutexInv'
  BY <1>13 DEF UnlockedStore, MutexInv, TypeOK
<1>14. ASSUME NEW h \in Handlers, Dispatch(h)
       PROVE  MutexInv'
  BY <1>14 DEF Dispatch, MutexInv, TypeOK
<1>15. ASSUME NEW h \in Handlers, ReadReply(h)
       PROVE  MutexInv'
  BY <1>15 DEF ReadReply, MutexInv, TypeOK
<1>16. ASSUME NEW h \in Handlers, SendWebhook(h)
       PROVE  MutexInv'
  BY <1>16 DEF SendWebhook, MutexInv, jobVars
<1>17. CASE UNCHANGED vars
  BY <1>17 DEF vars, jobVars, MutexInv
<1> QED
  BY <1>1, <1>2, <1>3, <1>4, <1>5, <1>6, <1>7, <1>8, <1>9, <1>10, <1>11, <1>12, <1>13,
     <1>14, <1>15, <1>16, <1>17 DEF Next, Arrive, Proceed
-----------------------------------------------------------------------------
(* Where a handler stands determines its locals.  The steps of the others  *)
(* only store more requests and let time pass.                             *)
LocalsUnchanged(h) ==
    /\ op'[h] = op[h] /\ pc'[h] = pc[h] /\ tgt'[h] = tgt[h] /\ want'[h] = want[h]
    /\ todo'[h] = todo[h] /\ visit'[h] = visit[h] /\ clk'[h] = clk[h]
    /\ body'[h] = body[h] /\ reply'[h] = reply[h] /\ event'[h] = event[h]

(* A step of another handler does not disturb g's job. *)
LEMMA JobFrame ==
  ASSUME NEW g \in Handlers, TypeOK, Job(g), LocalsUnchanged(g), Stored \subseteq Stored',
         now <= now', now' \in Nat
  PROVE  Job(g)'
<1>1. clk'[g] <= now'
  BY DEF Job, LocalsUnchanged, TypeOK
<1> QED
  BY <1>1 DEF Job, LocalsUnchanged

(* Every step keeps every handler's job. *)
LEMMA NextJobInv == TypeOK /\ MutexInv /\ JobInv /\ [Next]_vars => JobInv'
<1> SUFFICES ASSUME TypeOK, MutexInv, JobInv, [Next]_vars PROVE JobInv'
  OBVIOUS
<1> USE ConstantsAssumption
<1>1. CASE Tick
  BY <1>1 DEF Tick, JobInv, Job, Stored, reqVars, jobVars, outVars, TypeOK
<1>2. ASSUME NEW h \in Handlers, NEW r \in Requests, NEW s \in Shapes, Create(h, r, s)
      PROVE  JobInv'
  <2> SUFFICES ASSUME NEW g \in Handlers PROVE Job(g)'
    BY DEF JobInv
  <2>0. Job(g)
    BY DEF JobInv
  <2>1. CASE g # h
    <3>1. /\ LocalsUnchanged(g)
          /\ Stored \subseteq Stored'
          /\ now <= now' /\ now' \in Nat
      BY <1>2, <2>1 DEF Create, LocalsUnchanged, Stored, TypeOK, reqVars, jobVars, outVars
    <3> QED
      BY <3>1, <2>0, JobFrame
  <2>2. CASE g = h
    <3>1. /\ op'[h] = "create" /\ pc'[h] = "read" /\ tgt'[h] = r
          /\ todo'[h] = todo[h] /\ want'[h] = want[h] /\ visit'[h] = visit[h]
          /\ clk'[h] = clk[h] /\ reply'[h] = reply[h] /\ event'[h] = event[h] /\ now' = now
      BY <1>2 DEF Create, TypeOK, outVars
    <3>2. attr'[r] \in Attr
      BY <1>2 DEF Create, TypeOK, Attr, ShapeType
    <3>3. r \in Stored' /\ Stored \subseteq Stored'
      BY <1>2, <3>2 DEF Create, TypeOK, Stored
    <3>4. pc[h] = "idle"
      BY <1>2 DEF Create
    <3> QED
      BY <3>1, <3>3, <3>4, <2>0, <2>2 DEF Job, AllOps, LockOps, SweepOps, PCs
  <2> QED
    BY <2>1, <2>2
<1>3. ASSUME NEW h \in Handlers, NEW r \in Requests, NEW o \in LockOps, GetAndExpire(h, o, r)
      PROVE  JobInv'
  <2> SUFFICES ASSUME NEW g \in Handlers PROVE Job(g)'
    BY DEF JobInv
  <2>0. Job(g)
    BY DEF JobInv
  <2>1. CASE g # h
    <3>1. /\ LocalsUnchanged(g)
          /\ Stored \subseteq Stored'
          /\ now <= now' /\ now' \in Nat
      BY <1>3, <2>1 DEF GetAndExpire, LocalsUnchanged, Stored, TypeOK, reqVars, jobVars, outVars
    <3> QED
      BY <3>1, <2>0, JobFrame
  <2>2. CASE g = h
    BY <1>3, <2>0, <2>2 DEF GetAndExpire, Job, TypeOK, Stored, PCs, reqVars, jobVars, outVars, AfterGet, LockOps, SweepOps, AllOps
  <2> QED
    BY <2>1, <2>2
<1>4. ASSUME NEW h \in Handlers, NEW o \in SweepOps, NEW S \in SUBSET Stored, Sweep(h, o, S)
      PROVE  JobInv'
  <2> SUFFICES ASSUME NEW g \in Handlers PROVE Job(g)'
    BY DEF JobInv
  <2>0. Job(g)
    BY DEF JobInv
  <2>1. CASE g # h
    <3>1. /\ LocalsUnchanged(g)
          /\ Stored \subseteq Stored'
          /\ now <= now' /\ now' \in Nat
      BY <1>4, <2>1 DEF Sweep, LocalsUnchanged, Stored, TypeOK, reqVars, jobVars, outVars
    <3> QED
      BY <3>1, <2>0, JobFrame
  <2>2. CASE g = h
    BY <1>4, <2>0, <2>2 DEF Sweep, Job, TypeOK, Stored, PCs, reqVars, jobVars, outVars, LockOps, SweepOps, AllOps
  <2> QED
    BY <2>1, <2>2
<1>5. ASSUME NEW h \in Handlers, CheckClock(h)
      PROVE  JobInv'
  <2> SUFFICES ASSUME NEW g \in Handlers PROVE Job(g)'
    BY DEF JobInv
  <2>0. Job(g)
    BY DEF JobInv
  <2>1. CASE g # h
    <3>1. /\ LocalsUnchanged(g)
          /\ Stored \subseteq Stored'
          /\ now <= now' /\ now' \in Nat
      BY <1>5, <2>1 DEF CheckClock, LocalsUnchanged, Stored, TypeOK, reqVars, jobVars, outVars
    <3> QED
      BY <3>1, <2>0, JobFrame
  <2>2. CASE g = h
    BY <1>5, <2>0, <2>2 DEF CheckClock, Job, TypeOK, Stored, PCs, reqVars, jobVars, outVars, AfterGet, LockOps, SweepOps, AllOps, StatusWords, Status
  <2> QED
    BY <2>1, <2>2
<1>6. ASSUME NEW h \in Handlers, MarkOpened(h)
      PROVE  JobInv'
  <2> SUFFICES ASSUME NEW g \in Handlers PROVE Job(g)'
    BY DEF JobInv
  <2>0. Job(g)
    BY DEF JobInv
  <2>1. CASE g # h
    <3>1. /\ LocalsUnchanged(g)
          /\ Stored \subseteq Stored'
          /\ now <= now' /\ now' \in Nat
      BY <1>6, <2>1 DEF MarkOpened, LocalsUnchanged, Stored, TypeOK, reqVars, jobVars, outVars
    <3> QED
      BY <3>1, <2>0, JobFrame
  <2>2. CASE g = h
    BY <1>6, <2>0, <2>2 DEF MarkOpened, Job, TypeOK, Stored, PCs, reqVars, jobVars, outVars, StatusWords, Status
  <2> QED
    BY <2>1, <2>2
<1>7. ASSUME NEW h \in Handlers, NEW r \in Requests, Visit(h, r)
      PROVE  JobInv'
  <2> SUFFICES ASSUME NEW g \in Handlers PROVE Job(g)'
    BY DEF JobInv
  <2>0. Job(g)
    BY DEF JobInv
  <2>1. CASE g # h
    <3>1. /\ LocalsUnchanged(g)
          /\ Stored \subseteq Stored'
          /\ now <= now' /\ now' \in Nat
      BY <1>7, <2>1 DEF Visit, LocalsUnchanged, Stored, TypeOK, reqVars, jobVars, outVars
    <3> QED
      BY <3>1, <2>0, JobFrame
  <2>2. CASE g = h
    BY <1>7, <2>0, <2>2 DEF Visit, Job, TypeOK, Stored, PCs, reqVars, jobVars, outVars, StatusWords, Status
  <2> QED
    BY <2>1, <2>2
<1>8. ASSUME NEW h \in Handlers, SweepEnd(h)
      PROVE  JobInv'
  <2> SUFFICES ASSUME NEW g \in Handlers PROVE Job(g)'
    BY DEF JobInv
  <2>0. Job(g)
    BY DEF JobInv
  <2>1. CASE g # h
    <3>1. /\ LocalsUnchanged(g)
          /\ Stored \subseteq Stored'
          /\ now <= now' /\ now' \in Nat
      BY <1>8, <2>1 DEF SweepEnd, LocalsUnchanged, Stored, TypeOK, reqVars, jobVars, outVars
    <3> QED
      BY <3>1, <2>0, JobFrame
  <2>2. CASE g = h
    BY <1>8, <2>0, <2>2 DEF SweepEnd, Job, TypeOK, Stored, PCs, reqVars, jobVars, outVars
  <2> QED
    BY <2>1, <2>2
<1>9. ASSUME NEW h \in Handlers, NEW s \in Stores, LockedStore(h, s)
      PROVE  JobInv'
  <2> SUFFICES ASSUME NEW g \in Handlers PROVE Job(g)'
    BY DEF JobInv
  <2>0. Job(g)
    BY DEF JobInv
  <2>1. CASE g # h
    <3>1. /\ LocalsUnchanged(g)
          /\ Stored \subseteq Stored'
          /\ now <= now' /\ now' \in Nat
      BY <1>9, <2>1 DEF LockedStore, Write, LocalsUnchanged, Stored, TypeOK, reqVars, jobVars, outVars
    <3> QED
      BY <3>1, <2>0, JobFrame
  <2>2. CASE g = h
    <3>1. /\ op'[h] = op[h] /\ tgt'[h] = tgt[h] /\ want'[h] = want[h] /\ visit'[h] = visit[h]
          /\ clk'[h] = clk[h] /\ reply'[h] = reply[h] /\ event'[h] = event[h]
          /\ now' = now /\ Stored' = Stored
      BY <1>9 DEF LockedStore, Write, Stored, outVars
    <3>2. pc[h] = "locked" /\ todo'[h] = todo[h] \ {s}
      BY <1>9 DEF LockedStore, Write, TypeOK
    <3>3. CASE todo[h] # {s}
      <4>1. pc'[h] = "locked"
        BY <1>9, <3>2, <3>3 DEF LockedStore
      <4> QED
        BY <3>1, <3>2, <4>1, <2>0, <2>2 DEF Job, PCs
    <3>4. CASE todo[h] = {s} /\ op[h] \in SweepOps
      <4>1. pc'[h] = "sweep"
        BY <1>9, <3>4 DEF LockedStore, TypeOK
      <4> QED
        BY <3>1, <3>2, <3>4, <4>1, <2>0, <2>2 DEF Job, PCs
    <3>5. CASE todo[h] = {s} /\ op[h] \notin SweepOps
      <4>1. \/ want[h] = "opened" /\ pc'[h] = "dispatch"
            \/ pc'[h] = AfterGet(op[h])
        BY <1>9, <3>5 DEF LockedStore, TypeOK
      <4>2. /\ pc'[h] \in {"dispatch", "read", "open", "body"}
            /\ pc'[h] = "body" => op[h] \in {"submit", "ui", "admin", "patch"}
            /\ pc'[h] = "open" => op[h] = "view"
            /\ pc'[h] = "dispatch" => op[h] = "view"
        BY <4>1, <3>2, <3>5, <2>0, <2>2 DEF AfterGet, Job, LockOps
      <4> QED
        BY <3>1, <3>2, <3>5, <4>2, <2>0, <2>2 DEF Job, PCs, LockOps, SweepOps, AllOps
    <3> QED
      BY <3>3, <3>4, <3>5
  <2> QED
    BY <2>1, <2>2
<1>10. ASSUME NEW h \in Handlers, Reject(h)
       PROVE  JobInv'
  <2> SUFFICES ASSUME NEW g \in Handlers PROVE Job(g)'
    BY DEF JobInv
  <2>0. Job(g)
    BY DEF JobInv
  <2>1. CASE g # h
    <3>1. /\ LocalsUnchanged(g)
          /\ Stored \subseteq Stored'
          /\ now <= now' /\ now' \in Nat
      BY <1>10, <2>1 DEF Reject, LocalsUnchanged, Stored, TypeOK, reqVars, jobVars, outVars
    <3> QED
      BY <3>1, <2>0, JobFrame
  <2>2. CASE g = h
    BY <1>10, <2>0, <2>2 DEF Reject, Job, TypeOK, Stored, PCs, reqVars, jobVars, outVars
  <2> QED
    BY <2>1, <2>2
<1>11. ASSUME NEW h \in Handlers, NEW b \in {"short", "long", "empty"}, Respond(h, b)
       PROVE  JobInv'
  <2> SUFFICES ASSUME NEW g \in Handlers PROVE Job(g)'
    BY DEF JobInv
  <2>0. Job(g)
    BY DEF JobInv
  <2>1. CASE g # h
    <3>1. /\ LocalsUnchanged(g)
          /\ Stored \subseteq Stored'
          /\ now <= now' /\ now' \in Nat
      BY <1>11, <2>1 DEF Respond, LocalsUnchanged, Stored, TypeOK, reqVars, jobVars, outVars
    <3> QED
      BY <3>1, <2>0, JobFrame
  <2>2. CASE g = h
    BY <1>11, <2>0, <2>2 DEF Respond, AnswerStores, Job, TypeOK, Stored, PCs, reqVars, jobVars, outVars, StatusWords, Status
  <2> QED
    BY <2>1, <2>2
<1>12. ASSUME NEW h \in Handlers, NEW s \in PatchStatuses \cup {None}, Patch(h, s)
       PROVE  JobInv'
  <2> SUFFICES ASSUME NEW g \in Handlers PROVE Job(g)'
    BY DEF JobInv
  <2>0. Job(g)
    BY DEF JobInv
  <2>1. CASE g # h
    <3>1. /\ LocalsUnchanged(g)
          /\ Stored \subseteq Stored'
          /\ now <= now' /\ now' \in Nat
      BY <1>12, <2>1 DEF Patch, LocalsUnchanged, Stored, TypeOK, reqVars, jobVars, outVars
    <3> QED
      BY <3>1, <2>0, JobFrame
  <2>2. CASE g = h
    BY <1>12, <2>0, <2>2 DEF Patch, Job, TypeOK, Stored, PCs, reqVars, jobVars, outVars, StatusWords, Status
  <2> QED
    BY <2>1, <2>2
<1>13. ASSUME NEW h \in Handlers, NEW s \in Stores, UnlockedStore(h, s)
       PROVE  JobInv'
  <2> SUFFICES ASSUME NEW g \in Handlers PROVE Job(g)'
    BY DEF JobInv
  <2>0. Job(g)
    BY DEF JobInv
  <2>1. CASE g # h
    <3>1. /\ LocalsUnchanged(g)
          /\ Stored \subseteq Stored'
          /\ now <= now' /\ now' \in Nat
      BY <1>13, <2>1 DEF UnlockedStore, Write, LocalsUnchanged, Stored, TypeOK, reqVars, jobVars, outVars
    <3> QED
      BY <3>1, <2>0, JobFrame
  <2>2. CASE g = h
    BY <1>13, <2>0, <2>2 DEF UnlockedStore, Job, TypeOK, Stored, PCs, reqVars, jobVars, outVars, Write, MayStore, Stores
  <2> QED
    BY <2>1, <2>2
<1>14. ASSUME NEW h \in Handlers, Dispatch(h)
       PROVE  JobInv'
  <2> SUFFICES ASSUME NEW g \in Handlers PROVE Job(g)'
    BY DEF JobInv
  <2>0. Job(g)
    BY DEF JobInv
  <2>1. CASE g # h
    <3>1. /\ LocalsUnchanged(g)
          /\ Stored \subseteq Stored'
          /\ now <= now' /\ now' \in Nat
      BY <1>14, <2>1 DEF Dispatch, LocalsUnchanged, Stored, TypeOK, reqVars, jobVars, outVars
    <3> QED
      BY <3>1, <2>0, JobFrame
  <2>2. CASE g = h
    BY <1>14, <2>0, <2>2 DEF Dispatch, Job, TypeOK, Stored, PCs, reqVars, jobVars, outVars, NewEvent
  <2> QED
    BY <2>1, <2>2
<1>15. ASSUME NEW h \in Handlers, ReadReply(h)
       PROVE  JobInv'
  <2> SUFFICES ASSUME NEW g \in Handlers PROVE Job(g)'
    BY DEF JobInv
  <2>0. Job(g)
    BY DEF JobInv
  <2>1. CASE g # h
    <3>1. /\ LocalsUnchanged(g)
          /\ Stored \subseteq Stored'
          /\ now <= now' /\ now' \in Nat
      BY <1>15, <2>1 DEF ReadReply, LocalsUnchanged, Stored, TypeOK, reqVars, jobVars, outVars
    <3> QED
      BY <3>1, <2>0, JobFrame
  <2>2. CASE g = h
    <3>1. /\ op'[h] = op[h] /\ tgt'[h] = tgt[h] /\ want'[h] = want[h] /\ visit'[h] = visit[h]
          /\ clk'[h] = clk[h] /\ todo'[h] = todo[h] /\ event'[h] = event[h]
          /\ now' = now /\ Stored' = Stored
      BY <1>15 DEF ReadReply, Stored, reqVars
    <3>2. /\ pc[h] = "read"
          /\ pc'[h] \in {"read", "dispatch", "done"}
          /\ pc'[h] = "dispatch" => op[h] = "create"
      BY <1>15 DEF ReadReply, TypeOK
    <3>3. reply'[h].got # 0
      BY <1>15 DEF ReadReply, ReadOn, TypeOK
    <3> QED
      BY <3>1, <3>2, <3>3, <2>0, <2>2 DEF Job, PCs, LockOps, SweepOps, AllOps
  <2> QED
    BY <2>1, <2>2
<1>16. ASSUME NEW h \in Handlers, SendWebhook(h)
       PROVE  JobInv'
  <2> SUFFICES ASSUME NEW g \in Handlers PROVE Job(g)'
    BY DEF JobInv
  <2>0. Job(g)
    BY DEF JobInv
  <2>1. CASE g # h
    <3>1. /\ LocalsUnchanged(g)
          /\ Stored \subseteq Stored'
          /\ now <= now' /\ now' \in Nat
      BY <1>16, <2>1 DEF SendWebhook, LocalsUnchanged, Stored, TypeOK, reqVars, jobVars, outVars
    <3> QED
      BY <3>1, <2>0, JobFrame
  <2>2. CASE g = h
    BY <1>16, <2>0, <2>2 DEF SendWebhook, Job, TypeOK, Stored, PCs, reqVars, jobVars, outVars, ReadOn
  <2> QED
    BY <2>1, <2>2
<1>17. CASE UNCHANGED vars
  BY <1>17 DEF vars, JobInv, Job, Stored, reqVars, jobVars, outVars, TypeOK
<1> QED
  BY <1>1, <1>2, <1>3, <1>4, <1>5, <1>6, <1>7, <1>8, <1>9, <1>10, <1>11, <1>12, <1>13,
     <1>14, <1>15, <1>16, <1>17 DEF Next, Arrive, Proceed
-----------------------------------------------------------------------------
(* The mutex, the handlers and the store are as the types and the control  *)
(* flow of the code say in every reachable state.                          *)
ControlInv == TypeOK /\ MutexInv /\ JobInv

(* The control invariant holds at the start. *)
LEMMA InitControlInv == Init => ControlInv
<1> SUFFICES ASSUME Init PROVE ControlInv
  OBVIOUS
<1>1. TypeOK
  BY InitTypeOK
<1>2. MutexInv
  BY ConstantsAssumption DEF Init, MutexInv
<1>3. JobInv
  BY DEF Init, JobInv, Job, PCs, NoSnap, NewEvent
<1> QED
  BY <1>1, <1>2, <1>3 DEF ControlInv

(* Every step keeps the control invariant. *)
LEMMA NextControlInv == ControlInv /\ [Next]_vars => ControlInv'
  BY NextTypeOK, NextMutexInv, NextJobInv DEF ControlInv

(* Control: the types, the mutex and the place of every handler.           *)
THEOREM ControlCorrect == Spec => []ControlInv
  BY InitControlInv, NextControlInv, PTL DEF Spec

(* Type correctness of the specification. *)
THEOREM TypeCorrect == Spec => []TypeOK
<1>1. ControlInv => TypeOK
  BY DEF ControlInv
<1> QED
  BY <1>1, ControlCorrect, PTL
-----------------------------------------------------------------------------
(* What a step of one goroutine may do, seen from the shared state.        *)

Step(h) == Arrive(h) \/ Proceed(h) \/ SendWebhook(h)

(* It leaves the locals of the others and the attributes of stored requests. *)
Frame(h) ==
    /\ \A g \in Handlers \ {h} : LocalsUnchanged(g)
    /\ \A r \in Stored : attr'[r] = attr[r] /\ r \in Stored'
    /\ now' = now

(* A step of h leaves the locals of the others and what is stored. *)
LEMMA FrameLemma ==
  ASSUME ControlInv, NEW h \in Handlers, Step(h)
  PROVE  Frame(h)
<1>1. ASSUME NEW r \in Requests, NEW s \in Shapes, Create(h, r, s)
      PROVE  Frame(h)
  BY <1>1 DEF Create, Frame, LocalsUnchanged, Stored, TypeOK, ControlInv, reqVars, jobVars, outVars
<1>2. ASSUME NEW r \in Requests, NEW o \in LockOps, GetAndExpire(h, o, r)
      PROVE  Frame(h)
  BY <1>2 DEF GetAndExpire, Frame, LocalsUnchanged, Stored, TypeOK, ControlInv, reqVars, jobVars, outVars
<1>3. ASSUME NEW o \in SweepOps, NEW S \in SUBSET Stored, Sweep(h, o, S)
      PROVE  Frame(h)
  BY <1>3 DEF Sweep, Frame, LocalsUnchanged, Stored, TypeOK, ControlInv, reqVars, jobVars, outVars
<1>4. CASE CheckClock(h)
  BY <1>4 DEF CheckClock, Frame, LocalsUnchanged, Stored, TypeOK, ControlInv, reqVars, jobVars, outVars
<1>5. CASE MarkOpened(h)
  BY <1>5 DEF MarkOpened, Frame, LocalsUnchanged, Stored, TypeOK, ControlInv, reqVars, jobVars, outVars
<1>6. ASSUME NEW r \in Requests, Visit(h, r)
      PROVE  Frame(h)
  BY <1>6 DEF Visit, Frame, LocalsUnchanged, Stored, TypeOK, ControlInv, reqVars, jobVars, outVars
<1>7. CASE SweepEnd(h)
  BY <1>7 DEF SweepEnd, Frame, LocalsUnchanged, Stored, TypeOK, ControlInv, reqVars, jobVars, outVars
<1>8. ASSUME NEW s \in Stores, LockedStore(h, s)
      PROVE  Frame(h)
  BY <1>8 DEF LockedStore, Frame, LocalsUnchanged, Stored, Write, TypeOK, ControlInv, reqVars, jobVars, outVars
<1>9. CASE Reject(h)
  BY <1>9 DEF Reject, Frame, LocalsUnchanged, Stored, TypeOK, ControlInv, reqVars, jobVars, outVars
<1>10. ASSUME NEW b \in {"short", "long", "empty"}, Respond(h, b)
       PROVE  Frame(h)
  BY <1>10 DEF Respond, Frame, LocalsUnchanged, Stored, TypeOK, ControlInv, reqVars, jobVars, outVars
<1>11. ASSUME NEW s \in PatchStatuses \cup {None}, Patch(h, s)
       PROVE  Frame(h)
  BY <1>11 DEF Patch, Frame, LocalsUnchanged, Stored, TypeOK, ControlInv, reqVars, jobVars, outVars
<1>12. ASSUME NEW s \in Stores, UnlockedStore(h, s)
       PROVE  Frame(h)
  BY <1>12 DEF UnlockedStore, Frame, LocalsUnchanged, Stored, Write, TypeOK, ControlInv, reqVars, jobVars, outVars
<1>13. CASE Dispatch(h)
  BY <1>13 DEF Dispatch, Frame, LocalsUnchanged, Stored, TypeOK, ControlInv, reqVars, jobVars, outVars
<1>14. CASE ReadReply(h)
  BY <1>14 DEF ReadReply, Frame, LocalsUnchanged, Stored, TypeOK, ControlInv, reqVars, jobVars, outVars
<1>15. CASE SendWebhook(h)
  BY <1>15 DEF SendWebhook, Frame, LocalsUnchanged, Stored, TypeOK, ControlInv, reqVars, jobVars, outVars
<1> QED
  BY <1>1, <1>2, <1>3, <1>4, <1>5, <1>6, <1>7, <1>8, <1>9, <1>10, <1>11, <1>12, <1>13,
     <1>14, <1>15 DEF Step, Arrive, Proceed

(* It assigns the pointer of a status when it creates the request or has   *)
(* the assignment to make.                                                 *)
PtrChange(h) == \A r \in Requests :
    \/ ptr'[r] = ptr[r]
    \/ r \notin Stored /\ ptr'[r] \in {"pending", "held"}
    \/ /\ "ptr" \in todo[h]
       /\ "ptr" \notin todo'[h]
       /\ tgt[h] = r
       /\ ptr'[r] = want[h]

(* How a step changes a status: PtrChange covers every step. *)
LEMMA PtrLemma ==
  ASSUME ControlInv, NEW h \in Handlers, Step(h)
  PROVE  PtrChange(h)
<1>1. ASSUME NEW r \in Requests, NEW s \in Shapes, Create(h, r, s)
      PROVE  PtrChange(h)
  BY <1>1 DEF Create, PtrChange, Stored, TypeOK, ControlInv, reqVars, jobVars, outVars
<1>2. ASSUME NEW r \in Requests, NEW o \in LockOps, GetAndExpire(h, o, r)
      PROVE  PtrChange(h)
  BY <1>2 DEF GetAndExpire, PtrChange, Stored, TypeOK, ControlInv, reqVars, jobVars, outVars
<1>3. ASSUME NEW o \in SweepOps, NEW S \in SUBSET Stored, Sweep(h, o, S)
      PROVE  PtrChange(h)
  BY <1>3 DEF Sweep, PtrChange, Stored, TypeOK, ControlInv, reqVars, jobVars, outVars
<1>4. CASE CheckClock(h)
  BY <1>4 DEF CheckClock, PtrChange, Stored, TypeOK, ControlInv, reqVars, jobVars, outVars
<1>5. CASE MarkOpened(h)
  BY <1>5 DEF MarkOpened, PtrChange, Stored, TypeOK, ControlInv, reqVars, jobVars, outVars
<1>6. ASSUME NEW r \in Requests, Visit(h, r)
      PROVE  PtrChange(h)
  BY <1>6 DEF Visit, PtrChange, Stored, TypeOK, ControlInv, reqVars, jobVars, outVars
<1>7. CASE SweepEnd(h)
  BY <1>7 DEF SweepEnd, PtrChange, Stored, TypeOK, ControlInv, reqVars, jobVars, outVars
<1>8. ASSUME NEW s \in Stores, LockedStore(h, s)
      PROVE  PtrChange(h)
  BY <1>8 DEF LockedStore, PtrChange, Stored, TypeOK, ControlInv, reqVars, jobVars, outVars, Write, MayStore
<1>9. CASE Reject(h)
  BY <1>9 DEF Reject, PtrChange, Stored, TypeOK, ControlInv, reqVars, jobVars, outVars
<1>10. ASSUME NEW b \in {"short", "long", "empty"}, Respond(h, b)
       PROVE  PtrChange(h)
  BY <1>10 DEF Respond, PtrChange, Stored, TypeOK, ControlInv, reqVars, jobVars, outVars
<1>11. ASSUME NEW s \in PatchStatuses \cup {None}, Patch(h, s)
       PROVE  PtrChange(h)
  BY <1>11 DEF Patch, PtrChange, Stored, TypeOK, ControlInv, reqVars, jobVars, outVars
<1>12. ASSUME NEW s \in Stores, UnlockedStore(h, s)
       PROVE  PtrChange(h)
  BY <1>12 DEF UnlockedStore, PtrChange, Stored, TypeOK, ControlInv, reqVars, jobVars, outVars, Write, MayStore
<1>13. CASE Dispatch(h)
  BY <1>13 DEF Dispatch, PtrChange, Stored, TypeOK, ControlInv, reqVars, jobVars, outVars
<1>14. CASE ReadReply(h)
  BY <1>14 DEF ReadReply, PtrChange, Stored, TypeOK, ControlInv, reqVars, jobVars, outVars
<1>15. CASE SendWebhook(h)
  BY <1>15 DEF SendWebhook, PtrChange, Stored, TypeOK, ControlInv, reqVars, jobVars, outVars
<1> QED
  BY <1>1, <1>2, <1>3, <1>4, <1>5, <1>6, <1>7, <1>8, <1>9, <1>10, <1>11, <1>12, <1>13,
     <1>14, <1>15 DEF Step, Arrive, Proceed

(* It takes on the assignment of a status for one of five reasons.         *)
WantChange(h) ==
    "ptr" \in todo'[h] => tgt'[h] \in Stored /\
    \/ /\ "ptr" \in todo[h]
       /\ want'[h] = want[h] /\ tgt'[h] = tgt[h] /\ op'[h] = op[h] /\ pc'[h] = pc[h]
    \/ want'[h] = "expired" /\ Past(tgt'[h], now)
    \/ /\ want'[h] = "opened" /\ op[h] = "view" /\ tgt'[h] = tgt[h]
       /\ mu = None /\ pc'[h] = "locked" /\ ptr[tgt[h]] = "pending"
    \/ /\ want'[h] = "pending" /\ op[h] = "release" /\ pc[h] = "sweep"
       /\ pc'[h] = "locked" /\ ptr[tgt'[h]] = "held"
    \/ /\ want'[h] = "completed" /\ op[h] \in {"submit", "ui", "admin"} /\ op'[h] = op[h]
       /\ pc'[h] = "store"
    \/ want'[h] \in PatchStatuses /\ op[h] = "patch" /\ op'[h] = op[h]

(* How a step changes what a handler assigns. *)
LEMMA WantLemma ==
  ASSUME ControlInv, NEW h \in Handlers, Step(h)
  PROVE  WantChange(h)
<1>1. ASSUME NEW r \in Requests, NEW s \in Shapes, Create(h, r, s)
      PROVE  WantChange(h)
  BY <1>1 DEF Create, WantChange, Stored, ControlInv, TypeOK, JobInv, Job, reqVars, jobVars, outVars
<1>2. ASSUME NEW r \in Requests, NEW o \in LockOps, GetAndExpire(h, o, r)
      PROVE  WantChange(h)
  BY <1>2 DEF GetAndExpire, WantChange, Stored, ControlInv, TypeOK, JobInv, Job, reqVars, jobVars, outVars
<1>3. ASSUME NEW o \in SweepOps, NEW S \in SUBSET Stored, Sweep(h, o, S)
      PROVE  WantChange(h)
  BY <1>3 DEF Sweep, WantChange, Stored, ControlInv, TypeOK, JobInv, Job, reqVars, jobVars, outVars
<1>4. CASE CheckClock(h)
  BY <1>4 DEF CheckClock, WantChange, Stored, ControlInv, TypeOK, JobInv, Job, reqVars, jobVars, outVars
<1>5. CASE MarkOpened(h)
  <2>1. CASE StatusOf(tgt[h]) = "pending"
    <3>1. tgt[h] \in Requests /\ tgt[h] \in Stored /\ op[h] = "view"
      BY <1>5 DEF MarkOpened, ControlInv, JobInv, Job, PCs, Stored
    <3>2. ptr[tgt[h]] = "pending"
      BY <2>1, <3>1, StatusOfPtr DEF Torn
    <3> QED
      BY <1>5, <2>1, <3>1, <3>2 DEF MarkOpened, WantChange, ControlInv, TypeOK
  <2>2. CASE StatusOf(tgt[h]) # "pending"
    <3>1. todo[h] = {}
      BY <1>5 DEF MarkOpened, ControlInv, JobInv, Job
    <3> QED
      BY <1>5, <2>2, <3>1 DEF MarkOpened, WantChange
  <2> QED
    BY <2>1, <2>2
<1>6. ASSUME NEW r \in Requests, Visit(h, r)
      PROVE  WantChange(h)
  <2>1. todo[h] = {} /\ op[h] \in SweepOps /\ r \in Stored /\ pc[h] = "sweep"
    BY <1>6 DEF Visit, ControlInv, JobInv, Job
  <2>2. CASE todo'[h] = {}
    BY <2>2 DEF WantChange
  <2>3. CASE todo'[h] # {} /\ op[h] = "list"
    <3>1. want'[h] = "expired" /\ tgt'[h] = r /\ Past(r, clk[h])
      BY <1>6, <2>1, <2>3 DEF Visit, Expirable, ControlInv, TypeOK
    <3>2. Past(r, now)
      BY <3>1, <2>1 DEF Past, ControlInv, TypeOK, JobInv, Job, Stored, Attr
    <3> QED
      BY <2>1, <3>1, <3>2 DEF WantChange
  <2>4. CASE todo'[h] # {} /\ op[h] = "release"
    <3>1. /\ want'[h] = "pending" /\ tgt'[h] = r /\ StatusOf(r) = "held"
          /\ pc'[h] = "locked"
      BY <1>6, <2>1, <2>4 DEF Visit, ControlInv, TypeOK
    <3>2. ptr[r] = "held"
      BY <3>1, StatusOfPtr DEF Torn
    <3> QED
      BY <3>1, <3>2, <2>1, <2>4 DEF WantChange
  <2> QED
    BY <2>1, <2>2, <2>3, <2>4 DEF SweepOps
<1>7. CASE SweepEnd(h)
  BY <1>7 DEF SweepEnd, WantChange, Stored, ControlInv, TypeOK, JobInv, Job, reqVars, jobVars, outVars
<1>8. ASSUME NEW s \in Stores, LockedStore(h, s)
      PROVE  WantChange(h)
  BY <1>8 DEF LockedStore, WantChange, Stored, ControlInv, TypeOK, JobInv, Job, reqVars, jobVars, outVars, Write
<1>9. CASE Reject(h)
  BY <1>9 DEF Reject, WantChange, Stored, ControlInv, TypeOK, JobInv, Job, reqVars, jobVars, outVars
<1>10. ASSUME NEW b \in {"short", "long", "empty"}, Respond(h, b)
       PROVE  WantChange(h)
  BY <1>10 DEF Respond, WantChange, Stored, ControlInv, TypeOK, JobInv, Job, reqVars, jobVars, outVars
<1>11. ASSUME NEW s \in PatchStatuses \cup {None}, Patch(h, s)
       PROVE  WantChange(h)
  BY <1>11 DEF Patch, WantChange, Stored, ControlInv, TypeOK, JobInv, Job, reqVars, jobVars, outVars
<1>12. ASSUME NEW s \in Stores, UnlockedStore(h, s)
       PROVE  WantChange(h)
  BY <1>12 DEF UnlockedStore, WantChange, Stored, ControlInv, TypeOK, JobInv, Job, reqVars, jobVars, outVars, Write
<1>13. CASE Dispatch(h)
  BY <1>13 DEF Dispatch, WantChange, Stored, ControlInv, TypeOK, JobInv, Job, reqVars, jobVars, outVars
<1>14. CASE ReadReply(h)
  BY <1>14 DEF ReadReply, WantChange, Stored, ControlInv, TypeOK, JobInv, Job, reqVars, jobVars, outVars
<1>15. CASE SendWebhook(h)
  BY <1>15 DEF SendWebhook, WantChange, Stored, ControlInv, TypeOK, JobInv, Job, reqVars, jobVars, outVars
<1> QED
  BY <1>1, <1>2, <1>3, <1>4, <1>5, <1>6, <1>7, <1>8, <1>9, <1>10, <1>11, <1>12, <1>13,
     <1>14, <1>15 DEF Step, Arrive, Proceed

(* A handler that has just arrived, or loops, has read nothing yet.        *)
LEMMA FreshSnaps ==
  ASSUME ControlInv, NEW h \in Handlers, pc[h] \in {"idle", "sweep"}
  PROVE  \A x \in {reply[h], event[h]} : x.got = 0 /\ x.status = "none"
<1>1. reply[h] \in Snapshot /\ event[h] \in Snapshot
  BY DEF ControlInv, TypeOK
<1>2. reply[h].got \in 0..2 /\ event[h].got \in 0..2
  BY <1>1 DEF Snapshot
<1>3. reply[h].got = 0 /\ event[h].got = 0
  BY <1>2 DEF ControlInv, JobInv, Job
<1> QED
  BY <1>3 DEF ControlInv, JobInv, Job

(* It adds to a snapshot what it reads of its own request, stored by then. *)
SnapChange(h) == \A y \in {reply'[h], event'[h]} :
    \/ y.got = 0 /\ y.status = "none"
    \/ /\ tgt'[h] = tgt[h] /\ tgt[h] \in Stored
       /\ \E x \in {reply[h], event[h]} :
           \/ y = x
           \/ y = ReadOn(x, tgt[h])

(* How a step changes a snapshot. *)
LEMMA SnapLemma ==
  ASSUME ControlInv, NEW h \in Handlers, Step(h)
  PROVE  SnapChange(h)
<1>1. ASSUME NEW r \in Requests, NEW s \in Shapes, Create(h, r, s)
      PROVE  SnapChange(h)
  BY <1>1, FreshSnaps DEF Create, SnapChange, reqVars, jobVars, outVars
<1>2. ASSUME NEW r \in Requests, NEW o \in LockOps, GetAndExpire(h, o, r)
      PROVE  SnapChange(h)
  BY <1>2, FreshSnaps DEF GetAndExpire, SnapChange, reqVars, jobVars, outVars
<1>3. ASSUME NEW o \in SweepOps, NEW S \in SUBSET Stored, Sweep(h, o, S)
      PROVE  SnapChange(h)
  BY <1>3, FreshSnaps DEF Sweep, SnapChange, reqVars, jobVars, outVars
<1>4. CASE CheckClock(h)
  BY <1>4 DEF CheckClock, SnapChange, Stored, PCs, ControlInv, TypeOK, JobInv, Job, reqVars, jobVars, outVars
<1>5. CASE MarkOpened(h)
  BY <1>5 DEF MarkOpened, SnapChange, Stored, PCs, ControlInv, TypeOK, JobInv, Job, reqVars, jobVars, outVars
<1>6. ASSUME NEW r \in Requests, Visit(h, r)
      PROVE  SnapChange(h)
  BY <1>6, FreshSnaps DEF Visit, SnapChange, reqVars, jobVars, outVars
<1>7. CASE SweepEnd(h)
  BY <1>7, FreshSnaps DEF SweepEnd, SnapChange, reqVars, jobVars, outVars
<1>8. ASSUME NEW s \in Stores, LockedStore(h, s)
      PROVE  SnapChange(h)
  BY <1>8 DEF LockedStore, SnapChange, Stored, PCs, ControlInv, TypeOK, JobInv, Job, reqVars, jobVars, outVars, Write
<1>9. CASE Reject(h)
  BY <1>9 DEF Reject, SnapChange, Stored, PCs, ControlInv, TypeOK, JobInv, Job, reqVars, jobVars, outVars
<1>10. ASSUME NEW b \in {"short", "long", "empty"}, Respond(h, b)
       PROVE  SnapChange(h)
  BY <1>10 DEF Respond, SnapChange, Stored, PCs, ControlInv, TypeOK, JobInv, Job, reqVars, jobVars, outVars
<1>11. ASSUME NEW s \in PatchStatuses \cup {None}, Patch(h, s)
       PROVE  SnapChange(h)
  BY <1>11 DEF Patch, SnapChange, Stored, PCs, ControlInv, TypeOK, JobInv, Job, reqVars, jobVars, outVars
<1>12. ASSUME NEW s \in Stores, UnlockedStore(h, s)
       PROVE  SnapChange(h)
  BY <1>12 DEF UnlockedStore, SnapChange, Stored, PCs, ControlInv, TypeOK, JobInv, Job, reqVars, jobVars, outVars, Write
<1>13. CASE Dispatch(h)
  BY <1>13 DEF Dispatch, SnapChange, Stored, PCs, ControlInv, TypeOK, JobInv, Job, reqVars, jobVars, outVars, NewEvent
<1>14. CASE ReadReply(h)
  BY <1>14 DEF ReadReply, SnapChange, Stored, PCs, ControlInv, TypeOK, JobInv, Job, reqVars, jobVars, outVars, ReadOn
<1>15. CASE SendWebhook(h)
  BY <1>15 DEF SendWebhook, SnapChange, Stored, PCs, ControlInv, TypeOK, JobInv, Job, reqVars, jobVars, outVars, ReadOn
<1> QED
  BY <1>1, <1>2, <1>3, <1>4, <1>5, <1>6, <1>7, <1>8, <1>9, <1>10, <1>11, <1>12, <1>13,
     <1>14, <1>15 DEF Step, Arrive, Proceed

(* Whoever has read a status has a stored request. *)
LEMMA TellersStored ==
  ASSUME ControlInv, NEW h \in Handlers, NEW x \in {reply[h], event[h]}, x.status # "none"
  PROVE  tgt[h] \in Stored
<1>1. reply[h] \in Snapshot /\ event[h] \in Snapshot
  BY DEF ControlInv, TypeOK
<1>2. reply[h].got \in 0..2 /\ event[h].got \in 0..2
  BY <1>1 DEF Snapshot
<1>3. x.got # 0
  BY DEF ControlInv, JobInv, Job
<1> QED
  BY <1>2, <1>3 DEF ControlInv, JobInv, Job


-----------------------------------------------------------------------------
(* "expired" is told only of requests past their deadline.                 *)

(* At the start nothing is expired. *)
LEMMA InitExpiredInv == Init => ExpiredInv
  BY DEF Init, ExpiredInv, ExpiredAfterDeadline, Stored, NoSnap, NewEvent

(* A deadline that has passed stays passed. *)
LEMMA PastStable ==
  ASSUME ControlInv, NEW r \in Stored, attr'[r] = attr[r], now' \in Nat, now <= now', Past(r, now)
  PROVE  Past(r, now)'
<1>1. attr[r] \in Attr /\ now \in Nat
  BY DEF ControlInv, TypeOK, Stored
<1> QED
  BY <1>1 DEF Past, Attr

(* Every step keeps "expired" past the deadline. *)
LEMMA NextExpiredInv == ControlInv /\ ExpiredInv /\ [Next]_vars => ExpiredInv'
<1> SUFFICES ASSUME ControlInv, ExpiredInv, [Next]_vars PROVE ExpiredInv'
  OBVIOUS
<1>1. CASE Tick
  <2>1. now' \in Nat /\ now <= now' /\ now \in Nat
    BY <1>1 DEF Tick, ControlInv, TypeOK
  <2>2. \A r \in Stored : Past(r, now) => Past(r, now)'
    BY <1>1, <2>1, PastStable DEF Tick, reqVars
  <2>3. \A h \in Handlers : \/ todo[h] # {}
                            \/ reply[h].status = "expired"
                            \/ event[h].status = "expired"
                            => tgt[h] \in Stored
    BY TellersStored DEF ControlInv, JobInv, Job, PCs
  <2>4. Stored' = Stored
    BY <1>1 DEF Tick, Stored, reqVars
  <2> QED
    BY <1>1, <2>2, <2>3, <2>4
       DEF Tick, ExpiredInv, ExpiredAfterDeadline, reqVars, jobVars, outVars
<1>2. ASSUME NEW h \in Handlers, Step(h)
      PROVE  ExpiredInv'
  <2>1. Frame(h) /\ PtrChange(h) /\ WantChange(h) /\ SnapChange(h)
    BY <1>2, FrameLemma, PtrLemma, WantLemma, SnapLemma
  <2>2. \A r \in Stored : r \in Stored' /\ (Past(r, now) => Past(r, now)')
    BY <2>1, PastStable DEF Frame, ControlInv, TypeOK
  <2>3. ASSUME NEW r \in Requests, ptr'[r] = "expired"
        PROVE  r \in Stored' /\ Past(r, now)'
    <3>1. CASE ptr'[r] = ptr[r]
      BY <2>2, <2>3, <3>1 DEF ExpiredInv
    <3>2. CASE "ptr" \in todo[h] /\ tgt[h] = r /\ ptr'[r] = want[h]
      <4>1. r \in Stored
        BY <3>2 DEF ControlInv, JobInv, Job, PCs
      <4> QED
        BY <2>2, <2>3, <3>2, <4>1 DEF ExpiredInv
    <3> QED
      BY <2>1, <2>3, <3>1, <3>2 DEF PtrChange
  <2>4. ASSUME NEW g \in Handlers, want'[g] = "expired", "ptr" \in todo'[g]
        PROVE  Past(tgt[g], now)'
    <3>1. CASE g = h
      <4>1. tgt'[h] \in Stored
        BY <2>1, <2>4, <3>1 DEF WantChange
      <4>2. Past(tgt'[h], now)
        BY <2>1, <2>4, <3>1, PatchAssumption DEF WantChange, ExpiredInv
      <4> QED
        BY <2>2, <3>1, <4>1, <4>2
    <3>2. CASE g # h
      <4>1. want[g] = "expired" /\ "ptr" \in todo[g] /\ tgt'[g] = tgt[g]
        BY <2>1, <2>4, <3>2 DEF Frame, LocalsUnchanged
      <4>2. tgt[g] \in Stored
        BY <4>1 DEF ControlInv, JobInv, Job, PCs
      <4> QED
        BY <2>2, <4>1, <4>2 DEF ExpiredInv
    <3> QED
      BY <3>1, <3>2
  <2>5. ASSUME NEW g \in Handlers, NEW y \in {reply'[g], event'[g]}, y.status = "expired"
        PROVE  Past(tgt[g], now)'
    <3>1. CASE g = h
      <4>1. /\ tgt'[h] = tgt[h] /\ tgt[h] \in Stored
            /\ \E x \in {reply[h], event[h]} : y = x \/ y = ReadOn(x, tgt[h])
        BY <2>1, <2>5, <3>1 DEF SnapChange
      <4>2. PICK x \in {reply[h], event[h]} : y = x \/ y = ReadOn(x, tgt[h])
        BY <4>1
      <4>3. y.status = x.status \/ y.status = StatusOf(tgt[h])
        BY <4>2 DEF ReadOn
      <4>4. StatusOf(tgt[h]) = "expired" => ptr[tgt[h]] = "expired"
        BY <4>1, StatusOfPtr DEF Torn, Stored
      <4>5. Past(tgt[h], now)
        BY <2>5, <4>1, <4>3, <4>4 DEF ExpiredInv, ExpiredAfterDeadline, Stored
      <4> QED
        BY <2>2, <3>1, <4>1, <4>5
    <3>2. CASE g # h
      <4>1. /\ reply'[g] = reply[g] /\ event'[g] = event[g] /\ tgt'[g] = tgt[g]
        BY <2>1, <3>2 DEF Frame, LocalsUnchanged
      <4>2. tgt[g] \in Stored /\ Past(tgt[g], now)
        BY <2>5, <4>1, TellersStored DEF ExpiredInv, ExpiredAfterDeadline
      <4> QED
        BY <2>2, <4>1, <4>2
    <3> QED
      BY <3>1, <3>2
  <2> QED
    BY <2>3, <2>4, <2>5 DEF ExpiredInv, ExpiredAfterDeadline
<1>3. CASE UNCHANGED vars
  BY <1>3 DEF vars, reqVars, jobVars, outVars, ExpiredInv, ExpiredAfterDeadline, Past, Stored
<1> QED
  BY <1>1, <1>2, <1>3 DEF Next, Step

(* No reply and no event says "expired" before the deadline. *)
THEOREM ExpiredCorrect == Spec => []ExpiredAfterDeadline
<1>1. ExpiredInv => ExpiredAfterDeadline
  BY DEF ExpiredInv
<1> QED
  BY <1>1, InitExpiredInv, NextExpiredInv, ControlCorrect, PTL DEF Spec

-----------------------------------------------------------------------------
(* "opened" is announced once.                                             *)

(* What a step does to the goroutine that opens a request.                 *)
OpenerChange(h) ==
    /\ Opener(h)' =>
        /\ tgt'[h] = tgt[h]
        /\ pc'[h] \in {"locked", "dispatch", "read", "done"}
        /\ "ptr" \in todo'[h] => pc'[h] = "locked"
        /\ \/ /\ Opener(h)
              /\ "ptr" \in todo'[h] => "ptr" \in todo[h]
              /\ "ptr" \in todo[h] \ todo'[h] => ptr'[tgt[h]] = "opened"
           \/ "ptr" \in todo'[h] /\ mu = None /\ ptr[tgt[h]] = "pending" /\ tgt[h] \in Stored
    /\ op'[h] = "view" /\ pc'[h] = "dispatch" => Opener(h)'
    /\ event'[h].type = "opened" => Opener(h)'

(* How a handler becomes and remains an opener. *)
LEMMA OpenerLemma ==
  ASSUME ControlInv, OpenInv, NEW h \in Handlers, Step(h)
  PROVE  OpenerChange(h)
<1>1. ASSUME NEW r \in Requests, NEW s \in Shapes, Create(h, r, s)
      PROVE  OpenerChange(h)
  BY <1>1 DEF Create, OpenerChange, Opener, OpenInv, ControlInv, TypeOK, JobInv, Job, PCs, reqVars, jobVars, outVars
<1>2. ASSUME NEW r \in Requests, NEW o \in LockOps, GetAndExpire(h, o, r)
      PROVE  OpenerChange(h)
  <2>1. /\ want'[h] = "none" /\ event'[h].type = "none"
        /\ pc'[h] \in {"clock", "done", AfterGet(o)}
    BY <1>2 DEF GetAndExpire, ControlInv, TypeOK, JobInv, Job, outVars
  <2>2. pc'[h] # "dispatch"
    BY <2>1 DEF AfterGet
  <2> QED
    BY <2>1, <2>2 DEF OpenerChange, Opener
<1>3. ASSUME NEW o \in SweepOps, NEW S \in SUBSET Stored, Sweep(h, o, S)
      PROVE  OpenerChange(h)
  BY <1>3 DEF Sweep, OpenerChange, SweepOps, Opener, OpenInv, ControlInv, TypeOK, JobInv, Job, PCs, reqVars, jobVars, outVars
<1>4. CASE CheckClock(h)
  <2>1. ~ Opener(h) /\ event[h].type = "none"
    BY <1>4 DEF CheckClock, OpenInv, ControlInv, JobInv, Job
  <2>2. /\ event'[h] = event[h] /\ op'[h] = op[h]
        /\ \/ want'[h] = "expired" /\ pc'[h] = "locked"
           \/ want'[h] = want[h] /\ pc'[h] = AfterGet(op[h])
    BY <1>4 DEF CheckClock, ControlInv, TypeOK, outVars
  <2>3. pc'[h] # "dispatch"
    BY <2>2 DEF AfterGet
  <2> QED
    BY <2>1, <2>2, <2>3 DEF OpenerChange, Opener
<1>5. CASE MarkOpened(h)
  BY SMTT(30), <1>5, WantLemma DEF Step, Proceed, MarkOpened, WantChange, StatusWords, OpenerChange, Opener, OpenInv, ControlInv, TypeOK, JobInv, Job, PCs, reqVars, jobVars, outVars
<1>6. ASSUME NEW r \in Requests, Visit(h, r)
      PROVE  OpenerChange(h)
  BY <1>6 DEF Visit, OpenerChange, StatusWords, SweepOps, LockOps, AfterGet, Opener, OpenInv, ControlInv, TypeOK, JobInv, Job, PCs, reqVars, jobVars, outVars
<1>7. CASE SweepEnd(h)
  BY <1>7 DEF SweepEnd, OpenerChange, Opener, OpenInv, ControlInv, TypeOK, JobInv, Job, PCs, reqVars, jobVars, outVars
<1>8. ASSUME NEW s \in Stores, LockedStore(h, s)
      PROVE  OpenerChange(h)
  <2>1. /\ s \in todo[h] /\ pc[h] = "locked" /\ todo'[h] = todo[h] \ {s}
        /\ op'[h] = op[h] /\ want'[h] = want[h] /\ tgt'[h] = tgt[h] /\ event'[h] = event[h]
    BY <1>8 DEF LockedStore, Write, MayStore, ControlInv, TypeOK, outVars
  <2>2. event[h].type = "none"
    BY <2>1 DEF ControlInv, JobInv, Job
  <2>3. s = "ptr" => ptr'[tgt[h]] = want[h]
    BY <1>8, <2>1 DEF LockedStore, Write, ControlInv, TypeOK, JobInv, Job, PCs, Stored
  <2>4. CASE todo'[h] # {}
    <3>1. pc'[h] = "locked"
      BY <1>8, <2>1, <2>4 DEF LockedStore
    <3> QED
      BY <2>1, <2>2, <2>3, <3>1 DEF OpenerChange, Opener
  <2>5. CASE todo'[h] = {}
    <3>1. pc'[h] = IF op[h] \in SweepOps THEN "sweep"
                   ELSE IF want[h] = "opened" THEN "dispatch" ELSE AfterGet(op[h])
      BY <1>8, <2>1, <2>5 DEF LockedStore, ControlInv, TypeOK
    <3>2. Opener(h) => pc'[h] = "dispatch"
      BY <3>1 DEF Opener, SweepOps
    <3>3. op[h] = "view" /\ pc'[h] = "dispatch" => Opener(h)
      BY <3>1 DEF Opener, AfterGet, SweepOps
    <3> QED
      BY <2>1, <2>2, <2>3, <2>5, <3>2, <3>3 DEF OpenerChange, Opener
  <2> QED
    BY <2>4, <2>5
<1>9. CASE Reject(h)
  BY <1>9 DEF Reject, OpenerChange, Opener, OpenInv, ControlInv, TypeOK, JobInv, Job, PCs, reqVars, jobVars, outVars
<1>10. ASSUME NEW b \in {"short", "long", "empty"}, Respond(h, b)
       PROVE  OpenerChange(h)
  BY <1>10 DEF Respond, OpenerChange, StatusWords, SweepOps, LockOps, AfterGet, Opener, OpenInv, ControlInv, TypeOK, JobInv, Job, PCs, reqVars, jobVars, outVars
<1>11. ASSUME NEW s \in PatchStatuses \cup {None}, Patch(h, s)
       PROVE  OpenerChange(h)
  BY <1>11 DEF Patch, OpenerChange, StatusWords, SweepOps, LockOps, AfterGet, Opener, OpenInv, ControlInv, TypeOK, JobInv, Job, PCs, reqVars, jobVars, outVars
<1>12. ASSUME NEW s \in Stores, UnlockedStore(h, s)
       PROVE  OpenerChange(h)
  BY <1>12 DEF UnlockedStore, OpenerChange, Opener, OpenInv, ControlInv, TypeOK, JobInv, Job, PCs, reqVars, jobVars, outVars, Write, MayStore, Stores, AfterGet, StatusWords
<1>13. CASE Dispatch(h)
  BY <1>13 DEF Dispatch, OpenerChange, NewEvent, EventType, Opener, OpenInv, ControlInv, TypeOK, JobInv, Job, PCs, reqVars, jobVars, outVars
<1>14. CASE ReadReply(h)
  BY <1>14 DEF ReadReply, OpenerChange, ReadOn, Opener, OpenInv, ControlInv, TypeOK, JobInv, Job, PCs, reqVars, jobVars, outVars
<1>15. CASE SendWebhook(h)
  BY <1>15 DEF SendWebhook, OpenerChange, ReadOn, Opener, OpenInv, ControlInv, TypeOK, JobInv, Job, PCs, reqVars, jobVars, outVars
<1> QED
  BY <1>1, <1>2, <1>3, <1>4, <1>5, <1>6, <1>7, <1>8, <1>9, <1>10, <1>11, <1>12, <1>13,
     <1>14, <1>15 DEF Step, Arrive, Proceed


(* At the start nobody has opened a request. *)
LEMMA InitOpenInv == Init => OpenInv
  BY DEF Init, OpenInv, Opener, NoSnap, NewEvent

(* Every step keeps the openers apart. *)
LEMMA NextOpenInv == ControlInv /\ OpenInv /\ [Next]_vars => OpenInv'
<1> SUFFICES ASSUME ControlInv, OpenInv, [Next]_vars PROVE OpenInv'
  OBVIOUS
<1> USE ConstantsAssumption
<1>1. CASE Tick
  BY <1>1 DEF Tick, OpenInv, Opener, Stored, reqVars, jobVars, outVars
<1>2. ASSUME NEW h \in Handlers, Step(h)
      PROVE  OpenInv'
  <2>1. Frame(h) /\ PtrChange(h) /\ WantChange(h) /\ OpenerChange(h)
    BY <1>2, FrameLemma, PtrLemma, WantLemma, OpenerLemma
  <2>2. \A r \in Stored : r \in Stored'
    BY <2>1 DEF Frame
  <2>3. ASSUME NEW g \in Handlers, g # h
        PROVE  /\ LocalsUnchanged(g)
               /\ Opener(g)' <=> Opener(g)
    BY <2>1, <2>3 DEF Frame, LocalsUnchanged, Opener
  <2>4. \A g \in Handlers : pc[g] = "locked" => mu = g
    BY DEF ControlInv, MutexInv
  <2>5. ASSUME NEW g \in Handlers, Opener(g)'
        PROVE  /\ pc'[g] \in {"locked", "dispatch", "read", "done"}
               /\ tgt'[g] \in Stored'
               /\ "ptr" \in todo'[g] => pc'[g] = "locked"
    <3>1. CASE g = h
      BY <2>1, <2>2, <2>5, <3>1 DEF OpenerChange, OpenInv
    <3>2. CASE g # h
      BY <2>2, <2>3, <2>5, <3>2 DEF OpenInv, LocalsUnchanged
    <3> QED
      BY <3>1, <3>2
  <2>6. ASSUME NEW g \in Handlers, Opener(g)', "ptr" \notin todo'[g]
        PROVE  ptr'[tgt'[g]] \notin {"pending", "held"}
    <3>1. Opener(g) /\ tgt'[g] = tgt[g]
      BY <2>1, <2>3, <2>6 DEF OpenerChange, LocalsUnchanged
    <3>2. tgt[g] \in Stored /\ tgt[g] \in Requests
      BY <3>1 DEF OpenInv, Stored
    <3>3. CASE "ptr" \in todo[g]
      <4>1. g = h
        BY <2>3, <2>6, <3>3 DEF LocalsUnchanged
      <4> QED
        BY <2>1, <2>6, <3>1, <3>3, <4>1 DEF OpenerChange
    <3>4. CASE "ptr" \notin todo[g]
      <4>1. ptr[tgt[g]] \notin {"pending", "held"}
        BY <3>1, <3>4 DEF OpenInv
      <4>2. \/ ptr'[tgt[g]] = ptr[tgt[g]]
            \/ "ptr" \in todo[h] /\ tgt[h] = tgt[g] /\ ptr'[tgt[g]] = want[h]
        BY <2>1, <3>2 DEF PtrChange
      <4>3. "ptr" \in todo[h] /\ tgt[h] = tgt[g] => want[h] \notin {"pending", "held"}
        BY <3>1 DEF OpenInv
      <4> QED
        BY <3>1, <4>1, <4>2, <4>3
    <3> QED
      BY <3>3, <3>4
  <2>7. ASSUME NEW g \in Handlers
        PROVE  /\ op'[g] = "view" /\ pc'[g] = "dispatch" => Opener(g)'
               /\ event'[g].type = "opened" => Opener(g)'
    <3>1. CASE g = h
      BY <2>1, <3>1 DEF OpenerChange
    <3>2. CASE g # h
      BY <2>3, <3>2 DEF OpenInv, LocalsUnchanged
    <3> QED
      BY <3>1, <3>2
  <2>8. ASSUME NEW g \in Handlers, "ptr" \in todo'[g]
        PROVE  want'[g] # "held"
    <3>1. CASE g = h
      BY <2>1, <2>8, <3>1, PatchAssumption DEF WantChange, OpenInv
    <3>2. CASE g # h
      BY <2>3, <2>8, <3>2 DEF OpenInv, LocalsUnchanged
    <3> QED
      BY <3>1, <3>2
  <2>9. ASSUME NEW g \in Handlers, "ptr" \in todo'[g], want'[g] = "pending"
        PROVE  /\ pc'[g] = "locked"
               /\ \A g2 \in Handlers : Opener(g2)' => tgt'[g2] # tgt'[g]
    <3>1. ~ Opener(g)'
      BY <2>9 DEF Opener
    <3>2. CASE "ptr" \in todo[g] /\ want[g] = "pending" /\ tgt'[g] = tgt[g] /\ pc'[g] = pc[g]
      <4>1. pc[g] = "locked" /\ mu = g /\ mu # None
        BY <2>4, <3>2 DEF OpenInv
      <4>2. ASSUME NEW g2 \in Handlers, Opener(g2)'
            PROVE  Opener(g2) /\ tgt'[g2] = tgt[g2]
        BY <2>1, <2>3, <4>1, <4>2 DEF OpenerChange, LocalsUnchanged
      <4> QED
        BY <3>2, <4>1, <4>2 DEF OpenInv
    <3>3. CASE g = h /\ ~("ptr" \in todo[g] /\ want[g] = "pending")
      <4>1. /\ pc[h] = "sweep" /\ pc'[h] = "locked" /\ ptr[tgt'[h]] = "held"
        BY <2>1, <2>9, <3>3, PatchAssumption DEF WantChange
      <4>2. mu = h
        BY <4>1 DEF ControlInv, MutexInv
      <4>3. ASSUME NEW g2 \in Handlers, Opener(g2)', tgt'[g2] = tgt'[h]
            PROVE  FALSE
        <5>1. g2 # h
          BY <3>1, <3>3, <4>3
        <5>2. Opener(g2) /\ tgt[g2] = tgt'[h]
          BY <2>3, <4>3, <5>1 DEF LocalsUnchanged
        <5>3. "ptr" \in todo[g2]
          BY <4>1, <5>2 DEF OpenInv
        <5> QED
          BY <2>4, <4>2, <5>1, <5>2, <5>3 DEF OpenInv
      <4> QED
        BY <3>3, <4>1, <4>3
    <3>4. CASE g = h /\ "ptr" \in todo[g] /\ want[g] = "pending"
      <4>1. pc[h] # "sweep"
        BY <3>4 DEF ControlInv, JobInv, Job
      <4> QED
        BY <2>1, <2>9, <3>2, <3>4, <4>1, PatchAssumption DEF WantChange
    <3>5. CASE g # h
      BY <2>3, <2>9, <3>2, <3>5 DEF LocalsUnchanged
    <3> QED
      BY <3>3, <3>4, <3>5
  <2>10. ASSUME NEW g1 \in Handlers, NEW g2 \in Handlers,
                Opener(g1)', Opener(g2)', tgt'[g1] = tgt'[g2], g1 # g2
         PROVE  FALSE
    <3>1. ASSUME NEW g \in Handlers, g # h, Opener(g)', Opener(h)', tgt'[g] = tgt'[h]
          PROVE  FALSE
      <4>1. Opener(g) /\ tgt[g] = tgt[h]
        BY <2>1, <2>3, <3>1 DEF LocalsUnchanged, OpenerChange
      <4>2. ~ Opener(h)
        BY <3>1, <4>1 DEF OpenInv
      <4>3. mu = None /\ ptr[tgt[h]] = "pending"
        BY <2>1, <3>1, <4>2 DEF OpenerChange
      <4> QED
        BY <2>4, <4>1, <4>3 DEF OpenInv
    <3>2. CASE g1 # h /\ g2 # h
      BY <2>3, <2>10, <3>2 DEF OpenInv, LocalsUnchanged
    <3> QED
      BY <2>10, <3>1, <3>2
  <2> QED
    BY <2>5, <2>6, <2>7, <2>8, <2>9, <2>10 DEF OpenInv
<1>3. CASE UNCHANGED vars
  BY <1>3 DEF vars, reqVars, jobVars, outVars, OpenInv, Opener, Stored
<1> QED
  BY <1>1, <1>2, <1>3 DEF Next, Step

(* However many page views race, one of them announces "opened". *)
THEOREM OpenedOnceCorrect == Spec => []OpenedOnce
<1>1. OpenInv => OpenedOnce
  BY DEF OpenInv, OpenedOnce
<1> QED
  BY <1>1, InitOpenInv, NextOpenInv, ControlCorrect, PTL DEF Spec
=============================================================================
