-------------------- MODULE RequestStore_outcome_proofs ---------------------
(* What becomes of a request, proved on top of its types and its safety:   *)
(* the response is encrypted when its key says so, and comes with          *)
(* "completed"; replies agree with the deadline and with the answer; and   *)
(* the store implements RequestLifecycle.                                  *)
EXTENDS RequestStore_proofs

-----------------------------------------------------------------------------
(* A step assigns a Response only from the list of stores to make. *)
RespChange(h) == \A r \in Requests :
    \/ resp'[r] = resp[r]
    \/ /\ pc[h] = "store" /\ tgt[h] = r /\ r \in Stored
       /\ "resp" \in todo[h] /\ "resp" \notin todo'[h]
       /\ resp'[r] = IF body[h] = "empty" THEN None ELSE Given(h, FALSE)
    \/ /\ pc[h] = "store" /\ tgt[h] = r /\ r \in Stored
       /\ "enc" \in todo[h]
       /\ resp'[r] = Given(h, TRUE)

(* How a step changes the responses: RespChange covers every step. *)
LEMMA RespLemma ==
  ASSUME ControlInv, NEW h \in Handlers, Step(h)
  PROVE  RespChange(h)
<1>1. ASSUME NEW r \in Requests, NEW s \in Shapes, Create(h, r, s)
      PROVE  RespChange(h)
  BY <1>1 DEF Create, RespChange, ControlInv, TypeOK, JobInv, Job, Stored, reqVars, jobVars, outVars
<1>2. ASSUME NEW r \in Requests, NEW o \in LockOps, GetAndExpire(h, o, r)
      PROVE  RespChange(h)
  BY <1>2 DEF GetAndExpire, RespChange, ControlInv, TypeOK, JobInv, Job, Stored, reqVars, jobVars, outVars
<1>3. ASSUME NEW o \in SweepOps, NEW S \in SUBSET Stored, Sweep(h, o, S)
      PROVE  RespChange(h)
  BY <1>3 DEF Sweep, RespChange, ControlInv, TypeOK, JobInv, Job, Stored, reqVars, jobVars, outVars
<1>4. CASE CheckClock(h)
  BY <1>4 DEF CheckClock, RespChange, ControlInv, TypeOK, JobInv, Job, Stored, reqVars, jobVars, outVars
<1>5. CASE MarkOpened(h)
  BY <1>5 DEF MarkOpened, RespChange, ControlInv, TypeOK, JobInv, Job, Stored, reqVars, jobVars, outVars
<1>6. ASSUME NEW r \in Requests, Visit(h, r)
      PROVE  RespChange(h)
  BY <1>6 DEF Visit, RespChange, ControlInv, TypeOK, JobInv, Job, Stored, reqVars, jobVars, outVars
<1>7. CASE SweepEnd(h)
  BY <1>7 DEF SweepEnd, RespChange, ControlInv, TypeOK, JobInv, Job, Stored, reqVars, jobVars, outVars
<1>8. ASSUME NEW s \in Stores, LockedStore(h, s)
      PROVE  RespChange(h)
  BY <1>8 DEF LockedStore, RespChange, Write, MayStore, StatusWords, ControlInv, TypeOK, JobInv, Job, Stored, reqVars, jobVars, outVars
<1>9. CASE Reject(h)
  BY <1>9 DEF Reject, RespChange, ControlInv, TypeOK, JobInv, Job, Stored, reqVars, jobVars, outVars
<1>10. ASSUME NEW b \in {"short", "long", "empty"}, Respond(h, b)
       PROVE  RespChange(h)
  BY <1>10 DEF Respond, RespChange, ControlInv, TypeOK, JobInv, Job, Stored, reqVars, jobVars, outVars
<1>11. ASSUME NEW s \in PatchStatuses \cup {None}, Patch(h, s)
       PROVE  RespChange(h)
  BY <1>11 DEF Patch, RespChange, ControlInv, TypeOK, JobInv, Job, Stored, reqVars, jobVars, outVars
<1>12. ASSUME NEW s \in Stores, UnlockedStore(h, s)
       PROVE  RespChange(h)
  <2>1. /\ s \in todo[h] /\ pc[h] = "store"
        /\ tgt[h] \in Requests /\ tgt[h] \in Stored
    BY <1>12 DEF UnlockedStore, MayStore, ControlInv, JobInv, Job, PCs, Stored
  <2>2. todo'[h] = todo[h] \ {s}
    BY <1>12 DEF UnlockedStore, Write, ControlInv, TypeOK
  <2>3. resp' = CASE s = "resp" -> [resp EXCEPT ![tgt[h]] =
                        IF body[h] = "empty" THEN None ELSE Given(h, FALSE)]
                  [] s = "enc" -> [resp EXCEPT ![tgt[h]] = Given(h, TRUE)]
                  [] OTHER -> resp
    BY <1>12 DEF UnlockedStore, Write
  <2>4. resp \in [Requests -> Response]
    BY DEF ControlInv, TypeOK
  <2> QED
    BY <2>1, <2>2, <2>3, <2>4 DEF RespChange
<1>13. CASE Dispatch(h)
  BY <1>13 DEF Dispatch, RespChange, ControlInv, TypeOK, JobInv, Job, Stored, reqVars, jobVars, outVars
<1>14. CASE ReadReply(h)
  BY <1>14 DEF ReadReply, RespChange, ControlInv, TypeOK, JobInv, Job, Stored, reqVars, jobVars, outVars
<1>15. CASE SendWebhook(h)
  BY <1>15 DEF SendWebhook, RespChange, ControlInv, TypeOK, JobInv, Job, Stored, reqVars, jobVars, outVars
<1> QED
  BY <1>1, <1>2, <1>3, <1>4, <1>5, <1>6, <1>7, <1>8, <1>9, <1>10, <1>11, <1>12, <1>13,
     <1>14, <1>15 DEF Step, Arrive, Proceed

(* Past its body a handler keeps its request and its answer, and only      *)
(* makes the stores it has listed.                                         *)
Settled(h) ==
    pc[h] \in Answered =>
        /\ pc'[h] \in Answered /\ tgt'[h] = tgt[h] /\ body'[h] = body[h] /\ op'[h] = op[h]
        /\ todo'[h] \subseteq todo[h]

(* Past its body a handler keeps its request and answer. *)
LEMMA SettledLemma ==
  ASSUME ControlInv, NEW h \in Handlers, Step(h)
  PROVE  Settled(h)
<1>1. ASSUME NEW r \in Requests, NEW s \in Shapes, Create(h, r, s)
      PROVE  Settled(h)
  BY <1>1 DEF Create, Settled, Answered, ControlInv, TypeOK, JobInv, Job, StatusWords, reqVars, jobVars, outVars
<1>2. ASSUME NEW r \in Requests, NEW o \in LockOps, GetAndExpire(h, o, r)
      PROVE  Settled(h)
  BY <1>2 DEF GetAndExpire, Settled, Answered, ControlInv, TypeOK, JobInv, Job, StatusWords, reqVars, jobVars, outVars, AfterGet, LockOps, SweepOps
<1>3. ASSUME NEW o \in SweepOps, NEW S \in SUBSET Stored, Sweep(h, o, S)
      PROVE  Settled(h)
  BY <1>3 DEF Sweep, Settled, Answered, ControlInv, TypeOK, JobInv, Job, StatusWords, reqVars, jobVars, outVars
<1>4. CASE CheckClock(h)
  BY <1>4 DEF CheckClock, Settled, Answered, ControlInv, TypeOK, JobInv, Job, StatusWords, reqVars, jobVars, outVars, AfterGet, LockOps, SweepOps
<1>5. CASE MarkOpened(h)
  BY <1>5 DEF MarkOpened, Settled, Answered, ControlInv, TypeOK, JobInv, Job, StatusWords, reqVars, jobVars, outVars
<1>6. ASSUME NEW r \in Requests, Visit(h, r)
      PROVE  Settled(h)
  BY <1>6 DEF Visit, Settled, Answered, ControlInv, TypeOK, JobInv, Job, StatusWords, reqVars, jobVars, outVars
<1>7. CASE SweepEnd(h)
  BY <1>7 DEF SweepEnd, Settled, Answered, ControlInv, TypeOK, JobInv, Job, StatusWords, reqVars, jobVars, outVars
<1>8. ASSUME NEW s \in Stores, LockedStore(h, s)
      PROVE  Settled(h)
  BY <1>8 DEF LockedStore, Settled, Answered, ControlInv, TypeOK, JobInv, Job, StatusWords, reqVars, jobVars, outVars, Write, MayStore, Stores, AfterGet
<1>9. CASE Reject(h)
  BY <1>9 DEF Reject, Settled, Answered, ControlInv, TypeOK, JobInv, Job, StatusWords, reqVars, jobVars, outVars
<1>10. ASSUME NEW b \in {"short", "long", "empty"}, Respond(h, b)
       PROVE  Settled(h)
  BY <1>10 DEF Respond, Settled, Answered, ControlInv, TypeOK, JobInv, Job, StatusWords, reqVars, jobVars, outVars
<1>11. ASSUME NEW s \in PatchStatuses \cup {None}, Patch(h, s)
       PROVE  Settled(h)
  BY <1>11 DEF Patch, Settled, Answered, ControlInv, TypeOK, JobInv, Job, StatusWords, reqVars, jobVars, outVars
<1>12. ASSUME NEW s \in Stores, UnlockedStore(h, s)
       PROVE  Settled(h)
  BY <1>12 DEF UnlockedStore, Settled, Answered, ControlInv, TypeOK, JobInv, Job, StatusWords, reqVars, jobVars, outVars, Write, MayStore, Stores, AfterGet
<1>13. CASE Dispatch(h)
  BY <1>13 DEF Dispatch, Settled, Answered, ControlInv, TypeOK, JobInv, Job, StatusWords, reqVars, jobVars, outVars
<1>14. CASE ReadReply(h)
  BY <1>14 DEF ReadReply, Settled, Answered, ControlInv, TypeOK, JobInv, Job, StatusWords, reqVars, jobVars, outVars
<1>15. CASE SendWebhook(h)
  BY <1>15 DEF SendWebhook, Settled, Answered, ControlInv, TypeOK, JobInv, Job, StatusWords, reqVars, jobVars, outVars
<1> QED
  BY <1>1, <1>2, <1>3, <1>4, <1>5, <1>6, <1>7, <1>8, <1>9, <1>10, <1>11, <1>12, <1>13,
     <1>14, <1>15 DEF Step, Arrive, Proceed

(* The plain response is stored before the encrypted one, and listed with  *)
(* it when there is a key and the encryption succeeds.                     *)
Listed(h) ==
    /\ "enc" \in todo[h] \ todo'[h] => resp'[tgt[h]] = Given(h, TRUE)
    /\ "resp" \in todo[h] \ todo'[h] =>
          resp'[tgt[h]] = IF body[h] = "empty" THEN None ELSE Given(h, FALSE)
    /\ "resp" \in todo'[h] /\ "enc" \in todo[h] => "enc" \in todo'[h]
    /\ "resp" \in todo'[h] \ todo[h] =>
          tgt'[h] \in Stored /\ (attr[tgt'[h]].key /\ body'[h] # "long" => "enc" \in todo'[h])

(* A store of a response is listed with its encryption. *)
LEMMA ListedLemma ==
  ASSUME ControlInv, NEW h \in Handlers, Step(h)
  PROVE  Listed(h)
<1>1. ASSUME NEW r \in Requests, NEW s \in Shapes, Create(h, r, s)
      PROVE  Listed(h)
  BY <1>1 DEF Create, Listed, Answered, ControlInv, TypeOK, JobInv, Job, StatusWords, reqVars, jobVars, outVars
<1>2. ASSUME NEW r \in Requests, NEW o \in LockOps, GetAndExpire(h, o, r)
      PROVE  Listed(h)
  BY <1>2 DEF GetAndExpire, Listed, Answered, ControlInv, TypeOK, JobInv, Job, StatusWords, reqVars, jobVars, outVars, AfterGet, LockOps, SweepOps
<1>3. ASSUME NEW o \in SweepOps, NEW S \in SUBSET Stored, Sweep(h, o, S)
      PROVE  Listed(h)
  BY <1>3 DEF Sweep, Listed, Answered, ControlInv, TypeOK, JobInv, Job, StatusWords, reqVars, jobVars, outVars
<1>4. CASE CheckClock(h)
  <2>1. todo[h] \subseteq StatusWords
    BY <1>4 DEF CheckClock, ControlInv, JobInv, Job
  <2>2. todo'[h] \subseteq StatusWords
    BY <1>4, <2>1 DEF CheckClock, ControlInv, TypeOK
  <2> QED
    BY <2>1, <2>2 DEF Listed, StatusWords
<1>5. CASE MarkOpened(h)
  <2>1. todo[h] \subseteq StatusWords
    BY <1>5 DEF MarkOpened, ControlInv, JobInv, Job
  <2>2. todo'[h] \subseteq StatusWords
    BY <1>5, <2>1 DEF MarkOpened, ControlInv, TypeOK
  <2> QED
    BY <2>1, <2>2 DEF Listed, StatusWords
<1>6. ASSUME NEW r \in Requests, Visit(h, r)
      PROVE  Listed(h)
  <2>1. todo[h] \subseteq StatusWords
    BY <1>6 DEF Visit, ControlInv, JobInv, Job
  <2>2. todo'[h] \subseteq StatusWords
    BY <1>6, <2>1 DEF Visit, ControlInv, TypeOK
  <2> QED
    BY <2>1, <2>2 DEF Listed, StatusWords
<1>7. CASE SweepEnd(h)
  BY <1>7 DEF SweepEnd, Listed, Answered, ControlInv, TypeOK, JobInv, Job, StatusWords, reqVars, jobVars, outVars
<1>8. ASSUME NEW s \in Stores, LockedStore(h, s)
      PROVE  Listed(h)
  <2>1. todo[h] \subseteq StatusWords
    BY <1>8 DEF LockedStore, ControlInv, JobInv, Job
  <2>2. todo'[h] \subseteq StatusWords
    BY <1>8, <2>1 DEF LockedStore, Write, ControlInv, TypeOK
  <2> QED
    BY <2>1, <2>2 DEF Listed, StatusWords
<1>9. CASE Reject(h)
  BY <1>9 DEF Reject, Listed, Answered, ControlInv, TypeOK, JobInv, Job, StatusWords, reqVars, jobVars, outVars
<1>10. ASSUME NEW b \in {"short", "long", "empty"}, Respond(h, b)
       PROVE  Listed(h)
  <2>1. todo[h] = {} /\ tgt[h] \in Stored
    BY <1>10 DEF Respond, ControlInv, JobInv, Job, PCs
  <2>2. /\ todo'[h] = {"resp", "ptr", "len", "by"} \cup
                        (IF attr[tgt[h]].key /\ b # "long" THEN {"enc"} ELSE {})
        /\ body'[h] = b /\ tgt'[h] = tgt[h]
    BY <1>10 DEF Respond, AnswerStores, ControlInv, TypeOK
  <2> QED
    BY <2>1, <2>2 DEF Listed
<1>11. ASSUME NEW s \in PatchStatuses \cup {None}, Patch(h, s)
       PROVE  Listed(h)
  <2>1. todo[h] \subseteq StatusWords
    BY <1>11 DEF Patch, ControlInv, JobInv, Job
  <2>2. todo'[h] \subseteq StatusWords
    BY <1>11, <2>1 DEF Patch, ControlInv, TypeOK
  <2> QED
    BY <2>1, <2>2 DEF Listed, StatusWords
<1>12. ASSUME NEW s \in Stores, UnlockedStore(h, s)
       PROVE  Listed(h)
  <2>1. /\ s \in todo[h] /\ (s = "enc" => "resp" \notin todo[h])
        /\ tgt[h] \in Requests
    BY <1>12 DEF UnlockedStore, MayStore, ControlInv, JobInv, Job, PCs, Stored
  <2>2. todo'[h] = todo[h] \ {s}
    BY <1>12 DEF UnlockedStore, Write, ControlInv, TypeOK
  <2>3. /\ s = "enc" => resp'[tgt[h]] = Given(h, TRUE)
        /\ s = "resp" => resp'[tgt[h]] = IF body[h] = "empty" THEN None ELSE Given(h, FALSE)
    BY <1>12, <2>1 DEF UnlockedStore, Write, ControlInv, TypeOK
  <2> QED
    BY <2>1, <2>2, <2>3 DEF Listed
<1>13. CASE Dispatch(h)
  BY <1>13 DEF Dispatch, Listed, Answered, ControlInv, TypeOK, JobInv, Job, StatusWords, reqVars, jobVars, outVars
<1>14. CASE ReadReply(h)
  BY <1>14 DEF ReadReply, Listed, Answered, ControlInv, TypeOK, JobInv, Job, StatusWords, reqVars, jobVars, outVars
<1>15. CASE SendWebhook(h)
  BY <1>15 DEF SendWebhook, Listed, Answered, ControlInv, TypeOK, JobInv, Job, StatusWords, reqVars, jobVars, outVars
<1> QED
  BY <1>1, <1>2, <1>3, <1>4, <1>5, <1>6, <1>7, <1>8, <1>9, <1>10, <1>11, <1>12, <1>13,
     <1>14, <1>15 DEF Step, Arrive, Proceed

(* A handler gets its answer when it lists the stores.                     *)
NewAnswer(h) ==
    /\ body'[h] # body[h] => /\ pc'[h] = "store"
                             /\ op'[h] \in {"submit", "ui", "admin"}
                             /\ tgt'[h] \in Stored
                             /\ body'[h] # "none"
    /\ /\ op'[h] \in {"submit", "ui", "admin"}
       /\ pc'[h] \in {"store", "dispatch"}
       => \/ op'[h] = op[h] /\ pc[h] = "store"
          \/ body'[h] # "none" /\ "resp" \in todo'[h]

(* A handler comes to store an answer only by taking one. *)
LEMMA AnswerLemma ==
  ASSUME ControlInv, NEW h \in Handlers, Step(h)
  PROVE  NewAnswer(h)
<1>1. ASSUME NEW r \in Requests, NEW s \in Shapes, Create(h, r, s)
      PROVE  NewAnswer(h)
  BY <1>1 DEF Create, NewAnswer, Answered, ControlInv, TypeOK, JobInv, Job, StatusWords, reqVars, jobVars, outVars
<1>2. ASSUME NEW r \in Requests, NEW o \in LockOps, GetAndExpire(h, o, r)
      PROVE  NewAnswer(h)
  BY <1>2 DEF GetAndExpire, NewAnswer, Answered, ControlInv, TypeOK, JobInv, Job, StatusWords, reqVars, jobVars, outVars, AfterGet, LockOps, SweepOps
<1>3. ASSUME NEW o \in SweepOps, NEW S \in SUBSET Stored, Sweep(h, o, S)
      PROVE  NewAnswer(h)
  BY <1>3 DEF Sweep, NewAnswer, Answered, ControlInv, TypeOK, JobInv, Job, StatusWords, reqVars, jobVars, outVars
<1>4. CASE CheckClock(h)
  BY <1>4 DEF CheckClock, NewAnswer, Answered, ControlInv, TypeOK, JobInv, Job, StatusWords, reqVars, jobVars, outVars, AfterGet, LockOps, SweepOps
<1>5. CASE MarkOpened(h)
  BY <1>5 DEF MarkOpened, NewAnswer, Answered, ControlInv, TypeOK, JobInv, Job, StatusWords, reqVars, jobVars, outVars
<1>6. ASSUME NEW r \in Requests, Visit(h, r)
      PROVE  NewAnswer(h)
  BY <1>6 DEF Visit, NewAnswer, Answered, ControlInv, TypeOK, JobInv, Job, StatusWords, reqVars, jobVars, outVars
<1>7. CASE SweepEnd(h)
  BY <1>7 DEF SweepEnd, NewAnswer, Answered, ControlInv, TypeOK, JobInv, Job, StatusWords, reqVars, jobVars, outVars
<1>8. ASSUME NEW s \in Stores, LockedStore(h, s)
      PROVE  NewAnswer(h)
  BY <1>8 DEF LockedStore, NewAnswer, Answered, ControlInv, TypeOK, JobInv, Job, StatusWords, reqVars, jobVars, outVars, Write, MayStore, Stores, AfterGet
<1>9. CASE Reject(h)
  BY <1>9 DEF Reject, NewAnswer, Answered, ControlInv, TypeOK, JobInv, Job, StatusWords, reqVars, jobVars, outVars
<1>10. ASSUME NEW b \in {"short", "long", "empty"}, Respond(h, b)
       PROVE  NewAnswer(h)
  BY <1>10 DEF Respond, NewAnswer, Answered, ControlInv, TypeOK, JobInv, Job, StatusWords, reqVars, jobVars, outVars,
               AnswerStores
<1>11. ASSUME NEW s \in PatchStatuses \cup {None}, Patch(h, s)
       PROVE  NewAnswer(h)
  BY <1>11 DEF Patch, NewAnswer, Answered, ControlInv, TypeOK, JobInv, Job, StatusWords, reqVars, jobVars, outVars
<1>12. ASSUME NEW s \in Stores, UnlockedStore(h, s)
       PROVE  NewAnswer(h)
  BY <1>12 DEF UnlockedStore, NewAnswer, Answered, ControlInv, TypeOK, JobInv, Job, StatusWords, reqVars, jobVars, outVars, Write, MayStore, Stores, AfterGet
<1>13. CASE Dispatch(h)
  BY <1>13 DEF Dispatch, NewAnswer, Answered, ControlInv, TypeOK, JobInv, Job, StatusWords, reqVars, jobVars, outVars
<1>14. CASE ReadReply(h)
  BY <1>14 DEF ReadReply, NewAnswer, Answered, ControlInv, TypeOK, JobInv, Job, StatusWords, reqVars, jobVars, outVars
<1>15. CASE SendWebhook(h)
  BY <1>15 DEF SendWebhook, NewAnswer, Answered, ControlInv, TypeOK, JobInv, Job, StatusWords, reqVars, jobVars, outVars
<1> QED
  BY <1>1, <1>2, <1>3, <1>4, <1>5, <1>6, <1>7, <1>8, <1>9, <1>10, <1>11, <1>12, <1>13,
     <1>14, <1>15 DEF Step, Arrive, Proceed

-----------------------------------------------------------------------------
(* A response with a key is stored in the clear only in between.           *)

(* At the start there is no response. *)
LEMMA InitPlainInv == Init => PlainInv
  BY DEF Init, PlainInv, PlainOnlyWhileResponding, Stored

(* Every step keeps the invariant of the plaintexts. *)
LEMMA NextPlainInv == ControlInv /\ PlainInv /\ [Next]_vars => PlainInv'
<1> SUFFICES ASSUME ControlInv, PlainInv, [Next]_vars PROVE PlainInv'
  OBVIOUS
<1>1. CASE Tick
  BY <1>1 DEF Tick, PlainInv, PlainOnlyWhileResponding, Stored, reqVars, jobVars
<1>2. ASSUME NEW h \in Handlers, Step(h)
      PROVE  PlainInv'
  <2>1. Frame(h) /\ RespChange(h) /\ Settled(h) /\ Listed(h) /\ NewAnswer(h)
    BY <1>2, FrameLemma, RespLemma, SettledLemma, ListedLemma, AnswerLemma
  <2>2. \A r \in Stored : r \in Stored' /\ attr'[r] = attr[r]
    BY <2>1 DEF Frame
  <2>3. \A g \in Handlers \ {h} : LocalsUnchanged(g)
    BY <2>1 DEF Frame
  <2>4. \A r \in Requests : resp[r] # None => resp[r].of \in Handlers
    BY DEF ControlInv, TypeOK, Response, Answer
  <2>5. Given(h, FALSE).of = h /\ Given(h, TRUE).of = h /\ Given(h, TRUE).enc
    BY DEF Given
  <2>6. ASSUME NEW r \in Requests \ Stored'
        PROVE  resp'[r] = None
    BY <2>1, <2>2, <2>6 DEF RespChange, PlainInv
  <2>7. ASSUME NEW r \in Requests, resp'[r] # None
        PROVE  pc'[resp'[r].of] \in Answered
    <3>1. CASE resp'[r] = resp[r]
      <4>1. resp[r].of \in Handlers /\ pc[resp[r].of] \in Answered
        BY <2>4, <2>7, <3>1 DEF PlainInv
      <4>2. CASE resp[r].of = h
        BY <2>1, <3>1, <4>1, <4>2 DEF Settled
      <4>3. CASE resp[r].of # h
        BY <2>3, <3>1, <4>1, <4>3 DEF LocalsUnchanged
      <4> QED
        BY <4>2, <4>3
    <3>2. CASE resp'[r] # resp[r]
      <4>1. pc[h] = "store" /\ resp'[r].of = h
        BY <2>1, <2>5, <2>7, <3>2 DEF RespChange
      <4> QED
        BY <2>1, <4>1 DEF Settled, Answered
    <3> QED
      BY <3>1, <3>2
  <2>8. ASSUME NEW g \in Handlers, "resp" \in todo'[g], attr'[tgt'[g]].key, body'[g] # "long"
        PROVE  "enc" \in todo'[g]
    <3>1. CASE g = h /\ "resp" \in todo[h]
      <4>1. pc[h] \in Answered
        BY <3>1 DEF ControlInv, JobInv, Job, StatusWords, Answered
      <4>2. tgt[h] \in Stored
        BY <3>1 DEF ControlInv, JobInv, Job, PCs
      <4> QED
        BY <2>1, <2>2, <2>8, <3>1, <4>1, <4>2 DEF Settled, Listed, PlainInv
    <3>2. CASE g = h /\ "resp" \notin todo[h]
      BY <2>1, <2>2, <2>8, <3>2 DEF Listed
    <3>3. CASE g # h
      <4>1. tgt[g] \in Stored
        BY <2>3, <2>8, <3>3 DEF LocalsUnchanged, ControlInv, JobInv, Job, PCs
      <4> QED
        BY <2>2, <2>3, <2>8, <3>3, <4>1 DEF LocalsUnchanged, PlainInv
    <3> QED
      BY <3>1, <3>2, <3>3
  <2>9. ASSUME NEW r \in Stored', attr'[r].key, resp'[r] # None, ~resp'[r].enc
        PROVE  LET g == resp'[r].of IN
               tgt'[g] = r /\ ("enc" \in todo'[g] \/ body'[g] = "long")
    <3>1. r \in Requests
      BY DEF Stored
    <3>2. CASE resp'[r] = resp[r]
      <4> DEFINE g == resp[r].of
      <4>1. g \in Handlers /\ r \in Stored
        BY <2>4, <2>9, <3>1, <3>2 DEF PlainInv
      <4>2. tgt[g] = r /\ ("enc" \in todo[g] \/ body[g] = "long") /\ pc[g] \in Answered
        BY <2>2, <2>9, <3>2, <4>1 DEF PlainInv, PlainOnlyWhileResponding, Stored
      <4>3. CASE g = h
        <5>1. tgt'[g] = r /\ body'[g] = body[g]
          BY <2>1, <4>2, <4>3 DEF Settled
        <5>2. "enc" \notin todo[h] \ todo'[h]
          BY <2>1, <2>5, <2>9, <4>2, <4>3 DEF Listed
        <5> QED
          BY <3>2, <4>2, <4>3, <5>1, <5>2
      <4>4. CASE g # h
        BY <2>3, <3>2, <4>1, <4>2, <4>4 DEF LocalsUnchanged
      <4> QED
        BY <4>3, <4>4
    <3>3. CASE resp'[r] # resp[r]
      <4>1. /\ pc[h] = "store" /\ tgt[h] = r /\ r \in Stored
            /\ "resp" \in todo[h] /\ resp'[r] = Given(h, FALSE)
        BY <2>1, <2>5, <2>9, <3>1, <3>3 DEF RespChange
      <4>2. "enc" \in todo[h] \/ body[h] = "long"
        BY <2>2, <2>9, <4>1 DEF PlainInv
      <4>3. "enc" \notin todo[h] \ todo'[h]
        BY <2>1, <2>5, <2>9, <4>1 DEF Listed
      <4>4. tgt'[h] = r /\ body'[h] = body[h]
        BY <2>1, <4>1 DEF Settled, Answered
      <4> QED
        BY <2>5, <4>1, <4>2, <4>3, <4>4
    <3> QED
      BY <3>2, <3>3
  <2> QED
    BY <2>6, <2>7, <2>8, <2>9 DEF PlainInv, PlainOnlyWhileResponding
<1>3. CASE UNCHANGED vars
  BY <1>3 DEF vars, reqVars, jobVars, PlainInv, PlainOnlyWhileResponding, Stored
<1> QED
  BY <1>1, <1>2, <1>3 DEF Next, Step

(* Racing answers never leave a keyed request's response in the clear. *)
THEOREM PlainCorrect == Spec => []PlainOnlyWhileResponding
<1>1. PlainInv => PlainOnlyWhileResponding
  BY DEF PlainInv
<1> QED
  BY <1>1, InitPlainInv, NextPlainInv, ControlCorrect, PTL DEF Spec

-----------------------------------------------------------------------------
(* A "completed" event carries a response.                                 *)

(* What a step does to the event of a handler.                             *)
EventChange(h) ==
    \/ event'[h] = event[h]
    \/ /\ event'[h].got = 0
       /\ event'[h].type = "completed" =>
             /\ op[h] \in {"submit", "ui", "admin"} /\ pc[h] = "dispatch" /\ todo[h] = {}
             /\ tgt'[h] = tgt[h] /\ tgt[h] \in Stored
    \/ /\ event'[h] = ReadOn(event[h], tgt[h]) /\ event[h].got < 2
       /\ event[h].type # "none"
       /\ resp' = resp /\ tgt'[h] = tgt[h]

(* How a step changes an event: EventChange covers every step. *)
LEMMA EventLemma ==
  ASSUME ControlInv, NEW h \in Handlers, Step(h)
  PROVE  EventChange(h)
<1>1. ASSUME NEW r \in Requests, NEW s \in Shapes, Create(h, r, s)
      PROVE  EventChange(h)
  BY <1>1 DEF Create, EventChange, ReadOn, NewEvent, EventType, ControlInv, TypeOK, JobInv, Job, PCs, reqVars, jobVars, outVars
<1>2. ASSUME NEW r \in Requests, NEW o \in LockOps, GetAndExpire(h, o, r)
      PROVE  EventChange(h)
  BY <1>2 DEF GetAndExpire, EventChange, ReadOn, NewEvent, EventType, ControlInv, TypeOK, JobInv, Job, PCs, reqVars, jobVars, outVars
<1>3. ASSUME NEW o \in SweepOps, NEW S \in SUBSET Stored, Sweep(h, o, S)
      PROVE  EventChange(h)
  BY <1>3 DEF Sweep, EventChange, ReadOn, NewEvent, EventType, ControlInv, TypeOK, JobInv, Job, PCs, reqVars, jobVars, outVars
<1>4. CASE CheckClock(h)
  BY <1>4 DEF CheckClock, EventChange, ReadOn, NewEvent, EventType, ControlInv, TypeOK, JobInv, Job, PCs, reqVars, jobVars, outVars
<1>5. CASE MarkOpened(h)
  BY <1>5 DEF MarkOpened, EventChange, ReadOn, NewEvent, EventType, ControlInv, TypeOK, JobInv, Job, PCs, reqVars, jobVars, outVars
<1>6. ASSUME NEW r \in Requests, Visit(h, r)
      PROVE  EventChange(h)
  BY <1>6 DEF Visit, EventChange, ReadOn, NewEvent, EventType, ControlInv, TypeOK, JobInv, Job, PCs, reqVars, jobVars, outVars
<1>7. CASE SweepEnd(h)
  BY <1>7 DEF SweepEnd, EventChange, ReadOn, NewEvent, EventType, ControlInv, TypeOK, JobInv, Job, PCs, reqVars, jobVars, outVars
<1>8. ASSUME NEW s \in Stores, LockedStore(h, s)
      PROVE  EventChange(h)
  BY <1>8 DEF LockedStore, EventChange, ReadOn, NewEvent, EventType, ControlInv, TypeOK, JobInv, Job, PCs, reqVars, jobVars, outVars, Write
<1>9. CASE Reject(h)
  BY <1>9 DEF Reject, EventChange, ReadOn, NewEvent, EventType, ControlInv, TypeOK, JobInv, Job, PCs, reqVars, jobVars, outVars
<1>10. ASSUME NEW b \in {"short", "long", "empty"}, Respond(h, b)
       PROVE  EventChange(h)
  BY <1>10 DEF Respond, EventChange, ReadOn, NewEvent, EventType, ControlInv, TypeOK, JobInv, Job, PCs, reqVars, jobVars, outVars
<1>11. ASSUME NEW s \in PatchStatuses \cup {None}, Patch(h, s)
       PROVE  EventChange(h)
  BY <1>11 DEF Patch, EventChange, ReadOn, NewEvent, EventType, ControlInv, TypeOK, JobInv, Job, PCs, reqVars, jobVars, outVars
<1>12. ASSUME NEW s \in Stores, UnlockedStore(h, s)
       PROVE  EventChange(h)
  BY <1>12 DEF UnlockedStore, EventChange, ReadOn, NewEvent, EventType, ControlInv, TypeOK, JobInv, Job, PCs, reqVars, jobVars, outVars, Write
<1>13. CASE Dispatch(h)
  BY <1>13 DEF Dispatch, EventChange, ReadOn, NewEvent, EventType, ControlInv, TypeOK, JobInv, Job, PCs, reqVars, jobVars, outVars
<1>14. CASE ReadReply(h)
  BY <1>14 DEF ReadReply, EventChange, ReadOn, NewEvent, EventType, ControlInv, TypeOK, JobInv, Job, PCs, reqVars, jobVars, outVars
<1>15. CASE SendWebhook(h)
  BY <1>15 DEF SendWebhook, EventChange, ReadOn, NewEvent, EventType, ControlInv, TypeOK, JobInv, Job, PCs, reqVars, jobVars, outVars
<1> QED
  BY <1>1, <1>2, <1>3, <1>4, <1>5, <1>6, <1>7, <1>8, <1>9, <1>10, <1>11, <1>12, <1>13,
     <1>14, <1>15 DEF Step, Arrive, Proceed

(* At the start nothing is answered. *)
LEMMA InitResponseInv == Init => ResponseInv
  BY DEF Init, ResponseInv, CompletedEventHasResponse, NoSnap, NewEvent

(* Once a request has a response, it keeps one, or an empty one was given. *)
LEMMA HasResponseStable ==
  ASSUME ControlInv, ResponseInv, NEW h \in Handlers, Step(h),
         NEW r \in Requests, HasResponse(r)
  PROVE  HasResponse(r)'
<1> USE ConstantsAssumption
<1>1. Frame(h) /\ RespChange(h) /\ Settled(h)
  BY FrameLemma, RespLemma, SettledLemma
<1>2. ASSUME NEW g \in Handlers, tgt[g] = r, body[g] = "empty"
      PROVE  AnsweredEmpty(r)'
  <2>1. pc[g] \in Answered
    BY <1>2 DEF ResponseInv
  <2>2. tgt'[g] = r /\ body'[g] = "empty"
    BY <1>1, <1>2, <2>1 DEF Frame, LocalsUnchanged, Settled
  <2> QED
    BY <2>2 DEF AnsweredEmpty
<1>3. CASE resp[r] # None /\ resp'[r] = None
  <2>1. pc[h] = "store" /\ tgt[h] = r /\ (body[h] = "empty" \/ Given(h, FALSE) = None \/ Given(h, TRUE) = None)
    BY <1>1, <1>3 DEF RespChange
  <2>2. Given(h, FALSE) \in Answer /\ Given(h, TRUE) \in Answer
    BY DEF Given, Answer
  <2> QED
    BY <1>2, <2>1, <2>2 DEF HasResponse
<1> QED
  BY <1>2, <1>3 DEF HasResponse, AnsweredEmpty

(* Every step keeps the invariant of the responses. *)
LEMMA NextResponseInv == ControlInv /\ ResponseInv /\ [Next]_vars => ResponseInv'
<1> SUFFICES ASSUME ControlInv, ResponseInv, [Next]_vars PROVE ResponseInv'
  OBVIOUS
<1> USE ConstantsAssumption
<1>1. CASE Tick
  BY <1>1 DEF Tick, ResponseInv, CompletedEventHasResponse, HasResponse, AnsweredEmpty, Stored,
              reqVars, jobVars, outVars
<1>2. ASSUME NEW h \in Handlers, Step(h)
      PROVE  ResponseInv'
  <2>1. /\ Frame(h) /\ RespChange(h) /\ Settled(h) /\ Listed(h) /\ NewAnswer(h)
        /\ EventChange(h)
    BY <1>2, FrameLemma, RespLemma, SettledLemma, ListedLemma, AnswerLemma, EventLemma
  <2>2. \A r \in Stored : r \in Stored' /\ r \in Requests
    BY <2>1 DEF Frame, Stored
  <2>3. \A g \in Handlers \ {h} : LocalsUnchanged(g)
    BY <2>1 DEF Frame
  <2>4. \A r \in Requests : HasResponse(r) => HasResponse(r)'
    BY <1>2, HasResponseStable
  <2>5. ASSUME NEW g \in Handlers, body'[g] # "none"
        PROVE  /\ pc'[g] \in Answered
               /\ op'[g] \in {"submit", "ui", "admin"}
               /\ tgt'[g] \in Stored'
    <3>1. CASE g = h /\ body'[h] # body[h]
      BY <2>1, <2>2, <3>1 DEF NewAnswer, Answered
    <3>2. CASE g = h /\ body'[h] = body[h]
      BY <2>1, <2>2, <2>5, <3>2 DEF Settled, ResponseInv
    <3>3. CASE g # h
      BY <2>2, <2>3, <2>5, <3>3 DEF LocalsUnchanged, ResponseInv
    <3> QED
      BY <3>1, <3>2, <3>3
  <2>6. ASSUME NEW g \in Handlers, op'[g] \in {"submit", "ui", "admin"},
               pc'[g] \in {"store", "dispatch"}
        PROVE  body'[g] # "none" /\ ("resp" \notin todo'[g] => HasResponse(tgt[g])')
    <3>1. CASE g = h /\ op'[h] = op[h] /\ pc[h] = "store"
      <4>1. /\ tgt[h] \in Requests /\ tgt'[h] = tgt[h] /\ body'[h] = body[h]
            /\ body[h] # "none"
        BY <2>1, <2>2, <2>6, <3>1 DEF Settled, Answered, ResponseInv
      <4>2. "resp" \notin todo[h] => HasResponse(tgt[h])
        BY <2>6, <3>1 DEF ResponseInv
      <4>3. CASE "resp" \in todo[h] \ todo'[h]
        <5>1. resp'[tgt[h]] = IF body[h] = "empty" THEN None ELSE Given(h, FALSE)
          BY <2>1, <4>3 DEF Listed
        <5>2. Given(h, FALSE) # None
          <6>1. Given(h, FALSE) \in Answer
            BY DEF Given, Answer
          <6> QED
            BY <6>1
        <5>3. body[h] = "empty" => AnsweredEmpty(tgt[h])'
          BY <4>1 DEF AnsweredEmpty
        <5> QED
          BY <3>1, <4>1, <5>1, <5>2, <5>3 DEF HasResponse
      <4> QED
        BY <2>4, <3>1, <4>1, <4>2, <4>3
    <3>2. CASE g = h /\ ~(op'[h] = op[h] /\ pc[h] = "store")
      BY <2>1, <2>6, <3>2 DEF NewAnswer
    <3>3. CASE g # h
      <4>1. tgt[g] \in Requests
        BY <2>2, <2>3, <2>6, <3>3 DEF LocalsUnchanged, ControlInv, JobInv, Job, PCs
      <4> QED
        BY <2>3, <2>4, <2>6, <3>3, <4>1 DEF LocalsUnchanged, ResponseInv
    <3> QED
      BY <3>1, <3>2, <3>3
  <2>7. ASSUME NEW g \in Handlers, event'[g].type = "completed"
        PROVE  HasResponse(tgt[g])'
    <3>1. CASE event[g].type = "completed"
      <4>1. tgt[g] \in Requests /\ pc[g] \in Answered /\ HasResponse(tgt[g])
        BY <2>2, <3>1 DEF ControlInv, JobInv, Job, Answered, ResponseInv
      <4>2. tgt'[g] = tgt[g]
        BY <2>1, <2>3, <4>1 DEF LocalsUnchanged, Settled
      <4> QED
        BY <2>4, <4>1, <4>2
    <3>2. CASE event[g].type # "completed"
      <4>1. g = h
        BY <2>3, <2>7, <3>2 DEF LocalsUnchanged
      <4>2. /\ op[h] \in {"submit", "ui", "admin"} /\ pc[h] = "dispatch" /\ todo[h] = {}
            /\ tgt'[h] = tgt[h] /\ tgt[h] \in Stored
        BY <2>1, <2>7, <3>2, <4>1 DEF EventChange, ReadOn
      <4>3. HasResponse(tgt[h])
        BY <4>2 DEF ResponseInv
      <4> QED
        BY <2>2, <2>4, <4>1, <4>2, <4>3
    <3> QED
      BY <3>1, <3>2
  <2>8. ASSUME NEW g \in Handlers, event'[g].type = "completed", event'[g].got = 2
        PROVE  event'[g].resp # None \/ AnsweredEmpty(tgt[g])'
    <3>1. CASE event'[g] = event[g]
      <4>1. /\ tgt[g] \in Requests /\ pc[g] \in Answered
            /\ event[g].resp # None \/ AnsweredEmpty(tgt[g])
        BY <2>2, <2>8, <3>1
           DEF ControlInv, JobInv, Job, Answered, ResponseInv, CompletedEventHasResponse
      <4>2. tgt'[g] = tgt[g]
        BY <2>1, <2>3, <4>1 DEF LocalsUnchanged, Settled
      <4>3. AnsweredEmpty(tgt[g]) => AnsweredEmpty(tgt[g])'
        BY <2>1, <2>3, <4>2 DEF AnsweredEmpty, LocalsUnchanged, Settled, ResponseInv
      <4> QED
        BY <3>1, <4>1, <4>3
    <3>2. CASE event'[g] # event[g]
      <4>1. g = h
        BY <2>3, <3>2 DEF LocalsUnchanged
      <4>2. event'[h] = ReadOn(event[h], tgt[h]) /\ resp' = resp
        BY <2>1, <2>8, <3>2, <4>1 DEF EventChange
      <4>3. event'[h].resp = resp[tgt[h]] /\ event[h].type = "completed"
        BY <2>8, <4>1, <4>2 DEF ReadOn
      <4>4. HasResponse(tgt[h])
        BY <4>3 DEF ResponseInv
      <4>5. tgt'[h] = tgt[h]
        BY <2>1, <4>3 DEF ControlInv, JobInv, Job, Answered, Settled
      <4>6. AnsweredEmpty(tgt[h]) => AnsweredEmpty(tgt[h])'
        BY <2>1, <2>3, <4>5 DEF AnsweredEmpty, LocalsUnchanged, Settled, ResponseInv
      <4> QED
        BY <4>1, <4>3, <4>4, <4>6 DEF HasResponse
    <3> QED
      BY <3>1, <3>2
  <2> QED
    BY <2>5, <2>6, <2>7, <2>8 DEF ResponseInv, CompletedEventHasResponse
<1>3. CASE UNCHANGED vars
  BY <1>3 DEF vars, ResponseInv, CompletedEventHasResponse, HasResponse, AnsweredEmpty, Stored,
              reqVars, jobVars, outVars
<1> QED
  BY <1>1, <1>2, <1>3 DEF Next, Step

(* Whoever has answered leaves a response, see ResponseInv.                *)
THEOREM ResponseCorrect == Spec => [](ControlInv /\ ResponseInv)
  BY InitResponseInv, NextResponseInv, ControlCorrect, PTL DEF Spec

(* A "completed" event carries the response, in whatever order the stores  *)
(* of the handlers become visible.                                         *)
THEOREM CompletedEventCorrect == Spec => []CompletedEventHasResponse
<1>1. ControlInv /\ ResponseInv => CompletedEventHasResponse
  BY DEF ResponseInv
<1> QED
  BY <1>1, ResponseCorrect, PTL

-----------------------------------------------------------------------------
(* "completed" is a sign of a response.                                    *)

(* In program order the status is stored after the response.               *)
InOrder(h) ==
    ProgramOrder /\ "ptr" \in todo[h] \ todo'[h] => "resp" \notin todo[h]

(* In program order, Status is stored after Response. *)
LEMMA OrderLemma ==
  ASSUME ControlInv, NEW h \in Handlers, Step(h)
  PROVE  InOrder(h)
<1>1. ASSUME NEW r \in Requests, NEW s \in Shapes, Create(h, r, s)
      PROVE  InOrder(h)
  BY <1>1 DEF Create, InOrder, ControlInv, TypeOK, JobInv, Job, reqVars, jobVars, outVars
<1>2. ASSUME NEW r \in Requests, NEW o \in LockOps, GetAndExpire(h, o, r)
      PROVE  InOrder(h)
  BY <1>2 DEF GetAndExpire, InOrder, ControlInv, TypeOK, JobInv, Job, reqVars, jobVars, outVars
<1>3. ASSUME NEW o \in SweepOps, NEW S \in SUBSET Stored, Sweep(h, o, S)
      PROVE  InOrder(h)
  BY <1>3 DEF Sweep, InOrder, ControlInv, TypeOK, JobInv, Job, reqVars, jobVars, outVars
<1>4. CASE CheckClock(h)
  BY <1>4 DEF CheckClock, InOrder, ControlInv, TypeOK, JobInv, Job, reqVars, jobVars, outVars
<1>5. CASE MarkOpened(h)
  BY <1>5 DEF MarkOpened, InOrder, ControlInv, TypeOK, JobInv, Job, reqVars, jobVars, outVars
<1>6. ASSUME NEW r \in Requests, Visit(h, r)
      PROVE  InOrder(h)
  BY <1>6 DEF Visit, InOrder, ControlInv, TypeOK, JobInv, Job, reqVars, jobVars, outVars
<1>7. CASE SweepEnd(h)
  BY <1>7 DEF SweepEnd, InOrder, ControlInv, TypeOK, JobInv, Job, reqVars, jobVars, outVars
<1>8. ASSUME NEW s \in Stores, LockedStore(h, s)
      PROVE  InOrder(h)
  BY <1>8 DEF LockedStore, InOrder, ControlInv, TypeOK, JobInv, Job, reqVars, jobVars, outVars, Write, MayStore, Rank, Stores, StatusWords
<1>9. CASE Reject(h)
  BY <1>9 DEF Reject, InOrder, ControlInv, TypeOK, JobInv, Job, reqVars, jobVars, outVars
<1>10. ASSUME NEW b \in {"short", "long", "empty"}, Respond(h, b)
       PROVE  InOrder(h)
  BY <1>10 DEF Respond, InOrder, ControlInv, TypeOK, JobInv, Job, reqVars, jobVars, outVars
<1>11. ASSUME NEW s \in PatchStatuses \cup {None}, Patch(h, s)
       PROVE  InOrder(h)
  BY <1>11 DEF Patch, InOrder, ControlInv, TypeOK, JobInv, Job, reqVars, jobVars, outVars
<1>12. ASSUME NEW s \in Stores, UnlockedStore(h, s)
       PROVE  InOrder(h)
  BY <1>12 DEF UnlockedStore, InOrder, ControlInv, TypeOK, JobInv, Job, reqVars, jobVars, outVars, Write, MayStore, Rank, Stores, StatusWords
<1>13. CASE Dispatch(h)
  BY <1>13 DEF Dispatch, InOrder, ControlInv, TypeOK, JobInv, Job, reqVars, jobVars, outVars
<1>14. CASE ReadReply(h)
  BY <1>14 DEF ReadReply, InOrder, ControlInv, TypeOK, JobInv, Job, reqVars, jobVars, outVars
<1>15. CASE SendWebhook(h)
  BY <1>15 DEF SendWebhook, InOrder, ControlInv, TypeOK, JobInv, Job, reqVars, jobVars, outVars
<1> QED
  BY <1>1, <1>2, <1>3, <1>4, <1>5, <1>6, <1>7, <1>8, <1>9, <1>10, <1>11, <1>12, <1>13,
     <1>14, <1>15 DEF Step, Arrive, Proceed


(* At the start nothing is completed. *)
LEMMA InitCompletedInv == Init => CompletedInv
  BY DEF Init, CompletedInv, CompletedHasResponse, NoSnap, NewEvent

(* In program order, every step keeps the invariant of completion. *)
LEMMA NextCompletedInv ==
  /\ ProgramOrder /\ "completed" \notin PatchStatuses
  /\ ControlInv /\ ResponseInv /\ CompletedInv /\ [Next]_vars
  => CompletedInv'
<1> SUFFICES ASSUME ProgramOrder, "completed" \notin PatchStatuses,
                    ControlInv, ResponseInv, CompletedInv, [Next]_vars
             PROVE  CompletedInv'
  OBVIOUS
<1>1. CASE Tick
  BY <1>1 DEF Tick, CompletedInv, CompletedHasResponse, HasResponse, AnsweredEmpty,
              reqVars, jobVars, outVars
<1>2. ASSUME NEW h \in Handlers, Step(h)
      PROVE  CompletedInv'
  <2>1. /\ Frame(h) /\ PtrChange(h) /\ WantChange(h) /\ SnapChange(h) /\ Settled(h)
        /\ InOrder(h)
    BY <1>2, FrameLemma, PtrLemma, WantLemma, SnapLemma, SettledLemma, OrderLemma
  <2>2. \A r \in Stored : r \in Requests
    BY DEF Stored
  <2>3. \A g \in Handlers \ {h} : LocalsUnchanged(g)
    BY <2>1 DEF Frame
  <2>4. \A r \in Requests : HasResponse(r) => HasResponse(r)'
    BY <1>2, HasResponseStable
  <2>5. ASSUME NEW r \in Requests, ptr'[r] = "completed"
        PROVE  HasResponse(r)'
    <3>1. CASE ptr'[r] = ptr[r]
      BY <2>4, <2>5, <3>1 DEF CompletedInv
    <3>2. CASE "ptr" \in todo[h] \ todo'[h] /\ tgt[h] = r /\ want[h] = "completed"
      <4>1. op[h] \in {"submit", "ui", "admin"} /\ pc[h] = "store" /\ "resp" \notin todo[h]
        BY <2>1, <3>2 DEF CompletedInv, InOrder
      <4> QED
        BY <2>4, <3>2, <4>1 DEF ResponseInv
    <3> QED
      BY <2>1, <2>5, <3>1, <3>2 DEF PtrChange
  <2>6. ASSUME NEW g \in Handlers, want'[g] = "completed", "ptr" \in todo'[g]
        PROVE  op'[g] \in {"submit", "ui", "admin"} /\ pc'[g] = "store"
    <3>1. CASE g = h
      BY <2>1, <2>6, <3>1 DEF WantChange, CompletedInv
    <3>2. CASE g # h
      BY <2>3, <2>6, <3>2 DEF LocalsUnchanged, CompletedInv
    <3> QED
      BY <3>1, <3>2
  <2>7. ASSUME NEW g \in Handlers, NEW y \in {reply'[g], event'[g]}, y.status = "completed"
        PROVE  /\ HasResponse(tgt[g])'
               /\ y.got = 2 => y.resp # None \/ AnsweredEmpty(tgt[g])'
    <3>1. CASE g = h
      <4>1. /\ tgt'[h] = tgt[h] /\ tgt[h] \in Requests
            /\ \E x \in {reply[h], event[h]} : y = x \/ y = ReadOn(x, tgt[h])
        BY <2>1, <2>2, <2>7, <3>1 DEF SnapChange
      <4>2. PICK x \in {reply[h], event[h]} : y = x \/ y = ReadOn(x, tgt[h])
        BY <4>1
      <4>3. AnsweredEmpty(tgt[h]) => AnsweredEmpty(tgt[h])'
        BY <2>1, <2>3, <4>1 DEF AnsweredEmpty, LocalsUnchanged, Settled, ResponseInv
      <4>4. StatusOf(tgt[h]) = "completed" => ptr[tgt[h]] = "completed"
        BY <4>1, StatusOfPtr DEF Torn
      <4>5. HasResponse(tgt[h])
        BY <2>7, <4>1, <4>2, <4>4 DEF ReadOn, CompletedInv
      <4>6. CASE y = x
        BY <2>4, <2>7, <3>1, <4>1, <4>3, <4>5, <4>6 DEF CompletedInv, CompletedHasResponse
      <4>7. CASE y = ReadOn(x, tgt[h])
        <5>1. y.got = 2 => y.resp = resp[tgt[h]]
          BY <4>7 DEF ReadOn
        <5> QED
          BY <2>4, <3>1, <4>1, <4>3, <4>5, <5>1 DEF HasResponse
      <4> QED
        BY <4>2, <4>6, <4>7
    <3>2. CASE g # h
      <4>1. LocalsUnchanged(g) /\ y \in {reply[g], event[g]}
        BY <2>3, <2>7, <3>2 DEF LocalsUnchanged
      <4>2. tgt[g] \in Requests
        BY <2>2, <2>7, <4>1, TellersStored
      <4>3. HasResponse(tgt[g]) /\ (y.got = 2 => y.resp # None \/ AnsweredEmpty(tgt[g]))
        BY <2>7, <4>1 DEF CompletedInv, CompletedHasResponse
      <4>4. AnsweredEmpty(tgt[g]) => AnsweredEmpty(tgt[g])'
        BY <2>1, <2>3, <4>1 DEF AnsweredEmpty, LocalsUnchanged, Settled, ResponseInv
      <4> QED
        BY <2>4, <4>1, <4>2, <4>3, <4>4 DEF LocalsUnchanged
    <3> QED
      BY <3>1, <3>2
  <2> QED
    BY <2>5, <2>6, <2>7 DEF CompletedInv, CompletedHasResponse
<1>3. CASE UNCHANGED vars
  BY <1>3 DEF vars, CompletedInv, CompletedHasResponse, HasResponse, AnsweredEmpty,
              reqVars, jobVars, outVars
<1> QED
  BY <1>1, <1>2, <1>3 DEF Next, Step

(* Where stores appear in program order, and nobody but an answer assigns  *)
(* "completed", whoever reads "completed" reads a response.                *)
THEOREM CompletedCorrect ==
  Spec => [](ProgramOrder /\ "completed" \notin PatchStatuses => CompletedHasResponse)
<1> DEFINE Ordered == ProgramOrder /\ "completed" \notin PatchStatuses
           Inv == Ordered => CompletedInv
<1>1. Init => Inv
  BY InitCompletedInv
<1>2. ControlInv /\ ResponseInv /\ Inv /\ [Next]_vars => Inv'
  BY NextCompletedInv
<1>3. Inv => (Ordered => CompletedHasResponse)
  BY DEF CompletedInv
<1> HIDE DEF Inv
<1>4. Spec => []Inv
  BY <1>1, <1>2, ResponseCorrect, PTL DEF Spec
<1> QED
  BY <1>3, <1>4, PTL
-----------------------------------------------------------------------------
(* What a step does to the status words: it creates a request, makes a     *)
(* store, or leaves them.                                                  *)

CreateStep(h, r) ==
    /\ r \notin Stored /\ pc[h] = "idle" /\ pc'[h] = "read" /\ op'[h] = "create"
    /\ attr'[r] \in Attr /\ attr'[r].deadline \in {None} \cup {t \in Nat : now <= t}
    /\ attr' = [attr EXCEPT ![r] = attr'[r]]
    /\ ptr' = [ptr EXCEPT ![r] = IF attr'[r].held THEN "held" ELSE "pending"]
    /\ len' = [len EXCEPT ![r] = Width(ptr'[r])]
    /\ want'[h] = "none" /\ todo'[h] = {}

StoreStep(h, s) ==
    /\ pc[h] \in {"locked", "store"} /\ s \in todo[h] /\ tgt[h] \in Stored
    /\ ptr' = IF s = "ptr" THEN [ptr EXCEPT ![tgt[h]] = want[h]] ELSE ptr
    /\ len' = IF s = "len" THEN [len EXCEPT ![tgt[h]] = Width(want[h])] ELSE len
    /\ UNCHANGED attr
    /\ todo'[h] = todo[h] \ {s}
    /\ op'[h] = op[h] /\ tgt'[h] = tgt[h] /\ want'[h] = want[h] /\ clk'[h] = clk[h]
    /\ \/ pc'[h] = pc[h]
       \/ todo'[h] = {} /\ pc'[h] \notin {"clock", "locked", "store"}

(* Locked sections are entered when the mutex is free, or from another one *)
(* of the same handler, and after a test of the status.                    *)
OtherStep(h) ==
    /\ UNCHANGED <<attr, ptr, len>>
    /\ pc[h] \in {"locked", "store"} => LocalsUnchanged(h)
    /\ pc'[h] \in {"clock", "locked"} => tgt'[h] \in Stored /\ (mu = None \/ mu = h)
    /\ pc'[h] = "clock" =>
          \/ pc[h] = "clock" /\ tgt'[h] = tgt[h]
          \/ StatusOf(tgt'[h]) \in {"pending", "opened"}
    /\ pc'[h] = "locked" =>
          \/ pc[h] = "locked"
          \/ /\ todo'[h] = StatusWords
             /\ \/ want'[h] = "expired" /\ pc[h] = "clock" /\ tgt'[h] = tgt[h]
                \/ want'[h] = "expired" /\ StatusOf(tgt'[h]) \in {"pending", "opened"}
                \/ want'[h] = "opened" /\ StatusOf(tgt'[h]) = "pending"
                \/ want'[h] = "pending" /\ StatusOf(tgt'[h]) = "held"
    /\ pc'[h] = "store" => pc[h] = "store" \/ want'[h] \in {"completed"} \cup PatchStatuses

(* A step is of one of the three kinds. *)
LEMMA KindLemma ==
  ASSUME ControlInv, NEW h \in Handlers, Step(h)
  PROVE  \/ \E r \in Requests : CreateStep(h, r)
         \/ \E s \in Stores : StoreStep(h, s)
         \/ OtherStep(h)
<1>1. ASSUME NEW r \in Requests, NEW s \in Shapes, Create(h, r, s)
      PROVE  CreateStep(h, r)
  <2>1. [deadline |-> IF s.life = None THEN None ELSE now + s.life,
         key |-> s.key, url |-> s.url, delivery |-> s.delivery, held |-> s.held] \in Attr
    BY ConstantsAssumption DEF Attr, ShapeType, ControlInv, TypeOK
  <2> QED
    BY <1>1, <2>1, ConstantsAssumption DEF CreateStep, Create, Stored, ControlInv, TypeOK, JobInv, Job, ShapeType, Attr
<1>2. ASSUME NEW r \in Requests, NEW o \in LockOps, GetAndExpire(h, o, r)
      PROVE  OtherStep(h)
  BY <1>2 DEF GetAndExpire, OtherStep, LocalsUnchanged, MutexInv, ControlInv, TypeOK, JobInv, Job, PCs, Stored, reqVars, jobVars, outVars, Expirable, AfterGet
<1>3. ASSUME NEW o \in SweepOps, NEW S \in SUBSET Stored, Sweep(h, o, S)
      PROVE  OtherStep(h)
  BY <1>3 DEF Sweep, OtherStep, LocalsUnchanged, MutexInv, ControlInv, TypeOK, JobInv, Job, PCs, Stored, reqVars, jobVars, outVars
<1>4. ASSUME CheckClock(h)
      PROVE  OtherStep(h)
  BY <1>4 DEF CheckClock, OtherStep, LocalsUnchanged, MutexInv, ControlInv, TypeOK, JobInv, Job, PCs, Stored, reqVars, jobVars, outVars, AfterGet
<1>5. ASSUME MarkOpened(h)
      PROVE  OtherStep(h)
  BY <1>5 DEF MarkOpened, OtherStep, LocalsUnchanged, MutexInv, ControlInv, TypeOK, JobInv, Job, PCs, Stored, reqVars, jobVars, outVars, Torn
<1>6. ASSUME NEW r \in Requests, Visit(h, r)
      PROVE  OtherStep(h)
  BY <1>6 DEF Visit, OtherStep, LocalsUnchanged, MutexInv, ControlInv, TypeOK, JobInv, Job, PCs, Stored, reqVars, jobVars, outVars, Expirable, Torn
<1>7. ASSUME SweepEnd(h)
      PROVE  OtherStep(h)
  BY <1>7 DEF SweepEnd, OtherStep, LocalsUnchanged, MutexInv, ControlInv, TypeOK, JobInv, Job, PCs, Stored, reqVars, jobVars, outVars
<1>8. ASSUME NEW s \in Stores, LockedStore(h, s)
      PROVE  StoreStep(h, s)
  BY <1>8 DEF LockedStore, StoreStep, Write, MayStore, AfterGet, ControlInv, TypeOK, JobInv, Job, PCs, Stored, reqVars, jobVars, outVars
<1>9. ASSUME Reject(h)
      PROVE  OtherStep(h)
  BY <1>9 DEF Reject, OtherStep, LocalsUnchanged, MutexInv, ControlInv, TypeOK, JobInv, Job, PCs, Stored, reqVars, jobVars, outVars
<1>10. ASSUME NEW b \in {"short", "long", "empty"}, Respond(h, b)
       PROVE  OtherStep(h)
  BY <1>10 DEF Respond, OtherStep, LocalsUnchanged, MutexInv, ControlInv, TypeOK, JobInv, Job, PCs, Stored, reqVars, jobVars, outVars
<1>11. ASSUME NEW s \in PatchStatuses \cup {None}, Patch(h, s)
       PROVE  OtherStep(h)
  BY <1>11 DEF Patch, OtherStep, LocalsUnchanged, MutexInv, ControlInv, TypeOK, JobInv, Job, PCs, Stored, reqVars, jobVars, outVars
<1>12. ASSUME NEW s \in Stores, UnlockedStore(h, s)
       PROVE  StoreStep(h, s)
  BY <1>12 DEF UnlockedStore, StoreStep, Write, MayStore, ControlInv, TypeOK, JobInv, Job, PCs, Stored, reqVars, jobVars, outVars
<1>13. ASSUME Dispatch(h)
       PROVE  OtherStep(h)
  BY <1>13 DEF Dispatch, OtherStep, LocalsUnchanged, MutexInv, ControlInv, TypeOK, JobInv, Job, PCs, Stored, reqVars, jobVars, outVars
<1>14. ASSUME ReadReply(h)
       PROVE  OtherStep(h)
  BY <1>14 DEF ReadReply, OtherStep, LocalsUnchanged, MutexInv, ControlInv, TypeOK, JobInv, Job, PCs, Stored, reqVars, jobVars, outVars
<1>15. ASSUME SendWebhook(h)
       PROVE  OtherStep(h)
  BY <1>15 DEF SendWebhook, OtherStep, LocalsUnchanged, MutexInv, ControlInv, TypeOK, JobInv, Job, PCs, Stored, reqVars, jobVars, outVars
<1> QED
  BY <1>1, <1>2, <1>3, <1>4, <1>5, <1>6, <1>7, <1>8, <1>9, <1>10, <1>11, <1>12, <1>13,
     <1>14, <1>15 DEF Step, Arrive, Proceed

-----------------------------------------------------------------------------
(* What a locked section finds in the status.                              *)

(* The widths that tell statuses apart, and those that do not. *)
LEMMA Widths ==
  /\ Width("held") = 4 /\ Width("opened") = 6
  /\ Width("pending") = 7 /\ Width("expired") = 7
  /\ \A s \in Outcomes : Width(s) = 9
  BY DEF Width, Outcomes

(* What the tests of the locked sections let through. *)
LEMMA SourcesLemma ==
  /\ Sources("pending") = {"held"} /\ Sources("opened") = {"pending"}
  /\ Sources("expired") = {"pending", "opened"}
  BY DEF Sources

(* Nothing is stored at first. *)
LEMMA InitStatusInv == Init => StatusInv
  BY DEF Init, StatusInv, Section, Whole, Waits

(* A creation reaches no request that somebody works on. *)
LEMMA CreateStatus ==
  ASSUME ControlInv, StatusInv, NEW h \in Handlers, Frame(h),
         NEW r \in Requests, CreateStep(h, r)
  PROVE  StatusInv'
<1>1. \A q \in Requests \ {r} : ptr'[q] = ptr[q] /\ len'[q] = len[q] /\ attr'[q] = attr[q]
  BY DEF CreateStep, ControlInv, TypeOK
<1>2. /\ ptr'[r] = IF attr'[r].held THEN "held" ELSE "pending"
      /\ len'[r] = Width(ptr'[r]) /\ attr'[r] \in Attr /\ r \in Stored'
  BY ConstantsAssumption DEF CreateStep, ControlInv, TypeOK, Stored
<1>3. ASSUME NEW g \in Handlers
      PROVE  Section(g)'
  <2>1. CASE g = h
    BY <2>1 DEF CreateStep, Section
  <2>2. CASE g # h /\ pc[g] \in {"clock", "locked", "store"}
    <3>1. tgt[g] \in Stored /\ tgt[g] \in Requests /\ tgt[g] # r
      BY <2>2 DEF ControlInv, JobInv, Job, PCs, TypeOK, Stored, CreateStep
    <3>2. /\ ptr'[tgt[g]] = ptr[tgt[g]] /\ len'[tgt[g]] = len[tgt[g]]
          /\ attr'[tgt[g]] = attr[tgt[g]]
      BY <1>1, <3>1
    <3>3. pc'[g] = pc[g] /\ tgt'[g] = tgt[g] /\ want'[g] = want[g] /\ todo'[g] = todo[g]
      BY <2>2 DEF Frame, LocalsUnchanged
    <3>4. Section(g)
      BY DEF StatusInv
    <3> QED
      BY <3>2, <3>3, <3>4 DEF Section
  <2>3. CASE g # h /\ pc[g] \notin {"clock", "locked", "store"}
    BY <2>3 DEF Section, Frame, LocalsUnchanged
  <2> QED
    BY <2>1, <2>2, <2>3
<1>4. ASSUME NEW q \in Requests
      PROVE  Whole(q)'
  <2>1. CASE q = r
    BY <1>2, <2>1 DEF Whole
  <2>2. CASE q # r
    <3>1. q \in Stored => q \in Stored'
      BY DEF Frame
    <3>2. (\A g \in Handlers : pc'[g] = "locked" => tgt'[g] # q)
          => (\A g \in Handlers : pc[g] = "locked" => tgt[g] # q)
      BY DEF Frame, LocalsUnchanged, CreateStep
    <3> QED
      BY <1>1, <2>2, <3>1, <3>2 DEF Whole, StatusInv, Waits
  <2> QED
    BY <2>1, <2>2
<1> QED
  BY <1>3, <1>4 DEF StatusInv

(* A step that makes no store only enters a section after its test. *)
LEMMA OtherStatus ==
  ASSUME PatchStatuses \subseteq Outcomes, ControlInv, StatusInv,
         NEW h \in Handlers, Frame(h), OtherStep(h)
  PROVE  StatusInv'
<1>1. ptr' = ptr /\ len' = len /\ attr' = attr /\ Stored' = Stored
  BY DEF OtherStep, Stored
<1>2. ASSUME NEW g \in Handlers
      PROVE  Section(g)'
  <2>1. CASE g # h \/ pc[h] \in {"locked", "store"}
    <3>1. pc'[g] = pc[g] /\ tgt'[g] = tgt[g] /\ want'[g] = want[g] /\ todo'[g] = todo[g]
      BY <2>1 DEF Frame, LocalsUnchanged, OtherStep
    <3>2. Section(g)
      BY DEF StatusInv
    <3> QED
      BY <1>1, <3>1, <3>2 DEF Section
  <2>2. CASE g = h /\ pc[h] \notin {"locked", "store"}
    <3>1. pc'[h] \in {"clock", "locked"} => tgt'[h] \in Requests
      BY DEF OtherStep, Stored
    <3>2. ASSUME pc'[h] = "clock"
          PROVE  ptr[tgt'[h]] \in {"pending", "opened"} \cup Outcomes
      BY <3>1, <3>2, StatusOfPtr DEF OtherStep, Section, StatusInv, Torn
    <3>3. ASSUME pc'[h] = "locked"
          PROVE  /\ want'[h] \in {"pending", "opened", "expired"}
                 /\ want'[h] = "pending" => attr[tgt'[h]].held
                 /\ ptr[tgt'[h]] \in Outcomes \cup Sources(want'[h])
                 /\ todo'[h] = StatusWords
      <4>1. \A s \in {"held", "pending", "opened"} : StatusOf(tgt'[h]) = s => ptr[tgt'[h]] = s
        BY <3>1, <3>3, StatusOfPtr DEF Torn
      <4>2. Whole(tgt'[h])
        BY <3>1, <3>3 DEF StatusInv
      <4> QED
        BY <2>2, <3>3, <4>1, <4>2, SourcesLemma DEF OtherStep, Section, StatusInv, Whole
    <3>4. ASSUME pc'[h] = "store"
          PROVE  want'[h] \in Outcomes
      BY <2>2, <3>4 DEF OtherStep, Outcomes
    <3> QED
      BY <1>1, <2>2, <3>2, <3>3, <3>4 DEF Section, StatusWords
  <2> QED
    BY <2>1, <2>2
<1>3. ASSUME NEW q \in Requests
      PROVE  Whole(q)'
  <2>1. (\A g \in Handlers : pc'[g] = "locked" => tgt'[g] # q)
        => (\A g \in Handlers : pc[g] = "locked" => tgt[g] # q)
    BY DEF Frame, LocalsUnchanged, OtherStep
  <2> QED
    BY <1>1, <2>1 DEF Whole, StatusInv, Waits
<1> QED
  BY <1>2, <1>3 DEF StatusInv

(* A store puts an outcome, or what the section of its mutex has tested. *)
LEMMA StoreStatus ==
  ASSUME ControlInv, StatusInv, NEW h \in Handlers, Frame(h),
         NEW s \in Stores, StoreStep(h, s)
  PROVE  StatusInv'
<1> DEFINE t == tgt[h]
<1>1. t \in Requests /\ t \in Stored /\ want[h] \in Status /\ attr' = attr
  BY DEF StoreStep, Stored, ControlInv, JobInv, Job, TypeOK
<1>2. \A q \in Requests \ {t} : ptr'[q] = ptr[q] /\ len'[q] = len[q]
  BY DEF StoreStep, ControlInv, TypeOK
<1>3. /\ ptr'[t] = IF s = "ptr" THEN want[h] ELSE ptr[t]
      /\ len'[t] = IF s = "len" THEN Width(want[h]) ELSE len[t]
  BY <1>1 DEF StoreStep, ControlInv, TypeOK
<1>4. tgt'[h] = t /\ want'[h] = want[h] /\ todo'[h] = todo[h] \ {s}
  BY DEF StoreStep
<1>5. \A g \in Handlers \ {h} :
        pc'[g] = pc[g] /\ tgt'[g] = tgt[g] /\ want'[g] = want[g] /\ todo'[g] = todo[g]
  BY DEF Frame, LocalsUnchanged
<1>6. Section(h) /\ Whole(t)
  BY <1>1 DEF StatusInv
<1>7. CASE pc[h] = "locked"
  <2>1. \A g \in Handlers \ {h} : pc[g] \notin {"clock", "locked"}
    BY <1>7, ConstantsAssumption DEF ControlInv, MutexInv
  <2>2. /\ want[h] \in {"pending", "opened", "expired"} /\ s \in StatusWords
        /\ todo[h] \subseteq StatusWords
    BY <1>6, <1>7 DEF Section, StoreStep, ControlInv, JobInv, Job
  <2>3. ASSUME NEW g \in Handlers
        PROVE  Section(g)'
    <3>1. CASE g # h
      <4>1. Section(g)
        BY DEF StatusInv
      <4> QED
        BY <1>5, <2>1, <3>1, <4>1 DEF Section
    <3>2. CASE g = h /\ pc'[h] = "locked"
      BY <1>1, <1>3, <1>4, <1>6, <1>7, <2>2, <3>2 DEF Section, StatusWords
    <3>3. CASE g = h /\ pc'[h] # "locked"
      BY <1>7, <3>3 DEF StoreStep, Section
    <3> QED
      BY <3>1, <3>2, <3>3
  <2>4. ASSUME NEW q \in Requests
        PROVE  Whole(q)'
    <3>1. CASE q # t
      <4>1. \A g \in Handlers : pc[g] = "locked" => tgt[g] # q
        BY <2>1, <3>1
      <4>2. Whole(q)
        BY DEF StatusInv
      <4>3. q \in Stored <=> q \in Stored'
        BY <1>1 DEF Stored
      <4> QED
        BY <1>1, <1>2, <3>1, <4>1, <4>2, <4>3 DEF Whole, Waits
    <3>2. CASE q = t /\ pc'[h] = "locked"
      <4>1. \E g \in Handlers : pc'[g] = "locked" /\ tgt'[g] = t
        BY <1>4, <3>2
      <4>2. ptr'[t] = "held" => attr[t].held
        BY <1>3, <1>6, <2>2 DEF Whole
      <4>3. t \in Stored'
        BY <1>1 DEF Stored
      <4> QED
        BY <1>1, <3>2, <4>1, <4>2, <4>3 DEF Whole
    <3>3. CASE q = t /\ pc'[h] # "locked"
      <4>1. todo[h] \ {s} = {}
        BY <1>4, <1>7, <3>3 DEF StoreStep
      <4>2. ptr'[t] = "held" => attr[t].held
        BY <1>3, <1>6, <2>2 DEF Whole
      <4>3. t \in Stored'
        BY <1>1 DEF Stored
      <4>4. CASE s = "ptr"
        BY <1>1, <1>3, <1>6, <1>7, <3>3, <4>1, <4>2, <4>3, <4>4 DEF Section, Whole
      <4>5. CASE s = "len"
        <5>1. ptr[t] \in Outcomes \cup {want[h]}
          BY <1>6, <1>7, <4>1, <4>5 DEF Section
        <5> QED
          BY <1>1, <1>3, <3>3, <4>2, <4>3, <4>5, <5>1 DEF Whole, Waits, Outcomes
      <4> QED
        BY <2>2, <4>4, <4>5 DEF StatusWords
    <3> QED
      BY <3>1, <3>2, <3>3
  <2> QED
    BY <2>3, <2>4 DEF StatusInv
<1>8. CASE pc[h] = "store" /\ s \in StatusWords
  <2>1. want[h] \in Outcomes /\ Width(want[h]) = 9
    BY <1>6, <1>8, Widths DEF Section, StoreStep
  <2>2. pc'[h] \notin {"clock", "locked"}
    BY <1>8 DEF StoreStep
  <2>3. ASSUME NEW g \in Handlers
        PROVE  Section(g)'
    <3>1. CASE g = h
      BY <1>4, <2>1, <2>2, <3>1 DEF Section
    <3>2. CASE g # h
      <4>1. Section(g)
        BY DEF StatusInv
      <4>2. CASE pc[g] \in {"clock", "locked"}
        <5>1. tgt[g] \in Requests
          BY <4>2 DEF ControlInv, JobInv, Job, PCs, Stored
        <5>2. ptr'[tgt[g]] \in {ptr[tgt[g]]} \cup Outcomes /\ len'[tgt[g]] \in {len[tgt[g]], 9}
          BY <1>2, <1>3, <2>1, <5>1
        <5> QED
          BY <1>1, <1>5, <3>2, <4>1, <4>2, <5>2 DEF Section
      <4>3. CASE pc[g] \notin {"clock", "locked"}
        BY <1>5, <3>2, <4>1, <4>3 DEF Section
      <4> QED
        BY <4>2, <4>3
    <3> QED
      BY <3>1, <3>2
  <2>4. ASSUME NEW q \in Requests
        PROVE  Whole(q)'
    <3>1. (\A g \in Handlers : pc'[g] = "locked" => tgt'[g] # q)
          => (\A g \in Handlers : pc[g] = "locked" => tgt[g] # q)
      BY <1>5, <1>8
    <3>2. Whole(q) /\ (q \in Stored <=> q \in Stored')
      BY <1>1 DEF StatusInv, Stored
    <3>3. CASE q # t
      BY <1>1, <1>2, <3>1, <3>2, <3>3 DEF Whole, Waits
    <3>4. CASE q = t /\ s = "ptr"
      BY <1>3, <2>1, <3>4 DEF Whole, Waits, Outcomes
    <3>5. CASE q = t /\ s = "len"
      BY <1>1, <1>3, <2>1, <3>1, <3>2, <3>5 DEF Whole, Waits
    <3> QED
      BY <1>8, <3>3, <3>4, <3>5 DEF StatusWords
  <2> QED
    BY <2>3, <2>4 DEF StatusInv
<1>9. CASE pc[h] = "store" /\ s \notin StatusWords
  <2>1. ptr' = ptr /\ len' = len /\ Stored' = Stored
    BY <1>1, <1>9 DEF StoreStep, StatusWords, Stored
  <2>2. pc'[h] \notin {"clock", "locked"}
    BY <1>9 DEF StoreStep
  <2>3. ASSUME NEW g \in Handlers
        PROVE  Section(g)'
    <3>1. Section(g)
      BY DEF StatusInv
    <3>2. CASE g = h
      <4>1. pc'[h] = "store" => todo'[h] \cap StatusWords = todo[h] \cap StatusWords
        BY <1>4, <1>9
      <4> QED
        BY <1>4, <1>9, <2>2, <3>1, <3>2, <4>1 DEF Section
    <3>3. CASE g # h
      BY <1>1, <1>5, <2>1, <3>1, <3>3 DEF Section
    <3> QED
      BY <3>2, <3>3
  <2>4. ASSUME NEW q \in Requests
        PROVE  Whole(q)'
    <3>1. (\A g \in Handlers : pc'[g] = "locked" => tgt'[g] # q)
          => (\A g \in Handlers : pc[g] = "locked" => tgt[g] # q)
      BY <1>5, <1>9
    <3> QED
      BY <1>1, <2>1, <3>1 DEF Whole, Waits, StatusInv
  <2> QED
    BY <2>3, <2>4 DEF StatusInv
<1> QED
  BY <1>7, <1>8, <1>9 DEF StoreStep

(* Every step keeps it, where PATCH assigns nothing but outcomes. *)
LEMMA NextStatusInv ==
  PatchStatuses \subseteq Outcomes /\ ControlInv /\ StatusInv /\ [Next]_vars => StatusInv'
<1> SUFFICES ASSUME PatchStatuses \subseteq Outcomes, ControlInv, StatusInv, [Next]_vars
             PROVE  StatusInv'
  OBVIOUS
<1>1. ASSUME NEW h \in Handlers, Step(h)
      PROVE  StatusInv'
  <2>1. Frame(h)
    BY <1>1, FrameLemma
  <2> QED
    BY <1>1, <2>1, KindLemma, CreateStatus, StoreStatus, OtherStatus
<1>2. CASE Tick \/ UNCHANGED vars
  <2>1. UNCHANGED <<attr, ptr, len, pc, tgt, want, todo>>
    BY <1>2 DEF Tick, vars, reqVars, jobVars
  <2>2. UNCHANGED Stored
    BY <2>1 DEF Stored
  <2>3. ASSUME NEW h \in Handlers
        PROVE  Section(h)'
    BY <2>1 DEF Section, StatusInv
  <2>4. ASSUME NEW r \in Requests
        PROVE  Whole(r)'
    BY <2>1, <2>2 DEF Whole, Waits, StatusInv
  <2> QED
    BY <2>3, <2>4 DEF StatusInv
<1> QED
  BY <1>1, <1>2 DEF Next, Step

-----------------------------------------------------------------------------
(* GETs are fresh.                                                         *)

(* How a GET leaves the lock, and what it reads afterwards. *)
GetStep(h) ==
    /\ op'[h] = "get" /\ pc'[h] = "read" =>
          /\ tgt'[h] \in Stored
          /\ \/ pc[h] = "read" /\ op[h] = "get" /\ tgt'[h] = tgt[h] /\ clk'[h] = clk[h]
             \/ pc[h] = "idle" /\ mu = None /\ ~Expirable(tgt'[h]) /\ UNCHANGED <<ptr, len>>
             \/ pc[h] = "clock" /\ ~Past(tgt'[h], now) /\ clk'[h] = clk[h]
             \/ pc[h] = "locked" /\ tgt'[h] = tgt[h] /\ todo'[h] = {} /\ want'[h] # "opened"
    /\ reply'[h].got >= 1 =>
          /\ op'[h] = op[h] /\ tgt'[h] = tgt[h] /\ clk'[h] = clk[h]
          /\ \/ reply'[h] = reply[h]
             \/ pc[h] = "read" /\ reply'[h] = ReadOn(reply[h], tgt[h])

(* What a step does to a GET and to its reply. *)
LEMMA GetLemma ==
  ASSUME ControlInv, NEW h \in Handlers, Step(h)
  PROVE  GetStep(h)
<1> USE ConstantsAssumption
<1>1. ASSUME NEW r \in Requests, NEW s \in Shapes, Create(h, r, s)
      PROVE  GetStep(h)
  <2>1. reply'[h].got = 0
    BY <1>1, FreshSnaps DEF Create, outVars
  <2> QED
    BY <1>1, <2>1 DEF Create, GetStep, ControlInv, TypeOK, JobInv, Job, PCs, Stored, LockOps, SweepOps, AllOps, reqVars, jobVars, outVars
<1>2. ASSUME NEW r \in Requests, NEW o \in LockOps, GetAndExpire(h, o, r)
      PROVE  GetStep(h)
  <2>1. reply'[h].got = 0
    BY <1>2, FreshSnaps DEF GetAndExpire, outVars
  <2> QED
    BY <1>2, <2>1 DEF GetAndExpire, GetStep, ControlInv, TypeOK, JobInv, Job, PCs, Stored, LockOps, SweepOps, AllOps, reqVars, jobVars, outVars, AfterGet
<1>3. ASSUME NEW o \in SweepOps, NEW S \in SUBSET Stored, Sweep(h, o, S)
      PROVE  GetStep(h)
  <2>1. reply'[h].got = 0
    BY <1>3, FreshSnaps DEF Sweep, outVars
  <2> QED
    BY <1>3, <2>1 DEF Sweep, GetStep, ControlInv, TypeOK, JobInv, Job, PCs, Stored, LockOps, SweepOps, AllOps, reqVars, jobVars, outVars
<1>4. ASSUME CheckClock(h)
      PROVE  GetStep(h)
  BY <1>4 DEF CheckClock, GetStep, ControlInv, TypeOK, JobInv, Job, PCs, Stored, LockOps, SweepOps, AllOps, reqVars, jobVars, outVars, AfterGet
<1>5. ASSUME MarkOpened(h)
      PROVE  GetStep(h)
  BY <1>5 DEF MarkOpened, GetStep, ControlInv, TypeOK, JobInv, Job, PCs, Stored, LockOps, SweepOps, AllOps, reqVars, jobVars, outVars
<1>6. ASSUME NEW r \in Requests, Visit(h, r)
      PROVE  GetStep(h)
  <2>1. reply'[h].got = 0
    BY <1>6, FreshSnaps DEF Visit, outVars
  <2> QED
    BY <1>6, <2>1 DEF Visit, GetStep, ControlInv, TypeOK, JobInv, Job, PCs, Stored, LockOps, SweepOps, AllOps, reqVars, jobVars, outVars
<1>7. ASSUME SweepEnd(h)
      PROVE  GetStep(h)
  <2>1. reply'[h].got = 0
    BY <1>7, FreshSnaps DEF SweepEnd, outVars
  <2> QED
    BY <1>7, <2>1 DEF SweepEnd, GetStep, ControlInv, TypeOK, JobInv, Job, PCs, Stored, LockOps, SweepOps, AllOps, reqVars, jobVars, outVars
<1>8. ASSUME NEW s \in Stores, LockedStore(h, s)
      PROVE  GetStep(h)
  BY <1>8 DEF LockedStore, GetStep, ControlInv, TypeOK, JobInv, Job, PCs, Stored, LockOps, SweepOps, AllOps, reqVars, jobVars, outVars, AfterGet, Write
<1>9. ASSUME Reject(h)
      PROVE  GetStep(h)
  BY <1>9 DEF Reject, GetStep, ControlInv, TypeOK, JobInv, Job, PCs, Stored, LockOps, SweepOps, AllOps, reqVars, jobVars, outVars
<1>10. ASSUME NEW b \in {"short", "long", "empty"}, Respond(h, b)
       PROVE  GetStep(h)
  BY <1>10 DEF Respond, GetStep, ControlInv, TypeOK, JobInv, Job, PCs, Stored, LockOps, SweepOps, AllOps, reqVars, jobVars, outVars
<1>11. ASSUME NEW s \in PatchStatuses \cup {None}, Patch(h, s)
       PROVE  GetStep(h)
  BY <1>11 DEF Patch, GetStep, ControlInv, TypeOK, JobInv, Job, PCs, Stored, LockOps, SweepOps, AllOps, reqVars, jobVars, outVars
<1>12. ASSUME NEW s \in Stores, UnlockedStore(h, s)
       PROVE  GetStep(h)
  BY <1>12 DEF UnlockedStore, GetStep, ControlInv, TypeOK, JobInv, Job, PCs, Stored, LockOps, SweepOps, AllOps, reqVars, jobVars, outVars, Write
<1>13. ASSUME Dispatch(h)
       PROVE  GetStep(h)
  BY <1>13 DEF Dispatch, GetStep, ControlInv, TypeOK, JobInv, Job, PCs, Stored, LockOps, SweepOps, AllOps, reqVars, jobVars, outVars
<1>14. ASSUME ReadReply(h)
       PROVE  GetStep(h)
  BY <1>14 DEF ReadReply, GetStep, ControlInv, TypeOK, JobInv, Job, PCs, Stored, LockOps, SweepOps, AllOps, reqVars, jobVars, outVars
<1>15. ASSUME SendWebhook(h)
       PROVE  GetStep(h)
  BY <1>15 DEF SendWebhook, GetStep, ControlInv, TypeOK, JobInv, Job, PCs, Stored, LockOps, SweepOps, AllOps, reqVars, jobVars, outVars
<1> QED
  BY <1>1, <1>2, <1>3, <1>4, <1>5, <1>6, <1>7, <1>8, <1>9, <1>10, <1>11, <1>12, <1>13,
     <1>14, <1>15 DEF Step, Arrive, Proceed

(* A request that is over stays over: only outcomes are still stored, and  *)
(* no section finds a status to test.                                      *)
LEMMA OverStable ==
  ASSUME ControlInv, StatusInv, NEW h \in Handlers, Step(h),
         NEW r \in Stored, ~attr[r].held, Over(r)
  PROVE  Over(r)'
<1>1. Frame(h)
  BY FrameLemma
<1>2. r \in Requests /\ attr'[r] = attr[r]
  BY <1>1 DEF Frame, Stored
<1>3. \A g \in Handlers \ {h} : pc'[g] \in {"clock", "locked"} => tgt'[g] # r
  BY <1>1 DEF Frame, LocalsUnchanged, Over
<1>4. ASSUME NEW q \in Requests, CreateStep(h, q)
      PROVE  Over(r)'
  <2>1. ptr'[r] = ptr[r] /\ len'[r] = len[r] /\ pc'[h] = "read"
    BY <1>2, <1>4 DEF CreateStep, ControlInv, TypeOK
  <2> QED
    BY <1>3, <2>1 DEF Over, Waits
<1>5. ASSUME NEW s \in Stores, StoreStep(h, s)
      PROVE  Over(r)'
  <2>1. pc'[h] \in {"clock", "locked"} => pc'[h] = pc[h] /\ tgt'[h] = tgt[h]
    BY <1>5 DEF StoreStep
  <2>2. \A g \in Handlers : pc'[g] \in {"clock", "locked"} => tgt'[g] # r
    BY <1>3, <2>1 DEF Over
  <2>3. CASE tgt[h] = r /\ s \in StatusWords
    <3>1. pc[h] = "store" /\ Section(h)
      BY <1>5, <2>3 DEF StoreStep, Over, StatusInv
    <3>2. want[h] \in Outcomes /\ Width(want[h]) = 9
      BY <1>5, <2>3, <3>1, Widths DEF Section, StoreStep
    <3>3. s = "ptr" => ptr'[r] = want[h]
      BY <1>2, <1>5, <2>3 DEF StoreStep, ControlInv, TypeOK
    <3>4. s = "len" => ptr'[r] = ptr[r] /\ len'[r] = Width(want[h])
      BY <1>2, <1>5, <2>3 DEF StoreStep, ControlInv, TypeOK
    <3> QED
      BY <2>2, <2>3, <3>2, <3>3, <3>4 DEF Over, Waits, Outcomes, StatusWords
  <2>4. CASE tgt[h] # r \/ s \notin StatusWords
    <3>1. ptr'[r] = ptr[r] /\ len'[r] = len[r]
      BY <1>2, <1>5, <2>4 DEF StoreStep, StatusWords, ControlInv, TypeOK
    <3> QED
      BY <2>2, <3>1 DEF Over, Waits
  <2> QED
    BY <2>3, <2>4
<1>6. ASSUME OtherStep(h)
      PROVE  Over(r)'
  <2>1. ptr' = ptr /\ len' = len
    BY <1>6 DEF OtherStep
  <2>2. StatusOf(r) \notin {"pending", "opened", "held"}
    <3>1. Width("pending") # 9 /\ Width("opened") # 9 /\ ptr[r] # "held"
      BY <1>2, Widths DEF StatusInv, Whole
    <3> QED
      BY <1>2, <3>1 DEF StatusOf, Over, Waits, Torn
  <2>3. pc'[h] \in {"clock", "locked"} => tgt'[h] # r
    <3>1. pc[h] \in {"clock", "locked"} => tgt[h] # r
      BY DEF Over
    <3> QED
      BY <1>6, <2>2, <3>1 DEF OtherStep, LocalsUnchanged
  <2> QED
    BY <1>3, <2>1, <2>3 DEF Over, Waits
<1> QED
  BY <1>4, <1>5, <1>6, KindLemma

(* A GET leaves the lock with a request that is over, if it is past its    *)
(* deadline: it found it so, or has made it so.                            *)
LEMMA GetOver ==
  ASSUME ControlInv, ControlInv', StatusInv, NEW h \in Handlers, Step(h),
         op'[h] = "get", pc'[h] = "read", pc[h] # "read",
         Past(tgt[h], clk[h])', ~attr'[tgt'[h]].held, attr'[tgt'[h]] = attr[tgt'[h]]
  PROVE  Over(tgt[h])'
<1> USE ConstantsAssumption
<1> DEFINE r == tgt'[h]
<1>1. GetStep(h) /\ Frame(h)
  BY GetLemma, FrameLemma
<1>2. /\ r \in Stored /\ r \in Requests /\ attr[r] \in Attr
      /\ attr[r].deadline \in Nat /\ clk'[h] > attr[r].deadline
  BY <1>1 DEF GetStep, Stored, Past, ControlInv, TypeOK, Attr
<1>3. clk'[h] \in Nat /\ clk'[h] <= now /\ now \in Nat
  BY <1>1 DEF ControlInv, TypeOK, JobInv, Job, Frame
<1>4. CASE pc[h] = "idle" /\ mu = None /\ ~Expirable(r) /\ UNCHANGED <<ptr, len>>
  <2>1. \A g \in Handlers : pc[g] \notin {"clock", "locked"}
    BY <1>4 DEF ControlInv, MutexInv
  <2>2. \A g \in Handlers : pc'[g] \notin {"clock", "locked"}
    BY <1>1, <2>1 DEF Frame, LocalsUnchanged
  <2>3. StatusOf(r) \notin {"pending", "opened"}
    BY <1>2, <1>4 DEF Expirable
  <2>4. Waits(r) => len[r] = 9
    BY <1>2, <2>1, <2>3 DEF StatusInv, Whole, Waits, StatusOf
  <2> QED
    BY <1>4, <2>2, <2>4 DEF Over, Waits
<1>5. CASE pc[h] = "clock" /\ ~Past(r, now) /\ clk'[h] = clk[h]
  BY <1>2, <1>3, <1>5 DEF Past
<1>6. CASE pc[h] = "locked" /\ r = tgt[h] /\ todo'[h] = {} /\ want'[h] # "opened"
  <2>1. \A g \in Handlers \ {h} : pc[g] \notin {"clock", "locked"}
    BY <1>6 DEF ControlInv, MutexInv
  <2>2. \A g \in Handlers : pc'[g] \notin {"clock", "locked"}
    BY <1>1, <2>1 DEF Frame, LocalsUnchanged
  <2>3. PICK s \in Stores : StoreStep(h, s)
    BY <1>6, KindLemma DEF CreateStep, OtherStep, LocalsUnchanged
  <2>4. /\ Section(h) /\ want'[h] = want[h] /\ todo[h] \ {s} = {}
        /\ ptr'[r] = IF s = "ptr" THEN want[h] ELSE ptr[r]
    BY <1>2, <1>6, <2>3 DEF StatusInv, StoreStep, ControlInv, TypeOK
  <2>5. want[h] = "expired"
    BY <1>6, <2>4 DEF Section
  <2>6. ptr'[r] \in {"expired"} \cup Outcomes
    BY <1>6, <2>4, <2>5 DEF Section
  <2> QED
    BY <2>2, <2>6 DEF Over, Waits, Outcomes
<1> QED
  BY <1>1, <1>4, <1>5, <1>6 DEF GetStep

(* Nobody has read anything at first. *)
LEMMA InitFreshInv == Init => FreshInv
  BY DEF Init, FreshInv, GetIsFresh, NoSnap, NewEvent

(* Every step keeps the GETs fresh. *)
LEMMA NextFreshInv == ControlInv /\ StatusInv /\ FreshInv /\ [Next]_vars => FreshInv'
<1> SUFFICES ASSUME ControlInv, StatusInv, FreshInv, [Next]_vars
             PROVE  FreshInv'
  OBVIOUS
<1>1. ASSUME NEW h \in Handlers, Step(h)
      PROVE  FreshInv'
  <2>1. Frame(h) /\ GetStep(h)
    BY <1>1, FrameLemma, GetLemma
  <2>2. ControlInv'
    BY <1>1, NextControlInv DEF Next, Step
  <2>3. ASSUME NEW g \in Handlers, tgt[g] \in Stored,
               op'[g] = op[g], tgt'[g] = tgt[g], clk'[g] = clk[g]
        PROVE  /\ Past(tgt[g], clk[g])' <=> Past(tgt[g], clk[g])
               /\ attr'[tgt'[g]].held <=> attr[tgt[g]].held
    BY <2>1, <2>3 DEF Frame, Past
  <2>4. ASSUME NEW g \in Handlers, op'[g] = "get", pc'[g] = "read",
               Past(tgt[g], clk[g])', ~attr'[tgt'[g]].held
        PROVE  Over(tgt[g])'
    <3>1. CASE op[g] = "get" /\ pc[g] = "read" /\ tgt'[g] = tgt[g] /\ clk'[g] = clk[g]
      <4>1. tgt[g] \in Stored
        BY <3>1 DEF ControlInv, JobInv, Job, PCs
      <4>2. Over(tgt[g]) /\ ~attr[tgt[g]].held
        BY <2>3, <2>4, <3>1, <4>1 DEF FreshInv
      <4> QED
        BY <1>1, <3>1, <4>1, <4>2, OverStable
    <3>2. CASE ~(op[g] = "get" /\ pc[g] = "read" /\ tgt'[g] = tgt[g] /\ clk'[g] = clk[g])
      <4>1. g = h /\ pc[g] # "read" /\ tgt'[g] \in Stored
        BY <2>1, <2>4, <3>2 DEF Frame, LocalsUnchanged, GetStep
      <4>2. attr'[tgt'[g]] = attr[tgt'[g]]
        BY <2>1, <4>1 DEF Frame
      <4> QED
        BY <1>1, <2>2, <2>4, <4>1, <4>2, GetOver
    <3> QED
      BY <3>1, <3>2
  <2>5. ASSUME NEW g \in Handlers, op'[g] = "get", reply'[g].got >= 1,
               Past(tgt[g], clk[g])', ~attr'[tgt'[g]].held
        PROVE  reply'[g].status \notin {"pending", "opened"}
    <3>1. /\ op'[g] = op[g] /\ tgt'[g] = tgt[g] /\ clk'[g] = clk[g]
          /\ \/ reply'[g] = reply[g]
             \/ pc[g] = "read" /\ reply'[g] = ReadOn(reply[g], tgt[g])
      <4>1. CASE g = h
        BY <2>1, <2>5, <4>1 DEF GetStep
      <4>2. CASE g # h
        BY <2>1, <4>2 DEF Frame, LocalsUnchanged
      <4> QED
        BY <4>1, <4>2
    <3>2. reply[g] \in Snapshot /\ reply[g].got \in 0..2
      BY DEF ControlInv, TypeOK, Snapshot
    <3>3. tgt[g] \in Stored /\ tgt[g] \in Requests
      <4>1. CASE reply'[g] = reply[g]
        BY <2>5, <3>2, <4>1 DEF ControlInv, JobInv, Job, Stored
      <4>2. CASE pc[g] = "read"
        BY <4>2 DEF ControlInv, JobInv, Job, PCs, Stored
      <4> QED
        BY <3>1, <4>1, <4>2
    <3>4. Past(tgt[g], clk[g]) /\ ~attr[tgt[g]].held /\ op[g] = "get"
      BY <2>3, <2>5, <3>1, <3>3
    <3>5. reply[g].got >= 1 => reply[g].status \notin {"pending", "opened"}
      BY <3>4 DEF FreshInv, GetIsFresh
    <3>6. CASE reply'[g] = reply[g]
      BY <2>5, <3>5, <3>6
    <3>7. CASE pc[g] = "read" /\ reply'[g] = ReadOn(reply[g], tgt[g])
      <4>1. Over(tgt[g])
        BY <3>4, <3>7 DEF FreshInv
      <4>2. StatusOf(tgt[g]) \notin {"pending", "opened"}
        BY <4>1, Widths DEF Over, Waits, StatusOf, Torn
      <4>3. CASE reply[g].got = 0
        BY <3>7, <4>2, <4>3 DEF ReadOn
      <4>4. CASE reply[g].got # 0
        BY <3>2, <3>5, <3>7, <4>4 DEF ReadOn
      <4> QED
        BY <4>3, <4>4
    <3> QED
      BY <3>1, <3>6, <3>7
  <2> QED
    BY <2>4, <2>5 DEF FreshInv, GetIsFresh
<1>2. CASE Tick \/ UNCHANGED vars
  BY <1>2 DEF Tick, vars, reqVars, jobVars, outVars, FreshInv, GetIsFresh, Over, Waits, Past
<1> QED
  BY <1>1, <1>2 DEF Next, Step

(* Where PATCH assigns nothing but outcomes, as the SDK uses it, a GET     *)
(* that took the lock after the deadline does not answer "pending" or      *)
(* "opened", whatever races with its reply.                                *)
THEOREM FreshCorrect == Spec => [](PatchStatuses \subseteq Outcomes => GetIsFresh)
<1> DEFINE Inv == PatchStatuses \subseteq Outcomes => StatusInv /\ FreshInv
<1>1. Init => Inv
  BY InitStatusInv, InitFreshInv
<1>2. ControlInv /\ Inv /\ [Next]_vars => Inv'
  BY NextStatusInv, NextFreshInv
<1>3. Inv => (PatchStatuses \subseteq Outcomes => GetIsFresh)
  BY DEF FreshInv
<1> HIDE DEF Inv
<1>4. Spec => []Inv
  BY <1>1, <1>2, ControlCorrect, PTL DEF Spec
<1> QED
  BY <1>3, <1>4, PTL

-----------------------------------------------------------------------------
(* RequestStore implements RequestLifecycle.                               *)

(* After its sections and stores a handler keeps what it has assigned. *)
Settles(h) ==
    pc[h] \in {"dispatch", "read", "done"} =>
        op'[h] = op[h] /\ tgt'[h] = tgt[h] /\ want'[h] = want[h] /\ todo'[h] = todo[h]

(* What a handler has assigned does not change before it is done. *)
LEMMA SettlesLemma ==
  ASSUME ControlInv, NEW h \in Handlers, Step(h)
  PROVE  Settles(h)
<1>1. ASSUME NEW r \in Requests, NEW s \in Shapes, Create(h, r, s)
      PROVE  Settles(h)
  BY <1>1 DEF Create, Settles, ControlInv, TypeOK, JobInv, Job, reqVars, jobVars, outVars
<1>2. ASSUME NEW r \in Requests, NEW o \in LockOps, GetAndExpire(h, o, r)
      PROVE  Settles(h)
  BY <1>2 DEF GetAndExpire, Settles, ControlInv, TypeOK, JobInv, Job, reqVars, jobVars, outVars
<1>3. ASSUME NEW o \in SweepOps, NEW S \in SUBSET Stored, Sweep(h, o, S)
      PROVE  Settles(h)
  BY <1>3 DEF Sweep, Settles, ControlInv, TypeOK, JobInv, Job, reqVars, jobVars, outVars
<1>4. ASSUME CheckClock(h)
      PROVE  Settles(h)
  BY <1>4 DEF CheckClock, Settles, ControlInv, TypeOK, JobInv, Job, reqVars, jobVars, outVars
<1>5. ASSUME MarkOpened(h)
      PROVE  Settles(h)
  BY <1>5 DEF MarkOpened, Settles, ControlInv, TypeOK, JobInv, Job, reqVars, jobVars, outVars
<1>6. ASSUME NEW r \in Requests, Visit(h, r)
      PROVE  Settles(h)
  BY <1>6 DEF Visit, Settles, ControlInv, TypeOK, JobInv, Job, reqVars, jobVars, outVars
<1>7. ASSUME SweepEnd(h)
      PROVE  Settles(h)
  BY <1>7 DEF SweepEnd, Settles, ControlInv, TypeOK, JobInv, Job, reqVars, jobVars, outVars
<1>8. ASSUME NEW s \in Stores, LockedStore(h, s)
      PROVE  Settles(h)
  BY <1>8 DEF LockedStore, Settles, ControlInv, TypeOK, JobInv, Job, reqVars, jobVars, outVars
<1>9. ASSUME Reject(h)
      PROVE  Settles(h)
  BY <1>9 DEF Reject, Settles, ControlInv, TypeOK, JobInv, Job, reqVars, jobVars, outVars
<1>10. ASSUME NEW b \in {"short", "long", "empty"}, Respond(h, b)
       PROVE  Settles(h)
  BY <1>10 DEF Respond, Settles, ControlInv, TypeOK, JobInv, Job, reqVars, jobVars, outVars
<1>11. ASSUME NEW s \in PatchStatuses \cup {None}, Patch(h, s)
       PROVE  Settles(h)
  BY <1>11 DEF Patch, Settles, ControlInv, TypeOK, JobInv, Job, reqVars, jobVars, outVars
<1>12. ASSUME NEW s \in Stores, UnlockedStore(h, s)
       PROVE  Settles(h)
  BY <1>12 DEF UnlockedStore, Settles, ControlInv, TypeOK, JobInv, Job, reqVars, jobVars, outVars
<1>13. ASSUME Dispatch(h)
       PROVE  Settles(h)
  BY <1>13 DEF Dispatch, Settles, ControlInv, TypeOK, JobInv, Job, reqVars, jobVars, outVars
<1>14. ASSUME ReadReply(h)
       PROVE  Settles(h)
  BY <1>14 DEF ReadReply, Settles, ControlInv, TypeOK, JobInv, Job, reqVars, jobVars, outVars
<1>15. ASSUME SendWebhook(h)
       PROVE  Settles(h)
  BY <1>15 DEF SendWebhook, Settles, ControlInv, TypeOK, JobInv, Job, reqVars, jobVars, outVars
<1> QED
  BY <1>1, <1>2, <1>3, <1>4, <1>5, <1>6, <1>7, <1>8, <1>9, <1>10, <1>11, <1>12, <1>13,
     <1>14, <1>15 DEF Step, Arrive, Proceed

(* h has stored the first word of "opened". *)
HasOpened(h) == Opener(h) /\ "ptr" \notin todo[h]

(* Who has opened a request has done so for good, and a step that makes no *)
(* store opens none.                                                       *)
LEMMA OpenedFrame ==
  ASSUME ControlInv, OpenInv, NEW h \in Handlers, Step(h),
         (\E r \in Requests : CreateStep(h, r)) \/ OtherStep(h), NEW g \in Handlers
  PROVE  /\ HasOpened(g)' <=> HasOpened(g)
         /\ HasOpened(g) => tgt'[g] = tgt[g]
<1>1. Frame(h) /\ Settles(h) /\ OpenerChange(h)
  BY FrameLemma, SettlesLemma, OpenerLemma
<1>2. CASE g # h
  BY <1>1, <1>2 DEF Frame, LocalsUnchanged, HasOpened, Opener
<1>3. CASE g = h /\ \E r \in Requests : CreateStep(h, r)
  BY <1>3 DEF CreateStep, HasOpened, Opener, OpenInv
<1>4. CASE g = h /\ OtherStep(h)
  <2>1. CASE pc[h] = "locked"
    BY <1>4, <2>1 DEF OtherStep, LocalsUnchanged, HasOpened, Opener
  <2>2. CASE pc[h] # "locked" /\ Opener(h)
    BY <1>1, <1>4, <2>2 DEF OpenInv, Settles, HasOpened, Opener
  <2>3. CASE pc[h] # "locked" /\ ~Opener(h)
    BY <1>1, <1>4, <2>3 DEF OpenerChange, HasOpened
  <2> QED
    BY <2>1, <2>2, <2>3
<1> QED
  BY <1>2, <1>3, <1>4

(* The parts of the refinement mapping. *)
Terms == [r \in Requests |-> IF attr[r] = None THEN None
            ELSE [deadline |-> attr[r].deadline, held |-> attr[r].held]]
Shown == [r \in Requests |-> IF attr[r] = None THEN "absent" ELSE ptr[r]]
Opened == {r \in Requests : \E h \in Handlers :
             Opener(h) /\ tgt[h] = r /\ "ptr" \notin todo[h]}

(* An initial state shows an initial state. *)
LEMMA InitLifecycle == Init => Lifecycle!Init
  BY DEF Init, Lifecycle!Init, Opener

(* A creation is a creation. *)
LEMMA CreateMaps ==
  ASSUME ControlInv, OpenInv, NEW h \in Handlers, Step(h),
         NEW r \in Requests, CreateStep(h, r)
  PROVE  Lifecycle!Create(r)
<1> USE ConstantsAssumption
<1>1. attr[r] = None /\ attr'[r] \in Attr /\ attr'[r] # None
  BY DEF CreateStep, Stored
<1>2. /\ attr'[r].deadline \in Nat \cup {None} /\ attr'[r].held \in BOOLEAN
  BY <1>1 DEF Attr
<1>3. \A q \in Requests \ {r} : attr'[q] = attr[q] /\ ptr'[q] = ptr[q]
  BY DEF CreateStep, ControlInv, TypeOK
<1>4. ptr'[r] = IF attr'[r].held THEN "held" ELSE "pending"
  BY DEF CreateStep, ControlInv, TypeOK
<1>5. Terms'[r] = [deadline |-> attr'[r].deadline, held |-> attr'[r].held]
  BY <1>1 DEF Terms
<1>6. Terms' = [Terms EXCEPT ![r] = Terms'[r]]
  BY <1>3 DEF Terms
<1>7. Terms'[r].held <=> attr'[r].held
  BY <1>2, <1>5
<1>8. Shown' = [Shown EXCEPT ![r] = IF Terms'[r].held THEN "held" ELSE "pending"]
  BY <1>1, <1>3, <1>4, <1>7 DEF Shown
<1>9. Opened' = Opened
  BY OpenedFrame DEF Opened, HasOpened
<1>10. Shown[r] = "absent" /\ now' = now
  BY <1>1, FrameLemma DEF Shown, Frame
<1>11. Terms'[r] \in [deadline : Nat \cup {None}, held : BOOLEAN]
  BY <1>2, <1>5
<1> QED
  BY <1>6, <1>8, <1>9, <1>10, <1>11 DEF Lifecycle!Create, Terms, Shown, Opened

(* A store of the first word of a status has the cause that it needs; any  *)
(* other store does not show.                                              *)
LEMMA StoreMaps ==
  ASSUME ControlInv, OpenInv, ExpiredInv, StatusInv, NEW h \in Handlers, Step(h),
         NEW s \in Stores, StoreStep(h, s)
  PROVE  [Lifecycle!Next]_(Lifecycle!vars)
<1> USE ConstantsAssumption
<1> DEFINE t == tgt[h]
<1>1. t \in Requests /\ attr[t] \in Attr /\ attr[t] # None /\ attr' = attr /\ now' = now
  BY FrameLemma DEF StoreStep, Stored, ControlInv, TypeOK, Frame
<1>2. Terms' = Terms /\ Terms[t] = [deadline |-> attr[t].deadline, held |-> attr[t].held]
  BY <1>1 DEF Terms
<1>3. \A g \in Handlers :
        /\ Opener(g)' <=> Opener(g)
        /\ tgt'[g] = tgt[g]
        /\ g # h => todo'[g] = todo[g]
  BY FrameLemma DEF StoreStep, Frame, LocalsUnchanged, Opener
<1>4. Section(h) /\ todo'[h] = todo[h] \ {s} /\ s \in todo[h]
  BY DEF StatusInv, StoreStep
<1>5. CASE s # "ptr"
  <2>1. Shown' = Shown
    BY <1>1, <1>5 DEF StoreStep, Shown
  <2>2. Opened' = Opened
    BY <1>3, <1>4, <1>5 DEF Opened
  <2> QED
    BY <1>1, <1>2, <2>1, <2>2 DEF Lifecycle!vars, Terms, Shown, Opened
<1>6. CASE s = "ptr"
  <2>1. Shown' = [Shown EXCEPT ![t] = want[h]] /\ Shown[t] = ptr[t]
    <3>1. ptr' = [ptr EXCEPT ![t] = want[h]] /\ ptr \in [Requests -> Status]
      BY <1>6 DEF StoreStep, ControlInv, TypeOK
    <3> QED
      BY <1>1, <3>1 DEF Shown
  <2>2. "ptr" \in todo[h] /\ "ptr" \notin todo'[h]
    BY <1>4, <1>6
  <2>3. ~Opener(h) => Opened' = Opened
    BY <1>3 DEF Opened
  <2>4. CASE pc[h] = "locked" /\ want[h] = "pending"
    <3>1. t \notin Opened
      BY <2>2, <2>4 DEF OpenInv, Opened
    <3>2. Opened' = Opened
      BY <2>3, <2>4 DEF Opener
    <3>3. Shown[t] \in {"held"} \cup Outcomes /\ Terms[t].held
      BY <1>2, <1>4, <2>1, <2>2, <2>4, SourcesLemma DEF Section
    <3>4. Lifecycle!Release(t)
      BY <1>1, <1>2, <2>1, <2>4, <3>1, <3>2, <3>3
         DEF Lifecycle!Release, Lifecycle!Outcomes, Outcomes, Terms, Shown, Opened
    <3> QED
      BY <1>1, <3>4 DEF Lifecycle!Next, Lifecycle!Release
  <2>5. CASE pc[h] = "locked" /\ want[h] = "opened"
    <3>1. Opener(h)
      BY <2>5 DEF ControlInv, JobInv, Job, Opener
    <3>2. t \notin Opened
      BY <2>2, <3>1 DEF OpenInv, Opened
    <3>3. Opened' = Opened \cup {t}
      BY <1>1, <1>3, <2>2, <3>1 DEF Opened
    <3>4. Shown[t] \in {"pending"} \cup Outcomes
      BY <1>4, <2>1, <2>2, <2>5, SourcesLemma DEF Section
    <3>5. Lifecycle!Open(t)
      BY <1>1, <1>2, <2>1, <2>5, <3>2, <3>3, <3>4
         DEF Lifecycle!Open, Lifecycle!Outcomes, Outcomes, Terms, Shown, Opened
    <3> QED
      BY <1>1, <3>5 DEF Lifecycle!Next, Lifecycle!Open
  <2>6. CASE pc[h] = "locked" /\ want[h] = "expired"
    <3>1. Past(t, now)
      BY <2>2, <2>6 DEF ExpiredInv
    <3>2. Opened' = Opened
      BY <2>3, <2>6 DEF Opener
    <3>3. Shown[t] \in {"pending", "opened"} \cup Outcomes
      BY <1>4, <2>1, <2>2, <2>6, SourcesLemma DEF Section
    <3>4. Terms[t].deadline # None /\ now > Terms[t].deadline
      BY <1>2, <3>1 DEF Past
    <3>5. Lifecycle!Expire(t)
      BY <1>1, <1>2, <2>1, <2>6, <3>2, <3>3, <3>4
         DEF Lifecycle!Expire, Lifecycle!Outcomes, Outcomes, Terms, Shown, Opened
    <3> QED
      BY <1>1, <3>5 DEF Lifecycle!Next, Lifecycle!Expire
  <2>7. CASE pc[h] = "store"
    <3>1. want[h] \in Outcomes
      BY <1>4, <2>2, <2>7 DEF Section, StatusWords
    <3>2. Opened' = Opened
      BY <2>3, <3>1 DEF Opener, Outcomes
    <3>3. Shown[t] # "absent"
      BY <1>1, <2>1 DEF ControlInv, TypeOK, Status
    <3>4. Lifecycle!Finish(t)
      BY <1>1, <1>2, <2>1, <3>1, <3>2, <3>3
         DEF Lifecycle!Finish, Lifecycle!Outcomes, Outcomes, Terms, Shown, Opened
    <3> QED
      BY <1>1, <3>4 DEF Lifecycle!Next, Lifecycle!Finish
  <2> QED
    BY <1>4, <2>4, <2>5, <2>6, <2>7 DEF StoreStep, Section
<1> QED
  BY <1>5, <1>6

(* Every step maps to a step of RequestLifecycle or to a stutter.          *)
LEMMA NextLifecycle ==
  ControlInv /\ OpenInv /\ ExpiredInv /\ StatusInv /\ [Next]_vars
  => [Lifecycle!Next]_(Lifecycle!vars)
<1> SUFFICES ASSUME ControlInv, OpenInv, ExpiredInv, StatusInv, [Next]_vars
             PROVE  [Lifecycle!Next]_(Lifecycle!vars)
  OBVIOUS
<1>1. ASSUME NEW h \in Handlers, Step(h)
      PROVE  [Lifecycle!Next]_(Lifecycle!vars)
  <2>1. ASSUME NEW r \in Requests, CreateStep(h, r)
        PROVE  [Lifecycle!Next]_(Lifecycle!vars)
    BY <1>1, <2>1, CreateMaps DEF Lifecycle!Next
  <2>2. ASSUME NEW s \in Stores, StoreStep(h, s)
        PROVE  [Lifecycle!Next]_(Lifecycle!vars)
    BY <1>1, <2>2, StoreMaps
  <2>3. ASSUME OtherStep(h)
        PROVE  [Lifecycle!Next]_(Lifecycle!vars)
    <3>1. attr' = attr /\ ptr' = ptr /\ now' = now
      BY <1>1, <2>3, FrameLemma DEF OtherStep, Frame
    <3>2. Opened' = Opened
      BY <1>1, <2>3, OpenedFrame DEF Opened, HasOpened
    <3> QED
      BY <3>1, <3>2 DEF Lifecycle!vars, Opened
  <2> QED
    BY <1>1, <2>1, <2>2, <2>3, KindLemma
<1>2. CASE Tick
  <2>1. UNCHANGED <<attr, ptr, op, tgt, want, todo>> /\ now' > now /\ now' \in Nat
    BY <1>2 DEF Tick, reqVars, jobVars, ControlInv, TypeOK
  <2> QED
    BY <2>1 DEF Lifecycle!Next, Lifecycle!Tick, Opener
<1>3. CASE UNCHANGED vars
  BY <1>3 DEF vars, reqVars, jobVars, Lifecycle!vars, Opener
<1> QED
  BY <1>1, <1>2, <1>3 DEF Next, Step

(* Where PATCH assigns nothing but outcomes, every change of a status that *)
(* the handlers make, whatever races, is one that RequestLifecycle allows. *)
THEOREM LifecycleImplemented ==
  ASSUME PatchStatuses \subseteq Outcomes
  PROVE  Spec => ImplementsLifecycle
<1>1. Init => StatusInv
  BY InitStatusInv
<1>2. ControlInv /\ StatusInv /\ [Next]_vars => StatusInv'
  BY NextStatusInv
<1> QED
  BY <1>1, <1>2, InitLifecycle, NextLifecycle, ControlCorrect, InitOpenInv, NextOpenInv,
     InitExpiredInv, NextExpiredInv, PTL DEF Spec, ImplementsLifecycle, Lifecycle!Spec

(* All the parts of the inductive invariant together: it is the one the    *)
(* runs check on small instances.                                           *)
THEOREM InvariantCorrect == Spec => []IInv
<1> DEFINE Ordered == ProgramOrder /\ "completed" \notin PatchStatuses
           Inv == /\ Ordered => CompletedInv
                  /\ PatchStatuses \subseteq Outcomes => StatusInv /\ FreshInv
<1>1. Init => Inv
  BY InitCompletedInv, InitStatusInv, InitFreshInv
<1>2. ControlInv /\ ResponseInv /\ Inv /\ [Next]_vars => Inv'
  BY NextCompletedInv, NextStatusInv, NextFreshInv
<1>3. ControlInv /\ OpenInv /\ ExpiredInv /\ PlainInv /\ ResponseInv /\ Inv => IInv
  BY DEF ControlInv, IInv
<1> HIDE DEF Inv
<1> QED
  BY <1>1, <1>2, <1>3, InitOpenInv, NextOpenInv, InitExpiredInv, NextExpiredInv,
     InitPlainInv, NextPlainInv, ResponseCorrect, PTL DEF Spec
=============================================================================
