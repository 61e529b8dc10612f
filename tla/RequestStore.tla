---------------------------- MODULE RequestStore ----------------------------
(***************************************************************************)
(* The request side of the reference server: the in-memory store           *)
(* (src/server/store.go) and the HTTP handlers that read and change a      *)
(* stored request (src/server/handlers.go, src/server/ui.go), with the     *)
(* webhook goroutines they start (src/server/webhooks.go).                 *)
(*                                                                         *)
(* Every HTTP request is served by a goroutine of its own: a member of     *)
(* Handlers serves one.  store.mu protects the sections of store.go; the   *)
(* handlers keep the *storedRequest that getAndExpire returns and go on    *)
(* reading and assigning its fields after the lock is released, so those   *)
(* accesses race with each other and with the locked sections.  A Go       *)
(* string is two words, data pointer and length, assigned separately: a    *)
(* racing reader may find the pointer of one status with the length of     *)
(* another, which equals none of the statuses (Torn).                      *)
(***************************************************************************)
EXTENDS Integers, FiniteSets

CONSTANTS
    Requests,       \* identities a stored request may get
    Handlers,       \* HTTP requests served, one goroutine each
    Ops,            \* the endpoints those HTTP requests may call
    Shapes,         \* bodies of POST /requests, reduced to what matters here
    PatchStatuses,  \* values of "status" that PATCH /requests/{id} is sent
    ProgramOrder,   \* TRUE: a goroutine's stores appear in program order
    MaxTime,        \* bound on the clock
    None            \* Go's nil; nobody

Status == {"pending", "opened", "completed", "expired", "cancelled", "held"}

LockOps  == {"get", "view", "submit", "ui", "admin", "patch"}
SweepOps == {"list", "release"}
AllOps   == LockOps \cup SweepOps \cup {"create"}

(* What a creation body decides: the lifetime (expiresInSeconds), whether  *)
(* there is a publicKey, a webhookUrl, a delivery; "held" is the outcome   *)
(* of the knock check that precedes the put.                               *)
ShapeType == [life : Nat \cup {None}, key : BOOLEAN, url : BOOLEAN,
              delivery : BOOLEAN, held : BOOLEAN]

(* What is kept of it: the deadline (expiresAt) and the rest. *)
Attr == [deadline : Nat \cup {None}, key : BOOLEAN, url : BOOLEAN,
         delivery : BOOLEAN, held : BOOLEAN]

(* A response, by who gave it and whether it is stored encrypted. *)
Answer == [of : Handlers, enc : BOOLEAN]
Response == Answer \cup {None}

ASSUME ConstantsAssumption ==
    /\ None \notin Requests \cup Handlers \cup Nat
    /\ None \notin Attr \cup Answer
    /\ Ops \subseteq AllOps
    /\ Shapes \subseteq ShapeType
    /\ PatchStatuses \subseteq Status
    /\ ProgramOrder \in BOOLEAN
    /\ MaxTime \in Nat

(* The SDK's CancelRequest is the only caller of PATCH and sends           *)
(* "cancelled"; the theorems rely only on PATCH never re-opening a request *)
(* and never declaring it expired.                                         *)
ASSUME PatchAssumption == PatchStatuses \cap {"pending", "held", "expired"} = {}

VARIABLES
    now,    \* the clock, in the unit of expiresInSeconds
    mu,     \* the goroutine that holds store.mu for writing, or None
    attr,   \* attr[r]: what POST /requests fixed for r; None when r is not stored
    ptr,    \* ptr[r], len[r]: the two words of r.Status
    len,
    resp,   \* resp[r]: r.Response, as who responded and whether it is encrypted
    by,     \* by[r]: r.RespondedBy, as the endpoint that set it
    op,     \* op[h]: the endpoint that h serves
    pc,     \* pc[h]: where h stands
    tgt,    \* tgt[h]: the request h works on
    want,   \* want[h]: the status h is assigning
    todo,   \* todo[h]: the stores of h that are not visible yet
    visit,  \* visit[h]: the requests h's locked loop has not reached
    clk,    \* clk[h]: the time list read under the lock; for a GET, history
    body,   \* body[h]: the response in h's body
    reply,  \* reply[h]: what h has read for its reply
    event   \* event[h]: the webhook event h has dispatched and what it has read

reqVars == <<attr, ptr, len, resp, by>>
jobVars == <<op, pc, tgt, want, todo, visit, clk, body>>
outVars == <<reply, event>>
vars    == <<now, mu, reqVars, jobVars, outVars>>

-----------------------------------------------------------------------------
(* The words of a status.                                                  *)

Width(s) == CASE s = "held" -> 4
              [] s = "opened" -> 6
              [] s \in {"pending", "expired"} -> 7
              [] OTHER -> 9

Torn == "torn"

(* A read of r.Status: a status when the two words fit, no status otherwise. *)
StatusOf(r) == IF len[r] = Width(ptr[r]) THEN ptr[r] ELSE Torn

Stored == {r \in Requests : attr[r] # None}

(* Mutant of Expirable: a request that was viewed does not expire. *)
ExpirableUnseen(r) == StatusOf(r) = "pending" /\ attr[r].deadline # None

(* The requests that expire: neither held ones nor those that are over. *)
Expirable(r) == StatusOf(r) \in {"pending", "opened"} /\ attr[r].deadline # None

(* time.Now().UTC().After(exp), at time t. *)
Past(r, t) == attr[r].deadline # None /\ t > attr[r].deadline

-----------------------------------------------------------------------------
(* A goroutine's stores.  "resp", "by" and "enc" are one word each; the    *)
(* compiler may store the words of a string in either order.               *)

Stores == {"resp", "ptr", "len", "by", "enc"}

(* Mutant of Rank: Status is assigned before Response. *)
RankStatusFirst(s) == CASE s \in {"ptr", "len"} -> 1
                        [] s = "resp" -> 2
                        [] s = "by" -> 3
                        [] s = "enc" -> 4

Rank(s) == CASE s = "resp" -> 1
             [] s \in {"ptr", "len"} -> 2
             [] s = "by" -> 3
             [] s = "enc" -> 4

StatusWords == {"ptr", "len"}

(* Two assignments of one goroutine to the same field stay in order on     *)
(* every machine; the others do when ProgramOrder.                         *)
MayStore(h, s) ==
    /\ s \in todo[h]
    /\ ProgramOrder => \A t \in todo[h] : Rank(s) <= Rank(t)
    /\ s = "enc" => "resp" \notin todo[h]

(* The body of an accepted response: "empty" is a nil map (an admin body   *)
(* without response, or a generic form whose JSON is null), "long" one     *)
(* that EncryptWithPublicKey refuses because OAEP cannot hold it.          *)
Bodies(o) == IF o = "submit" THEN {"short", "long"} ELSE {"short", "long", "empty"}

(* Mutant of AnswerStores: with a key, only the encrypted form is stored. *)
AnswerStoresEncOnly(r, b) ==
    {"ptr", "len", "by"} \cup (IF attr[r].key THEN (IF b # "long" THEN {"enc"} ELSE {})
                               ELSE {"resp"})

(* Mutant of AnswerStores: the encryption is forgotten. *)
AnswerStoresPlain(r, b) == {"resp", "ptr", "len", "by"}

(* The assignments of an answer b to r: Response a second time, encrypted, *)
(* when there is a key and EncryptWithPublicKey succeeds.                  *)
AnswerStores(r, b) ==
    {"resp", "ptr", "len", "by"} \cup (IF attr[r].key /\ b # "long" THEN {"enc"} ELSE {})

Given(h, encrypted) == [of |-> h, enc |-> encrypted]

Write(h, s) ==
    LET r == tgt[h] IN
    /\ ptr' = IF s = "ptr" THEN [ptr EXCEPT ![r] = want[h]] ELSE ptr
    /\ len' = IF s = "len" THEN [len EXCEPT ![r] = Width(want[h])] ELSE len
    /\ by'  = IF s = "by" THEN [by EXCEPT ![r] = op[h]] ELSE by
    /\ resp' = CASE s = "resp" -> [resp EXCEPT ![r] =
                        IF body[h] = "empty" THEN None ELSE Given(h, FALSE)]
                 [] s = "enc" -> [resp EXCEPT ![r] = Given(h, TRUE)]
                 [] OTHER -> resp
    /\ todo' = [todo EXCEPT ![h] = @ \ {s}]
    /\ UNCHANGED attr

-----------------------------------------------------------------------------
(* Snapshots: requestToMap reads Status first and Response later.          *)

NewEvent(type) == [type |-> type, got |-> 0, status |-> "none", resp |-> None]

NoSnap == NewEvent("none")

ReadOn(x, r) ==
    IF x.got = 0
    THEN [type |-> x.type, got |-> 1, status |-> StatusOf(r), resp |-> x.resp]
    ELSE [type |-> x.type, got |-> 2, status |-> x.status, resp |-> resp[r]]

Init ==
    /\ now = 0
    /\ mu = None
    /\ attr = [r \in Requests |-> None]
    /\ ptr  = [r \in Requests |-> "pending"]
    /\ len  = [r \in Requests |-> Width("pending")]
    /\ resp = [r \in Requests |-> None]
    /\ by   = [r \in Requests |-> None]
    /\ op   = [h \in Handlers |-> "none"]
    /\ pc   = [h \in Handlers |-> "idle"]
    /\ tgt  = [h \in Handlers |-> None]
    /\ want = [h \in Handlers |-> "none"]
    /\ todo = [h \in Handlers |-> {}]
    /\ visit = [h \in Handlers |-> {}]
    /\ clk  = [h \in Handlers |-> 0]
    /\ body = [h \in Handlers |-> "none"]
    /\ reply = [h \in Handlers |-> NoSnap]
    /\ event = [h \in Handlers |-> NoSnap]

(* Where a handler goes when its getAndExpire has returned. *)
AfterGet(o) == CASE o = "get" -> "read"
                 [] o = "view" -> "open"
                 [] OTHER -> "body"

-----------------------------------------------------------------------------
(* POST /requests: the struct is private until put makes it reachable.     *)
Create(h, r, s) ==
    /\ pc[h] = "idle"
    /\ "create" \in Ops
    /\ mu = None
    /\ attr[r] = None
    /\ attr' = [attr EXCEPT ![r] =
                  [deadline |-> IF s.life = None THEN None ELSE now + s.life,
                   key |-> s.key, url |-> s.url, delivery |-> s.delivery,
                   held |-> s.held]]
    /\ LET st == IF s.held THEN "held" ELSE "pending" IN
       /\ ptr' = [ptr EXCEPT ![r] = st]
       /\ len' = [len EXCEPT ![r] = Width(st)]
    /\ op'  = [op EXCEPT ![h] = "create"]
    /\ tgt' = [tgt EXCEPT ![h] = r]
    /\ pc'  = [pc EXCEPT ![h] = "read"]
    /\ UNCHANGED <<now, mu, resp, by, want, todo, visit, clk, body, outVars>>

(* Nobody guesses an id: callers have it from the reply to POST /requests  *)
(* or from a list.                                                         *)
Known(r) == \E h \in Handlers :
    op[h] \in {"create", "list"} /\ tgt[h] = r /\ pc[h] = "done" /\ reply[h].got = 2

(* getAndExpire up to expireLocked's test of the status.  Nothing is       *)
(* stored for an unknown id (404).                                         *)
GetAndExpire(h, o, r) ==
    /\ pc[h] = "idle"
    /\ o \in Ops \cap LockOps
    /\ r \in Stored => Known(r)
    /\ mu = None
    /\ op'  = [op EXCEPT ![h] = o]
    /\ tgt' = [tgt EXCEPT ![h] = r]
    /\ clk' = IF o = "get" THEN [clk EXCEPT ![h] = now] ELSE clk
    /\ IF r \in Stored /\ Expirable(r)
       THEN /\ mu' = h
            /\ pc' = [pc EXCEPT ![h] = "clock"]
       ELSE /\ pc' = [pc EXCEPT ![h] = IF r \in Stored THEN AfterGet(o) ELSE "done"]
            /\ UNCHANGED mu
    /\ UNCHANGED <<now, reqVars, want, todo, visit, body, outVars>>

(* Mutant of CheckClock: a deadline is enough to expire a request. *)
CheckClockAlways(h) ==
    /\ pc[h] = "clock"
    /\ want' = [want EXCEPT ![h] = "expired"]
    /\ todo' = [todo EXCEPT ![h] = StatusWords]
    /\ pc' = [pc EXCEPT ![h] = "locked"]
    /\ UNCHANGED <<now, mu, reqVars, op, tgt, visit, clk, body, outVars>>

(* Mutant of CheckClock: an early return without the unlock. *)
CheckClockNoUnlock(h) ==
    /\ pc[h] = "clock"
    /\ IF Past(tgt[h], now)
       THEN /\ want' = [want EXCEPT ![h] = "expired"]
            /\ todo' = [todo EXCEPT ![h] = StatusWords]
            /\ pc' = [pc EXCEPT ![h] = "locked"]
       ELSE /\ pc' = [pc EXCEPT ![h] = AfterGet(op[h])]
            /\ UNCHANGED <<want, todo>>
    /\ UNCHANGED <<now, mu, reqVars, op, tgt, visit, clk, body, outVars>>

(* ... and its test of the clock, still under the lock. *)
CheckClock(h) ==
    /\ pc[h] = "clock"
    /\ IF Past(tgt[h], now)
       THEN /\ want' = [want EXCEPT ![h] = "expired"]
            /\ todo' = [todo EXCEPT ![h] = StatusWords]
            /\ pc' = [pc EXCEPT ![h] = "locked"]
            /\ UNCHANGED mu
       ELSE /\ pc' = [pc EXCEPT ![h] = AfterGet(op[h])]
            /\ mu' = None
            /\ UNCHANGED <<want, todo>>
    /\ UNCHANGED <<now, reqVars, op, tgt, visit, clk, body, outVars>>

(* Mutant of MarkOpened: the test is made without waiting for the lock. *)
MarkOpenedUnlocked(h) ==
    /\ pc[h] = "open"
    /\ IF StatusOf(tgt[h]) = "pending"
       THEN /\ mu' = h
            /\ want' = [want EXCEPT ![h] = "opened"]
            /\ todo' = [todo EXCEPT ![h] = StatusWords]
            /\ pc' = [pc EXCEPT ![h] = "locked"]
       ELSE /\ pc' = [pc EXCEPT ![h] = "read"]
            /\ UNCHANGED <<mu, want, todo>>
    /\ UNCHANGED <<now, reqVars, op, tgt, visit, clk, body, outVars>>

(* markOpened, called by the page view after getAndExpire has unlocked. *)
MarkOpened(h) ==
    /\ pc[h] = "open"
    /\ mu = None
    /\ IF StatusOf(tgt[h]) = "pending"
       THEN /\ mu' = h
            /\ want' = [want EXCEPT ![h] = "opened"]
            /\ todo' = [todo EXCEPT ![h] = StatusWords]
            /\ pc' = [pc EXCEPT ![h] = "locked"]
       ELSE /\ pc' = [pc EXCEPT ![h] = "read"]
            /\ UNCHANGED <<mu, want, todo>>
    /\ UNCHANGED <<now, reqVars, op, tgt, visit, clk, body, outVars>>

(* list() and releaseHeldRequests lock once and loop over the requests;    *)
(* S is the requests of the workspace and DID that are released.           *)
Sweep(h, o, S) ==
    /\ pc[h] = "idle"
    /\ o \in Ops \cap SweepOps
    /\ mu = None
    /\ o = "list" => S = Stored
    /\ mu' = h
    /\ op' = [op EXCEPT ![h] = o]
    /\ visit' = [visit EXCEPT ![h] = S]
    /\ clk' = [clk EXCEPT ![h] = now]
    /\ pc' = [pc EXCEPT ![h] = "sweep"]
    /\ UNCHANGED <<now, reqVars, tgt, want, todo, body, outVars>>

Visit(h, r) ==
    /\ pc[h] = "sweep"
    /\ r \in visit[h]
    /\ visit' = [visit EXCEPT ![h] = @ \ {r}]
    /\ IF \/ op[h] = "list" /\ Expirable(r) /\ Past(r, clk[h])
          \/ op[h] = "release" /\ StatusOf(r) = "held"
       THEN /\ tgt' = [tgt EXCEPT ![h] = r]
            /\ want' = [want EXCEPT ![h] = IF op[h] = "list" THEN "expired" ELSE "pending"]
            /\ todo' = [todo EXCEPT ![h] = StatusWords]
            /\ pc' = [pc EXCEPT ![h] = "locked"]
       ELSE UNCHANGED <<tgt, want, todo, pc>>
    /\ UNCHANGED <<now, mu, reqVars, op, clk, body, outVars>>

(* The loop ends; GET /requests goes on to read the requests of its page,  *)
(* of which the model follows any one; GET /healthz only counts them.     *)
SweepEnd(h) ==
    /\ pc[h] = "sweep"
    /\ visit[h] = {}
    /\ mu' = None
    /\ \/ /\ op[h] = "list"
          /\ \E r \in Stored : tgt' = [tgt EXCEPT ![h] = r]
          /\ pc' = [pc EXCEPT ![h] = "read"]
       \/ /\ pc' = [pc EXCEPT ![h] = "done"]
          /\ UNCHANGED tgt
    /\ UNCHANGED <<now, reqVars, op, want, todo, visit, clk, body, outVars>>

(* An assignment under the lock: the last one is followed by the unlock,   *)
(* except in a loop.                                                       *)
LockedStore(h, s) ==
    /\ pc[h] = "locked"
    /\ MayStore(h, s)
    /\ Write(h, s)
    /\ IF todo[h] # {s}
       THEN UNCHANGED <<mu, pc>>
       ELSE IF op[h] \in SweepOps
       THEN /\ pc' = [pc EXCEPT ![h] = "sweep"]
            /\ UNCHANGED mu
       ELSE /\ pc' = [pc EXCEPT ![h] = IF want[h] = "opened" THEN "dispatch"
                                                             ELSE AfterGet(op[h])]
            /\ mu' = None
    /\ UNCHANGED <<now, op, tgt, want, visit, clk, body, outVars>>

-----------------------------------------------------------------------------
(* The handlers that answer or cancel: the body is read after getAndExpire *)
(* has returned and the fields are assigned without the lock, whatever the *)
(* status has become.                                                      *)

(* An unreadable body (400) or one without response (422). *)
Reject(h) ==
    /\ pc[h] = "body"
    /\ op[h] # "admin"
    /\ pc' = [pc EXCEPT ![h] = "done"]
    /\ UNCHANGED <<now, mu, reqVars, op, tgt, want, todo, visit, clk, body, outVars>>

Respond(h, b) ==
    /\ pc[h] = "body"
    /\ op[h] \in {"submit", "ui", "admin"}
    /\ b \in Bodies(op[h])
    /\ body' = [body EXCEPT ![h] = b]
    /\ want' = [want EXCEPT ![h] = "completed"]
    /\ todo' = [todo EXCEPT ![h] = AnswerStores(tgt[h], b)]
    /\ pc' = [pc EXCEPT ![h] = "store"]
    /\ UNCHANGED <<now, mu, reqVars, op, tgt, visit, clk, outVars>>

(* handleUpdateRequest: a body without a status changes nothing. *)
Patch(h, s) ==
    /\ pc[h] = "body"
    /\ op[h] = "patch"
    /\ IF s = None
       THEN /\ pc' = [pc EXCEPT ![h] = "read"]
            /\ UNCHANGED <<want, todo>>
       ELSE /\ want' = [want EXCEPT ![h] = s]
            /\ todo' = [todo EXCEPT ![h] = StatusWords]
            /\ pc' = [pc EXCEPT ![h] = "store"]
    /\ UNCHANGED <<now, mu, reqVars, op, tgt, visit, clk, body, outVars>>

UnlockedStore(h, s) ==
    /\ pc[h] = "store"
    /\ MayStore(h, s)
    /\ Write(h, s)
    /\ pc' = [pc EXCEPT ![h] = IF todo[h] = {s} THEN "dispatch" ELSE "store"]
    /\ UNCHANGED <<now, mu, op, tgt, want, visit, clk, body, outVars>>

-----------------------------------------------------------------------------
(* Mutant of EventType: a change of status is announced as an update. *)
EventTypeUpdated(o) == CASE o = "create" -> "sent"
                         [] o = "view" -> "opened"
                         [] o = "patch" -> "updated"
                         [] OTHER -> "completed"

EventType(o) == CASE o = "create" -> "sent"
                  [] o = "view" -> "opened"
                  [] o = "patch" -> "cancelled"
                  [] OTHER -> "completed"

(* dispatchWebhook starts a goroutine when the request has a URL; the page *)
(* view first fetches the request again, under the read lock.              *)
Dispatch(h) ==
    /\ pc[h] = "dispatch"
    /\ op[h] = "view" => mu = None
    /\ IF attr[tgt[h]].url /\ (op[h] = "patch" => want[h] = "cancelled")
       THEN event' = [event EXCEPT ![h] = NewEvent(EventType(op[h]))]
       ELSE UNCHANGED event
    /\ pc' = [pc EXCEPT ![h] = IF op[h] = "create" THEN "done" ELSE "read"]
    /\ UNCHANGED <<now, mu, reqVars, op, tgt, want, todo, visit, clk, body, reply>>

(* The creation handler dispatches "sent" after it has built its reply. *)
ReadReply(h) ==
    /\ pc[h] = "read"
    /\ reply[h].got < 2
    /\ reply' = [reply EXCEPT ![h] = ReadOn(@, tgt[h])]
    /\ pc' = [pc EXCEPT ![h] = IF reply[h].got = 0 THEN "read"
                               ELSE IF op[h] = "create" /\ attr[tgt[h]].delivery
                               THEN "dispatch" ELSE "done"]
    /\ UNCHANGED <<now, mu, reqVars, op, tgt, want, todo, visit, clk, body, event>>

(* The goroutine of sendWebhook builds the event from the live request;    *)
(* the POST that follows is made once and its outcome is ignored.          *)
SendWebhook(h) ==
    /\ event[h].type # "none"
    /\ event[h].got < 2
    /\ event' = [event EXCEPT ![h] = ReadOn(@, tgt[h])]
    /\ UNCHANGED <<now, mu, reqVars, jobVars, reply>>

Tick ==
    /\ now < MaxTime
    /\ now' = now + 1
    /\ UNCHANGED <<mu, reqVars, jobVars, outVars>>

-----------------------------------------------------------------------------
Arrive(h) ==
    \/ \E r \in Requests, s \in Shapes : Create(h, r, s)
    \/ \E r \in Requests, o \in LockOps : GetAndExpire(h, o, r)
    \/ \E o \in SweepOps, S \in SUBSET Stored : Sweep(h, o, S)

Proceed(h) ==
    \/ CheckClock(h)
    \/ MarkOpened(h)
    \/ \E r \in Requests : Visit(h, r)
    \/ SweepEnd(h)
    \/ \E s \in Stores : LockedStore(h, s)
    \/ Reject(h)
    \/ \E b \in {"short", "long", "empty"} : Respond(h, b)
    \/ \E s \in PatchStatuses \cup {None} : Patch(h, s)
    \/ \E s \in Stores : UnlockedStore(h, s)
    \/ Dispatch(h)
    \/ ReadReply(h)

Next ==
    \/ Tick
    \/ \E h \in Handlers : Arrive(h) \/ Proceed(h) \/ SendWebhook(h)

Spec == Init /\ [][Next]_vars

(* The Go scheduler runs every goroutine that can run: a handler that has  *)
(* arrived goes on.  Nothing is assumed of the clock or of the callers.    *)
Fairness == \A h \in Handlers : WF_vars(Proceed(h)) /\ WF_vars(SendWebhook(h))

FairSpec == Spec /\ Fairness
-----------------------------------------------------------------------------
(* TypeOK *)
PCs == {"idle", "clock", "open", "sweep", "locked", "body", "store", "dispatch",
        "read", "done"}

Snapshot == [type : {"none", "sent", "opened", "cancelled", "completed"}, got : 0..2,
             status : Status \cup {Torn, "none"}, resp : Response]

(* The types of the variables: the fields of storedRequest, the mutex, and *)
(* the goroutines of the handlers and of the webhooks.                     *)
TypeOK ==
    /\ now \in Nat
    /\ mu \in Handlers \cup {None}
    /\ attr \in [Requests -> Attr \cup {None}]
    /\ ptr \in [Requests -> Status]
    /\ len \in [Requests -> {4, 6, 7, 9}]
    /\ resp \in [Requests -> Response]
    /\ by \in [Requests -> AllOps \cup {None}]
    /\ op \in [Handlers -> AllOps \cup {"none"}]
    /\ pc \in [Handlers -> PCs]
    /\ tgt \in [Handlers -> Requests \cup {None}]
    /\ want \in [Handlers -> Status \cup {"none"}]
    /\ todo \in [Handlers -> SUBSET Stores]
    /\ visit \in [Handlers -> SUBSET Requests]
    /\ clk \in [Handlers -> Nat]
    /\ body \in [Handlers -> {"none", "short", "long", "empty"}]
    /\ reply \in [Handlers -> Snapshot]
    /\ event \in [Handlers -> Snapshot]

-----------------------------------------------------------------------------
(* Safety.                                                                 *)

(* "request.opened" is dispatched at most once for a request, however many *)
(* page views race: markOpened tests and assigns under the lock, and no    *)
(* racing assignment brings a request back to pending or held.             *)
OpenedOnce ==
    \A h1, h2 \in Handlers :
        /\ event[h1].type = "opened"
        /\ event[h2].type = "opened"
        /\ tgt[h1] = tgt[h2]
        => h1 = h2

(* Nobody is told "expired" of a request whose deadline has not passed,    *)
(* whichever words of the status race: neither a reply nor an event.       *)
ExpiredAfterDeadline ==
    \A h \in Handlers : \A x \in {reply[h], event[h]} :
        x.status = "expired" => Past(tgt[h], now)

(* A GET that got the lock after the deadline does not answer that the     *)
(* request still waits, though its reply reads the status after the unlock *)
(* and views, answers and expiry sweeps race with it.  A request created   *)
(* as held is excepted: held requests do not expire, and the release makes *)
(* one pending at any time.                                                *)
GetIsFresh ==
    \A h \in Handlers :
        LET r == tgt[h] IN
        /\ op[h] = "get"
        /\ reply[h].got >= 1
        /\ Past(r, clk[h])
        /\ ~attr[r].held
        => reply[h].status \notin {"pending", "opened"}

(* The stored Response of a request with a publicKey is in the clear only  *)
(* while the handler that stored it has still to encrypt it, or for good   *)
(* when its encryption fails: racing answers never leave one in between.   *)
PlainOnlyWhileResponding ==
    \A r \in Stored :
        /\ attr[r].key
        /\ resp[r] # None
        /\ ~resp[r].enc
        => LET h == resp[r].of IN
           tgt[h] = r /\ ("enc" \in todo[h] \/ body[h] = "long")

(* Some caller answered r with a nil map (see Bodies). *)
AnsweredEmpty(r) == \E h \in Handlers : tgt[h] = r /\ body[h] = "empty"

(* Where stores appear in program order, a snapshot that says "completed"  *)
(* carries a response, without any lock: the handlers store Response       *)
(* before Status and requestToMap reads them the other way round.          *)
CompletedHasResponse ==
    \A h \in Handlers : \A x \in {reply[h], event[h]} :
        /\ x.got = 2
        /\ x.status = "completed"
        => x.resp # None \/ AnsweredEmpty(tgt[h])

(* The "completed" event carries a response even where stores are          *)
(* reordered: its goroutine is started after every assignment.             *)
CompletedEventHasResponse ==
    \A h \in Handlers :
        /\ event[h].type = "completed"
        /\ event[h].got = 2
        => event[h].resp # None \/ AnsweredEmpty(tgt[h])

-----------------------------------------------------------------------------
(* The inductive invariant: why the safety properties hold.                *)

(* The locked sections of store.go exclude one another. *)
MutexInv == \A h \in Handlers : pc[h] \in {"clock", "sweep", "locked"} <=> mu = h

(* What each place of a handler implies for its locals. *)
Job(h) ==
    /\ pc[h] = "idle" => todo[h] = {} /\ want[h] = "none"
    /\ pc[h] # "idle" => op[h] \in AllOps
    /\ pc[h] = "sweep" => op[h] \in SweepOps
    /\ pc[h] \in {"clock", "open", "body", "store", "dispatch"} => op[h] \notin SweepOps
    /\ pc[h] \in {"clock", "open", "locked"} => op[h] \in LockOps \cup SweepOps
    /\ pc[h] = "open" => op[h] = "view"
    /\ pc[h] = "locked" /\ want[h] = "opened" => op[h] = "view"
    /\ pc[h] = "dispatch" => op[h] \in {"create", "view", "submit", "ui", "admin", "patch"}
    /\ pc[h] \in {"body", "store"} => op[h] \in {"submit", "ui", "admin", "patch"}
    /\ pc[h] \in PCs \ {"idle", "sweep", "done"} => tgt[h] \in Stored
    /\ todo[h] # {} => pc[h] \in {"locked", "store"} /\ want[h] \in Status
    /\ pc[h] = "locked" => todo[h] \subseteq StatusWords
    /\ todo[h] \subseteq StatusWords \/ op[h] \in {"submit", "ui", "admin"}
    /\ reply[h].got > 0 => pc[h] \in {"read", "dispatch", "done"} /\ tgt[h] \in Stored
    /\ event[h].type # "none" => /\ pc[h] \in {"read", "done"}
                                 /\ op[h] \notin SweepOps
                                 /\ op[h] = "create" => pc[h] = "done"
                                 /\ tgt[h] \in Stored
    /\ \A x \in {reply[h], event[h]} : x.got = 0 => x.status = "none"
    /\ event[h].type = "none" => event[h].got = 0
    /\ visit[h] \subseteq Stored
    /\ clk[h] <= now

JobInv == \A h \in Handlers : Job(h)

(* h has found the request pending and marks it opened. *)
Opener(h) == op[h] = "view" /\ want[h] = "opened"

(* One opener a request, because once it has stored its status no          *)
(* assignment that is still to come, locked or not, restores "pending".    *)
OpenInv ==
    /\ \A h \in Handlers :
        /\ Opener(h) => /\ pc[h] \in {"locked", "dispatch", "read", "done"}
                        /\ tgt[h] \in Stored
        /\ Opener(h) /\ "ptr" \in todo[h] => pc[h] = "locked"
        /\ Opener(h) /\ "ptr" \notin todo[h] => ptr[tgt[h]] \notin {"pending", "held"}
        /\ op[h] = "view" /\ pc[h] = "dispatch" => Opener(h)
        /\ event[h].type = "opened" => Opener(h)
        /\ "ptr" \in todo[h] => want[h] # "held"
        /\ "ptr" \in todo[h] /\ want[h] = "pending" =>
              /\ pc[h] = "locked"
              /\ \A h2 \in Handlers : Opener(h2) => tgt[h2] # tgt[h]
    /\ \A h1, h2 \in Handlers :
        Opener(h1) /\ Opener(h2) /\ tgt[h1] = tgt[h2] => h1 = h2

(* "expired" is assigned, and so read, only past the deadline. *)
ExpiredInv ==
    /\ \A r \in Requests : ptr[r] = "expired" => r \in Stored /\ Past(r, now)
    /\ \A h \in Handlers : want[h] = "expired" /\ "ptr" \in todo[h] => Past(tgt[h], now)
    /\ ExpiredAfterDeadline

(* Past its body, a handler's request and answer are settled. *)
Answered == {"store", "dispatch", "read", "done"}

(* Whoever has still to store a response has also to encrypt it. *)
PlainInv ==
    /\ \A r \in Requests \ Stored : resp[r] = None
    /\ \A r \in Requests : resp[r] # None => pc[resp[r].of] \in Answered
    /\ \A h \in Handlers :
        "resp" \in todo[h] /\ attr[tgt[h]].key /\ body[h] # "long" => "enc" \in todo[h]
    /\ PlainOnlyWhileResponding

(* Once some response was stored, there is one or an empty one came later. *)
HasResponse(r) == resp[r] # None \/ AnsweredEmpty(r)

ResponseInv ==
    /\ \A h \in Handlers :
        /\ body[h] # "none" => /\ pc[h] \in Answered
                               /\ op[h] \in {"submit", "ui", "admin"}
                               /\ tgt[h] \in Stored
        /\ /\ op[h] \in {"submit", "ui", "admin"}
           /\ pc[h] \in {"store", "dispatch"}
           => body[h] # "none" /\ ("resp" \notin todo[h] => HasResponse(tgt[h]))
        /\ event[h].type = "completed" => HasResponse(tgt[h])
    /\ CompletedEventHasResponse

(* With stores in program order, "completed" is a sign of a response. *)
CompletedInv ==
    /\ \A r \in Requests : ptr[r] = "completed" => HasResponse(r)
    /\ \A h \in Handlers :
        /\ want[h] = "completed" /\ "ptr" \in todo[h] =>
              op[h] \in {"submit", "ui", "admin"} /\ pc[h] = "store"
        /\ \A x \in {reply[h], event[h]} : x.status = "completed" => HasResponse(tgt[h])
    /\ CompletedHasResponse

(* An answer or a cancellation may take the place of any status. *)
Outcomes == {"completed", "cancelled"}

(* What the tests of the locked sections let be overwritten. *)
Sources(s) == CASE s = "pending" -> {"held"}
                [] s = "opened" -> {"pending"}
                [] s = "expired" -> {"pending", "opened"}
                [] OTHER -> {}

Waits(r) == ptr[r] \in {"pending", "opened"}

(* Between its test and its unlock, a locked section finds in a status     *)
(* what it has tested, what it has stored, or an outcome that was stored   *)
(* without the lock.                                                       *)
Section(h) ==
    /\ pc[h] = "clock" => ptr[tgt[h]] \in {"pending", "opened"} \cup Outcomes
    /\ pc[h] = "locked" =>
          /\ want[h] \in {"pending", "opened", "expired"}
          /\ want[h] = "pending" => attr[tgt[h]].held
          /\ ptr[tgt[h]] \in Outcomes \cup
                (IF "ptr" \in todo[h] THEN Sources(want[h]) ELSE {want[h]})
          /\ "len" \notin todo[h] => len[tgt[h]] \in {Width(want[h]), 9}
    /\ pc[h] = "store" /\ todo[h] \cap StatusWords # {} => want[h] \in Outcomes

(* Outside of the locked sections a status that waits is whole, but for    *)
(* the length of an outcome; only what was held is held.                   *)
Whole(r) ==
    /\ ptr[r] = "held" => r \in Stored /\ attr[r].held
    /\ Waits(r) /\ (\A h \in Handlers : pc[h] = "locked" => tgt[h] # r) =>
          len[r] \in {Width(ptr[r]), 9}

StatusInv == /\ \A h \in Handlers : Section(h)
             /\ \A r \in Requests : Whole(r)

(* r reads neither "pending" nor "opened" any more, and nobody is about to *)
(* make it.                                                                *)
Over(r) ==
    /\ Waits(r) => len[r] = 9
    /\ \A h \in Handlers : pc[h] \in {"clock", "locked"} => tgt[h] # r

(* Once a GET has left the lock after the deadline, the request is over. *)
FreshInv ==
    /\ \A h \in Handlers :
        op[h] = "get" /\ pc[h] = "read" /\ Past(tgt[h], clk[h]) /\ ~attr[tgt[h]].held =>
            Over(tgt[h])
    /\ GetIsFresh

IInv == /\ TypeOK
        /\ MutexInv
        /\ JobInv
        /\ OpenInv
        /\ ExpiredInv
        /\ PlainInv
        /\ ResponseInv
        /\ ProgramOrder /\ "completed" \notin PatchStatuses => CompletedInv
        /\ PatchStatuses \subseteq Outcomes => StatusInv /\ FreshInv

-----------------------------------------------------------------------------
(* Refinement.                                                             *)

(* Whoever has stored the first word of "opened" has opened r. *)
Lifecycle == INSTANCE RequestLifecycle WITH
    terms <- [r \in Requests |-> IF attr[r] = None THEN None
                ELSE [deadline |-> attr[r].deadline, held |-> attr[r].held]],
    status <- [r \in Requests |-> IF attr[r] = None THEN "absent" ELSE ptr[r]],
    opened <- {r \in Requests : \E h \in Handlers :
                 Opener(h) /\ tgt[h] = r /\ "ptr" \notin todo[h]}

(* The handlers and their races implement RequestLifecycle, where PATCH    *)
(* does no more than cancel or complete: every change of a status has its  *)
(* cause, though answers and cancellations test no status                  *)
(* (src/server/handlers.go:222, 255) and locked sections may overwrite     *)
(* them.                                                                   *)
ImplementsLifecycle == Lifecycle!Spec

-----------------------------------------------------------------------------
(* Liveness.                                                               *)

(* Every HTTP request that is taken up is answered: no handler waits for   *)
(* store.mu for ever, whatever returns the others take.                    *)
EveryHandlerAnswers == \A h \in Handlers : pc[h] # "idle" ~> pc[h] = "done"

-----------------------------------------------------------------------------
(* What the repository says and the code does not keep (violation runs).   *)

(* "a thread-safe in-memory store" (src/server/store.go:44): once a        *)
(* request is completed, expiring it, viewing it or releasing it does not  *)
(* take it back (a cancellation may).                                      *)
CompletedStays ==
    [][\A r \in Requests :
          StatusOf(r) = "completed" => ptr'[r] \in {"completed", "cancelled"}]_vars
=============================================================================
