------------------------------ MODULE KnockFlow ------------------------------
(***************************************************************************)
(* The knock: a caller that signs with a DID is unknown to a workspace     *)
(* until its knock is accepted; until then its requests are held.          *)
(*                                                                         *)
(* Modelled at the grain of the store's locked operations                  *)
(* (src/server/store.go): each is one step, but the handlers               *)
(* (src/server/handlers.go) call several of them, and other handlers run   *)
(* in between.  A member of Handlers serves one HTTP request; the request  *)
(* that a creation stores goes by the name of its handler.  What else      *)
(* happens to a stored request is in RequestStore.                         *)
(***************************************************************************)
CONSTANTS
    Handlers,    \* HTTP requests served, one goroutine each
    Workspaces,  \* values of "workspace" in those requests; "" when absent
    Dids,        \* the DIDs of the callers; "" for a caller with an API key
    Calls,       \* the endpoints called
    None         \* no knock yet, no request, no reply

Verdicts == {"pending", "active", "blocked"}
Endpoints == {"create", "status", "admin"}

ASSUME KnockAssumption ==
    /\ "" \in Dids
    /\ Calls \subseteq Endpoints
    /\ None \notin Verdicts \cup {"held"}

VARIABLES
    autoAccept,  \* the server's AutoAcceptKnocks, set before it starts
    knock,    \* store.knockStatus, by workspace and DID
    status,   \* status[h]: the status of the request that h has stored
    op,       \* op[h]: the endpoint h serves
    pc,       \* pc[h]: where h stands
    ws,       \* ws[h]: the workspace in h's request, as it was sent
    did,      \* did[h]: the caller's DID
    saw,      \* saw[h]: the knock that h has read
    verdict,  \* verdict[h]: the status in the body of an admin's call
    reply,    \* reply[h]: the knock status that h has replied
    told,     \* history: when h arrived, its caller had read "active"
    late      \* history: creations not yet stored while a release ran

stVars == <<knock, status>>
callVars == <<op, ws, did, verdict, told>>
vars == <<autoAccept, stVars, callVars, pc, saw, reply, late>>

-----------------------------------------------------------------------------
(* The handlers take "default" for an absent workspace when they look a    *)
(* knock up.                                                               *)
KeyOf(w) == IF w = "" THEN "default" ELSE w

Keys == {KeyOf(w) : w \in Workspaces} \X Dids

Key(h) == <<KeyOf(ws[h]), did[h]>>

Goto(h, place) == pc' = [pc EXCEPT ![h] = place]

Init ==
    /\ autoAccept \in BOOLEAN
    /\ knock = [k \in Keys |-> None]
    /\ status = [h \in Handlers |-> None]
    /\ op = [h \in Handlers |-> "none"]
    /\ pc = [h \in Handlers |-> "idle"]
    /\ ws = [h \in Handlers |-> ""]
    /\ did = [h \in Handlers |-> ""]
    /\ saw = [h \in Handlers |-> None]
    /\ verdict = [h \in Handlers |-> None]
    /\ reply = [h \in Handlers |-> None]
    /\ told = [h \in Handlers |-> FALSE]
    /\ late = {}

(* Has a status call about k been answered "active"? *)
ToldActive(k) == \E h \in Handlers : Key(h) = k /\ reply[h] = "active"

Arrive(h, o, w, d, place) ==
    /\ pc[h] = "idle"
    /\ o \in Calls
    /\ op' = [op EXCEPT ![h] = o]
    /\ ws' = [ws EXCEPT ![h] = w]
    /\ did' = [did EXCEPT ![h] = d]
    /\ told' = [told EXCEPT ![h] = ToldActive(<<KeyOf(w), d>>)]
    /\ Goto(h, place)
    /\ UNCHANGED <<stVars, saw, reply, late>>

(* POST /requests: a caller with an API key needs no knock. *)
Create(h, w, d) ==
    /\ Arrive(h, "create", w, d, IF d = "" THEN "put" ELSE "read")
    /\ UNCHANGED verdict

(* GET /knock/status. *)
GetStatus(h, w, d) ==
    /\ Arrive(h, "status", w, d, "read")
    /\ UNCHANGED verdict

(* Mutant of AdminKnock: any status is taken. *)
AdminKnockAny(h, w, d, v) ==
    /\ Arrive(h, "admin", w, d, "set")
    /\ verdict' = [verdict EXCEPT ![h] = IF v = "blocked" THEN "banned" ELSE v]

(* POST /admin/knock: a status that is none of the three is refused. *)
AdminKnock(h, w, d, v) ==
    /\ Arrive(h, "admin", w, d, "set")
    /\ verdict' = [verdict EXCEPT ![h] = v]

-----------------------------------------------------------------------------
(* getKnockStatus in the creation handler. *)
CheckKnock(h) ==
    LET k == knock[Key(h)] IN
    /\ pc[h] = "read"
    /\ op[h] = "create"
    /\ saw' = [saw EXCEPT ![h] = k]
    /\ Goto(h, CASE k = None -> "first"
                 [] k \in {"pending", "blocked"} /\ autoAccept -> "accept"
                 [] OTHER -> "put")
    /\ UNCHANGED <<stVars, callVars, reply, late>>

(* Mutant of ReadStatus: only an unknown caller is accepted. *)
ReadStatusFirstOnly(h) ==
    LET k == knock[Key(h)] IN
    /\ pc[h] = "read"
    /\ op[h] = "status"
    /\ saw' = [saw EXCEPT ![h] = k]
    /\ IF k = None
       THEN /\ Goto(h, IF autoAccept THEN "accept" ELSE "first")
            /\ UNCHANGED reply
       ELSE /\ Goto(h, "done")
            /\ reply' = [reply EXCEPT ![h] = k]
    /\ UNCHANGED <<stVars, callVars, late>>

(* ... and in the handler that reports it. *)
ReadStatus(h) ==
    LET k == knock[Key(h)] IN
    /\ pc[h] = "read"
    /\ op[h] = "status"
    /\ saw' = [saw EXCEPT ![h] = k]
    /\ IF k = None \/ (k = "pending" /\ autoAccept)
       THEN /\ Goto(h, IF autoAccept THEN "accept" ELSE "first")
            /\ UNCHANGED reply
       ELSE /\ Goto(h, "done")
            /\ reply' = [reply EXCEPT ![h] = k]
    /\ UNCHANGED <<stVars, callVars, late>>

(* The caller was unknown when it was read: it is recorded as pending. *)
FirstKnock(h) ==
    /\ pc[h] = "first"
    /\ knock' = [knock EXCEPT ![Key(h)] = "pending"]
    /\ Goto(h, IF op[h] = "status" THEN "done" ELSE IF autoAccept THEN "accept" ELSE "put")
    /\ reply' = IF op[h] = "status" THEN [reply EXCEPT ![h] = "pending"] ELSE reply
    /\ UNCHANGED <<status, callVars, saw, late>>

(* AutoAcceptKnocks: whatever was read but "active" becomes "active". *)
AutoAcceptKnock(h) ==
    /\ pc[h] = "accept"
    /\ knock' = [knock EXCEPT ![Key(h)] = "active"]
    /\ Goto(h, CASE op[h] = "create" -> "put"
                 [] op[h] = "status" /\ saw[h] # None -> "release"
                 [] OTHER -> "done")
    /\ reply' = IF op[h] = "status" /\ saw[h] = None
                THEN [reply EXCEPT ![h] = "active"] ELSE reply
    /\ UNCHANGED <<status, callVars, saw, late>>

(* Mutant of Held: a first knock is let through. *)
HeldKnown(h) == did[h] # "" /\ saw[h] \in {"pending", "blocked"} /\ ~autoAccept

Held(h) == did[h] # "" /\ saw[h] # "active" /\ ~autoAccept

Put(h) ==
    /\ pc[h] = "put"
    /\ status' = [status EXCEPT ![h] = IF Held(h) THEN "held" ELSE "pending"]
    /\ Goto(h, "done")
    /\ UNCHANGED <<knock, callVars, saw, reply, late>>

-----------------------------------------------------------------------------
(* Mutant of SetVerdict: only a knock that was pending is followed by the  *)
(* release.                                                                *)
SetVerdictPending(h) ==
    /\ pc[h] = "set"
    /\ knock' = [knock EXCEPT ![Key(h)] = verdict[h]]
    /\ Goto(h, IF verdict[h] = "active" /\ knock[Key(h)] = "pending" THEN "release" ELSE "done")
    /\ UNCHANGED <<status, callVars, saw, reply, late>>

(* The admin's setKnockStatus. *)
SetVerdict(h) ==
    /\ pc[h] = "set"
    /\ knock' = [knock EXCEPT ![Key(h)] = verdict[h]]
    /\ Goto(h, IF verdict[h] = "active" THEN "release" ELSE "done")
    /\ UNCHANGED <<status, callVars, saw, reply, late>>

(* releaseHeldRequests compares the workspace that the request was sent    *)
(* with to the one that the caller's was turned into.                      *)
Release(h) ==
    /\ pc[h] = "release"
    /\ status' = [x \in Handlers |->
                    IF status[x] = "held" /\ ws[x] = KeyOf(ws[h]) /\ did[x] = did[h]
                    THEN "pending" ELSE status[x]]
    /\ late' = late \cup {x \in Handlers : pc[x] \in {"first", "put"} /\ Key(x) = Key(h)}
    /\ reply' = IF op[h] = "status" THEN [reply EXCEPT ![h] = "active"] ELSE reply
    /\ Goto(h, "done")
    /\ UNCHANGED <<knock, callVars, saw>>

-----------------------------------------------------------------------------
Call(h) ==
    \E w \in Workspaces, d \in Dids :
        \/ Create(h, w, d)
        \/ GetStatus(h, w, d)
        \/ \E v \in Verdicts : AdminKnock(h, w, d, v)

Step(h) ==
    \/ CheckKnock(h)
    \/ ReadStatus(h)
    \/ FirstKnock(h)
    \/ AutoAcceptKnock(h)
    \/ Put(h)
    \/ SetVerdict(h)
    \/ Release(h)

Next ==
    /\ \E h \in Handlers : Call(h) \/ Step(h)
    /\ UNCHANGED autoAccept

Spec == Init /\ [][Next]_vars
-----------------------------------------------------------------------------
Places == {"idle", "read", "first", "accept", "put", "set", "release", "done"}

(* The types of the variables: the map of knocks and the handlers. *)
TypeOK ==
    /\ autoAccept \in BOOLEAN
    /\ knock \in [Keys -> Verdicts \cup {None}]
    /\ status \in [Handlers -> {"pending", "held", None}]
    /\ op \in [Handlers -> Endpoints \cup {"none"}]
    /\ pc \in [Handlers -> Places]
    /\ ws \in [Handlers -> Workspaces \cup {""}]
    /\ did \in [Handlers -> Dids]
    /\ saw \in [Handlers -> Verdicts \cup {None}]
    /\ verdict \in [Handlers -> Verdicts \cup {None}]
    /\ reply \in [Handlers -> Verdicts \cup {None}]
    /\ told \in [Handlers -> BOOLEAN]
    /\ late \subseteq Handlers

(* An admin has set k to one of V. *)
Judged(k, V) ==
    \E h \in Handlers :
        op[h] = "admin" /\ Key(h) = k /\ verdict[h] \in V /\ pc[h] # "set"

(* Manual acceptance: whatever the callers' first knocks, status calls and *)
(* the admins' verdicts race to, a DID's request is pending, and the DID   *)
(* is told "active", only if an admin has accepted it at some time.        *)
PendingWasAccepted ==
    ~autoAccept =>
        \A h \in Handlers :
            /\ status[h] = "pending" /\ did[h] # "" => Judged(Key(h), {"active"})
            /\ reply[h] = "active" => Judged(Key(h), {"active"})

(* Some admin has accepted k and has still to release its requests. *)
Releasing(k) == \E h \in Handlers : pc[h] = "release" /\ Key(h) = k

(* A request that stays held while its sender is accepted either names no  *)
(* workspace or was between the check of the knock and the put while a     *)
(* release ran: there is no third way to be forgotten.                     *)
OnlyRacersStayHeld ==
    \A h \in Handlers :
        /\ status[h] = "held"
        /\ knock[Key(h)] = "active"
        /\ ~Releasing(Key(h))
        => ws[h] = "" \/ h \in late

(* Automatic acceptance: no request is held and no status call is answered *)
(* "pending", though admins may set knocks back to "pending" at any time.  *)
AutoNeverWaits ==
    autoAccept => \A h \in Handlers : status[h] # "held" /\ reply[h] # "pending"

-----------------------------------------------------------------------------
(* What the repository says and the code does not keep (violation runs).   *)

(* "Accepted! This DID can now send requests to the workspace."            *)
(* (src/examples/knock/main.go:54): a request sent after a status call was *)
(* answered "active" is held only if an admin has changed his mind.        *)
AcceptedCanSend ==
    \A h \in Handlers :
        told[h] /\ status[h] = "held" => Judged(Key(h), {"pending", "blocked"})
=============================================================================
