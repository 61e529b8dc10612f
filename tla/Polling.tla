------------------------------- MODULE Polling -------------------------------
(***************************************************************************)
(* The SDK's waits (src/client.go) over its HTTP transport (src/http.go):  *)
(* an agent that signs with a DID waits for acceptance, creates a request  *)
(* and waits for the response, in any order, polling a server that may     *)
(* refuse, be slow, lose a reply or restart without its memory.            *)
(*                                                                         *)
(* The server is one step a call: its races are in RequestStore and        *)
(* KnockFlow.  Time passes in ticks; a timer that is due is served before  *)
(* the next tick.                                                          *)
(***************************************************************************)
EXTENDS Integers

CONSTANTS
    Lives,          \* values of ExpiresInSeconds
    Polls,          \* values of pollInterval and poll, in ticks
    Timeouts,       \* values of timeout, in ticks
    ResponsePoll,   \* the default 2.0 of WaitForResponse
    AcceptPoll,     \* the default 3.0 of WaitForAcceptance
    AcceptTimeout,  \* its default 300.0
    HttpTimeout,    \* the timeout of the HTTP client
    MaxElapsed,     \* the longest timeout, interval and HTTP call, one after the other
    Refusals,       \* status codes of replies that are no 2xx
    None            \* no knock, no request, no reply

Terminal == {"completed", "expired", "cancelled"}
KnockStates == {"pending", "active", "blocked"}
RequestStates == {"held", "pending", "opened"} \cup Terminal

(* Replies of the server, reduced to the code and the "status" member. *)
Replies == [code : {200, 201, 404} \cup Refusals,
            status : KnockStates \cup RequestStates \cup {"none"}]

ASSUME PollingAssumption ==
    /\ Lives \cup Polls \cup Timeouts \subseteq Int
    /\ {ResponsePoll, AcceptPoll, AcceptTimeout, HttpTimeout} \subseteq Nat \ {0}
    /\ MaxElapsed \in Nat
    /\ \A t \in Timeouts \cup {AcceptTimeout}, p \in Polls \cup {ResponsePoll, AcceptPoll} :
          t + p + HttpTimeout <= MaxElapsed
    /\ Refusals \subseteq 300..599 \ {404}
    /\ None \notin Int \cup KnockStates \cup RequestStates \cup Replies

VARIABLES
    autoAccept,  \* server: AutoAcceptKnocks
    knock,       \* server: the agent's knock
    status,      \* server: the request's status
    left,        \* server: time to the deadline, -1 past it, None without
    call,        \* the SDK function the agent is in, or "none"
    pc,          \* "request": an HTTP call is out; "sleep": between two
    life,        \* the arguments of that function
    poll,
    timeout,
    timer,       \* what is left of the sleep or of the HTTP client's timeout
    elapsed,     \* time.Since(start), of a wait that looks at it
    answer,      \* the reply on its way
    result,      \* what the last function returned
    known,       \* the agent has the request's id
    over,        \* history: for how long the wait could have ended, up to HttpTimeout + 1
    forgot       \* history: the server restarted after the creation

server == <<autoAccept, knock, status, left>>
args == <<life, poll, timeout>>
vars == <<server, call, pc, args, timer, elapsed, answer, result, known, over, forgot>>

Error(type) == [is |-> "error", of |-> type]
Value(v) == [is |-> "value", of |-> v]

Init ==
    /\ autoAccept \in BOOLEAN
    /\ knock = None
    /\ status = None
    /\ left = None
    /\ call = "none"
    /\ pc = "none"
    /\ life = 0 /\ poll = 0 /\ timeout = 0
    /\ timer = 0
    /\ elapsed = 0
    /\ answer = None
    /\ result = Value("none")
    /\ known = FALSE
    /\ over = 0
    /\ forgot = FALSE

-----------------------------------------------------------------------------
(* The agent calls.                                                        *)

(* doRequest: one HTTP call, never repeated. *)
Request == pc' = "request" /\ timer' = HttpTimeout /\ answer' = None

Begin(f) ==
    /\ call = "none"
    /\ call' = f
    /\ Request
    /\ result' = Value("none")
    /\ UNCHANGED <<server, elapsed, known, over, forgot>>

CreateRequest(l) ==
    /\ status = None
    /\ Begin("create")
    /\ life' = l
    /\ UNCHANGED <<poll, timeout>>

(* Mutant of WaitForResponse: no default for the interval. *)
WaitForResponseAnyPoll(p, t) ==
    /\ known
    /\ Begin("response")
    /\ poll' = p
    /\ timeout' = t
    /\ UNCHANGED life

WaitForResponse(p, t) ==
    /\ known
    /\ Begin("response")
    /\ poll' = IF p <= 0 THEN ResponsePoll ELSE p
    /\ timeout' = t
    /\ UNCHANGED life

WaitForAcceptance(p, t) ==
    /\ Begin("accept")
    /\ poll' = IF p <= 0 THEN AcceptPoll ELSE p
    /\ timeout' = IF t <= 0 THEN AcceptTimeout ELSE t
    /\ UNCHANGED life

-----------------------------------------------------------------------------
(* The server serves.                                                      *)

Reply(code, v) == answer' = [code |-> code, status |-> v]

Serving(f) == call = f /\ pc = "request" /\ answer = None

Unchanged(v) == UNCHANGED <<autoAccept, call, pc, args, timer, elapsed, result, known, over, forgot>> /\ UNCHANGED v

(* handleKnockStatus: a pending knock that is accepted releases. *)
ServeKnockStatus ==
    LET k == CASE knock = None -> IF autoAccept THEN "active" ELSE "pending"
               [] knock = "pending" /\ autoAccept -> "active"
               [] OTHER -> knock
    IN /\ Serving("accept")
       /\ knock' = k
       /\ status' = IF knock = "pending" /\ autoAccept /\ status = "held" THEN "pending" ELSE status
       /\ Reply(200, k)
       /\ Unchanged(left)

(* handleCreateRequest: only a positive lifetime sets a deadline. *)
ServeCreate ==
    /\ Serving("create")
    /\ knock' = IF knock = "active" \/ autoAccept THEN "active"
                ELSE IF knock = None THEN "pending" ELSE knock
    /\ status' = IF knock = "active" \/ autoAccept THEN "pending" ELSE "held"
    /\ left' = IF life > 0 THEN life ELSE None
    /\ forgot' = FALSE
    /\ Reply(201, status')
    /\ UNCHANGED <<autoAccept, call, pc, args, timer, elapsed, result, known, over>>

(* Mutant of Expired: only what nobody has opened expires. *)
ExpiredUnopened == status = "pending" /\ left = -1

(* expireLocked: the clock counts only when somebody asks. *)
Expired == status \in {"pending", "opened"} /\ left = -1

(* handleGetRequest. *)
ServeGet ==
    /\ Serving("response")
    /\ status' = IF Expired THEN "expired" ELSE status
    /\ IF status = None THEN Reply(404, "none") ELSE Reply(200, status')
    /\ Unchanged(<<knock, left>>)

(* Authentication, rate limit, or a fault of the server. *)
Refuse(code) ==
    /\ pc = "request"
    /\ answer = None
    /\ Reply(code, "none")
    /\ Unchanged(<<knock, status, left>>)

-----------------------------------------------------------------------------
(* The agent gets its reply.                                               *)

(* Mutant of ErrorType: one error for every fault of the caller. *)
ErrorTypeClient(code) ==
    CASE code = 429 -> "RateLimitError"
      [] code \in 400..499 -> "NotFoundError"
      [] OTHER -> "ServerError"

(* handleErrorResponse. *)
ErrorType(code) ==
    CASE code = 401 -> "AuthenticationError"
      [] code = 403 -> "ForbiddenError"
      [] code = 404 -> "NotFoundError"
      [] code = 422 -> "ValidationError"
      [] code = 429 -> "RateLimitError"
      [] code >= 500 -> "ServerError"
      [] OTHER -> "HaxError"

Return(r) ==
    /\ result' = r
    /\ call' = "none"
    /\ pc' = "none"
    /\ timer' = 0
    /\ answer' = None
    /\ life' = 0 /\ poll' = 0 /\ timeout' = 0
    /\ elapsed' = 0
    /\ over' = 0
    /\ UNCHANGED <<server, forgot>>

Received(f) == call = f /\ pc = "request" /\ answer # None /\ answer.code \in 200..299

(* Whatever the code, 429 with its Retry-After included, a wait gives up. *)
ReceiveError ==
    /\ pc = "request"
    /\ answer # None
    /\ answer.code \notin 200..299
    /\ Return(Error(ErrorType(answer.code)))
    /\ UNCHANGED known

ReceiveCreated ==
    /\ Received("create")
    /\ Return(Value(answer.status))
    /\ known' = TRUE

(* The results that end each wait. *)
Ends(f) == IF f = "accept" THEN {"active", "blocked"} ELSE Terminal

(* Only WaitForResponse knows a wait without a timeout, which never looks  *)
(* at the clock and may last for ever.                                     *)
Timed == call = "accept" \/ (call = "response" /\ timeout > 0)

(* Mutant of TimedOut: the time of the test is one tick late. *)
TimedOutLater == Timed /\ elapsed > timeout

(* (For its timeout, WaitForAcceptance returns the value "timeout" instead *)
(* of an error.)                                                           *)
TimedOut == Timed /\ elapsed >= timeout

Sleep ==
    /\ pc' = "sleep"
    /\ timer' = poll
    /\ answer' = None
    /\ UNCHANGED <<server, call, args, elapsed, result, known, over, forgot>>

(* Mutant of ReceiveStatus: the clock is looked at before the reply. *)
ReceiveStatusClockFirst(f) ==
    /\ Received(f)
    /\ \/ /\ TimedOut
          /\ Return(Error("timeout")) /\ UNCHANGED known
       \/ /\ ~TimedOut
          /\ answer.status \in Ends(f)
          /\ Return(Value(answer.status)) /\ UNCHANGED known
       \/ /\ answer.status \notin Ends(f)
          /\ ~TimedOut
          /\ Sleep

(* The loops of both waits: the reply first, then the clock. *)
ReceiveStatus(f) ==
    /\ Received(f)
    /\ \/ /\ answer.status \in Ends(f)
          /\ Return(Value(answer.status)) /\ UNCHANGED known
       \/ /\ answer.status \notin Ends(f)
          /\ TimedOut
          /\ Return(Error("timeout")) /\ UNCHANGED known
       \/ /\ answer.status \notin Ends(f)
          /\ ~TimedOut
          /\ Sleep

Wake ==
    /\ pc = "sleep"
    /\ timer = 0
    /\ Request
    /\ UNCHANGED <<server, call, args, elapsed, result, known, over, forgot>>

(* client.Do fails, or the body cannot be read or parsed, whether or not   *)
(* the server has served the call; nothing tries again.                    *)
Lose ==
    /\ pc = "request"
    /\ Return(Error("network"))
    /\ UNCHANGED known

-----------------------------------------------------------------------------
(* Everybody else.                                                         *)

Bystander == UNCHANGED <<autoAccept, call, pc, args, timer, elapsed, answer, result, known>>

(* The human opens the page, answers, or somebody cancels. *)
View ==
    /\ status = "pending"
    /\ status' = IF Expired THEN "expired" ELSE "opened"
    /\ Bystander /\ UNCHANGED <<knock, left, over, forgot>>

Finish ==
    /\ status # None
    /\ \E s \in {"completed", "cancelled"} : status' = s
    /\ Bystander /\ UNCHANGED <<knock, left, over, forgot>>

(* handleAdminKnock. *)
Admin(v) ==
    /\ knock' = v
    /\ status' = IF v = "active" /\ status = "held" THEN "pending" ELSE status
    /\ over' = IF call = "accept" /\ v = "pending" THEN 0 ELSE over
    /\ Bystander /\ UNCHANGED <<left, forgot>>

(* The store is in memory only. *)
Restart ==
    /\ knock' = None
    /\ status' = None
    /\ left' = None
    /\ over' = 0
    /\ forgot' = (status # None \/ forgot)
    /\ Bystander

(* A poll that reached the server now would end the wait. *)
CouldEnd ==
    \/ call = "response" /\ (status \in Terminal \/ Expired)
    \/ call = "accept" /\ knock \in Ends("accept")

Tick ==
    /\ pc # "none" => timer > 0
    /\ timer' = IF pc = "none" THEN 0 ELSE timer - 1
    /\ elapsed' = IF Timed THEN elapsed + 1 ELSE elapsed
    /\ left' = IF left \in {None, -1} THEN left ELSE left - 1
    /\ over' = IF ~CouldEnd THEN 0 ELSE IF over <= HttpTimeout THEN over + 1 ELSE over
    /\ UNCHANGED <<autoAccept, knock, status, call, pc, args, answer, result, known, forgot>>

-----------------------------------------------------------------------------
Calls ==
    \/ \E l \in Lives : CreateRequest(l)
    \/ \E p \in Polls, t \in Timeouts : WaitForResponse(p, t) \/ WaitForAcceptance(p, t)

Serve == ServeKnockStatus \/ ServeCreate \/ ServeGet

Receive == ReceiveError \/ ReceiveCreated \/ ReceiveStatus("accept") \/ ReceiveStatus("response")

Others == View \/ Finish \/ (\E v \in {"pending", "active", "blocked"} : Admin(v)) \/ Restart

Next ==
    \/ Calls
    \/ Serve
    \/ \E code \in Refusals : Refuse(code)
    \/ Receive
    \/ Wake
    \/ Lose
    \/ Others
    \/ Tick

(* The clock advances; the agent takes the reply that has come, wakes when *)
(* its sleep is over and gives up a call when its time is over.  Nothing   *)
(* is assumed of the server, the human or the admins.                      *)
Fairness ==
    /\ WF_vars(Tick)
    /\ WF_vars(Receive)
    /\ WF_vars(Wake)
    /\ WF_vars(timer = 0 /\ Lose)

Spec == Init /\ [][Next]_vars /\ Fairness
-----------------------------------------------------------------------------
(* The types of the variables: the server's knock and request, the agent's *)
(* position in its loop, and its clock, which no guard stops at MaxElapsed *)
(* but the end of the wait.                                                *)
TypeOK ==
    /\ autoAccept \in BOOLEAN
    /\ knock \in KnockStates \cup {None}
    /\ status \in RequestStates \cup {None}
    /\ left \in Int \cup {None} /\ (left # None => left >= -1)
    /\ call \in {"none", "create", "accept", "response"}
    /\ pc \in {"none", "request", "sleep"} /\ (pc = "none" <=> call = "none")
    /\ timer \in 0..MaxElapsed
    /\ elapsed \in 0..MaxElapsed
    /\ answer \in Replies \cup {None}
    /\ result.is \in {"value", "error"}
    /\ known \in BOOLEAN
    /\ over \in 0..HttpTimeout + 1
    /\ forgot \in BOOLEAN

(* A wait ends with a timeout only if, for longer than one HTTP call may   *)
(* take, no poll would have ended it: an answer, a verdict or a deadline   *)
(* that came in time is never missed, though the deadline is looked at     *)
(* only when somebody asks.                                                *)
TimeoutMissesNothing ==
    [][call # "none" /\ result' = Error("timeout") /\ call' = "none" => over <= HttpTimeout]_vars

(* A wait with a timeout overruns it by less than one interval and one     *)
(* HTTP call, at whatever point of the loop the time runs out.             *)
ReturnsInTime == Timed => elapsed < timeout + poll + HttpTimeout

(* The agent has every id from the server: it is told "not found" only     *)
(* after the server restarted and forgot the request.                      *)
NotFoundMeansForgotten ==
    [][result' = Error("NotFoundError") /\ call' = "none" /\ call # "none" => forgot]_vars

(* A wait for acceptance returns.  So does a wait for a response that has  *)
(* a timeout, or whose request has a deadline and is not held.             *)
WaitsReturn ==
    /\ call = "accept" ~> call # "accept"
    /\ call = "response" /\ (timeout > 0 \/ (left # None /\ status # "held")) ~> call # "response"
=============================================================================
